---------------------------- MODULE MCLspServer ----------------------------
(***************************************************************************)
(* A document "a" that imports a document "b".                             *)
(***************************************************************************)
EXTENDS LspServer, TLC

Both == {"a", "b"}

\* a uses n of b, well or in a way that is an error in b's generic function.
Uses  == [broken |-> FALSE, own |-> {}, exports |-> {}, imports |-> {"b"},
          uses |-> {"n"}, provokes |-> {}]
Abuses == [Uses EXCEPT !.provokes = {Diag("b", "instance")}]

\* b exports n, with or without an error of its own, or does not parse.
Good   == [broken |-> FALSE, own |-> {}, exports |-> {"n"}, imports |-> {},
           uses |-> {}, provokes |-> {}]
Wrong  == [Good EXCEPT !.own = {"type"}, !.exports = {}]
Broken == [Good EXCEPT !.broken = TRUE]

AllTexts == {Uses, Abuses, Good, Wrong, Broken}
AB == ("a" :> {Uses, Abuses}) @@ ("b" :> {Good, Wrong, Broken})
Edits == ("a" :> 2) @@ ("b" :> 3)
=============================================================================
