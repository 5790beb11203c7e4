---------------------------- MODULE MCWorkspace ----------------------------
(***************************************************************************)
(* A workspace of a main file that imports a library file.                 *)
(***************************************************************************)
EXTENDS Workspace, TLC

Both == {"main", "lib"}

\* Two texts with different declarations.
One == [names |-> {"f"}]
Two == [names |-> {"g"}]
TwoTexts == {One, Two}

\* The main file is there and does not change; the library does.
LibChanges == ("main" :> {One}) @@ ("lib" :> TwoTexts \cup {Bottom})

MainImportsLib == "main" :> "lib"

WInputs == {Src(f) : f \in Both} \cup {Set(f) : f \in Both} \cup {Path("lib")}
WDerived == {Ast("main"), Ast("lib"), Items("lib"), Imp("main")}
WInputDur ==
    [i \in WInputs |-> IF i[1] = "FILE_SET" THEN DUR_MEDIUM ELSE DUR_LOW]
WValues == TwoTexts \cup {Tree(t) : t \in TwoTexts}
             \cup {Members(<<>>), Members(<<"main">>), Members(<<"lib">>)}
             \cup {Exports({}), Exports({"f"}), Exports({"g"})}
             \cup {Nspace("lib")}
\* States that differ in what the last consumer was told, or in running_slots
\* (which only a cancel makes the engine read), behave alike.
View == <<slotVars, stack, revVars, workspaceVars>>
=============================================================================
