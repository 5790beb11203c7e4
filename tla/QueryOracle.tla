----------------------------- MODULE QueryOracle -----------------------------
(***************************************************************************)
(* What the engine promises its consumers: inputs change between requests, *)
(* and every answer is the value of the query evaluated from scratch on    *)
(* the inputs as they are.  Memo slots, verification, durability tiers,    *)
(* reclamation and the stack do not show.                                  *)
(***************************************************************************)
EXTENDS QuerySemantics

CONSTANT None

VARIABLES text,    \* the inputs
          answer   \* the last answer given, if any

Silent == [q |-> None, val |-> None]

Init == text \in [Inputs -> Values] /\ answer = Silent

\* An input is set, or touched without a change, between two requests.
Edit ==
    /\ text' \in [Inputs -> Values]
    /\ Cardinality({i \in Inputs : text'[i] # text[i]}) <= 1
    /\ answer' = Silent

NewRequest == answer' = Silent /\ UNCHANGED text

Ask(q) ==
    /\ answer' = [q |-> q, val |-> FromScratch(text)[q]]
    /\ UNCHANGED text

Next == Edit \/ NewRequest \/ \E q \in Derived : Ask(q)

Spec == Init /\ [][Next]_<<text, answer>>
=============================================================================
