--------------------------- MODULE QuerySemantics ---------------------------
(***************************************************************************)
(* What a query means, with no engine: the value its body returns when     *)
(* every query it reads is itself evaluated from scratch.  This is the     *)
(* reference the memo table of QueryEngine is compared with.               *)
(***************************************************************************)
EXTENDS Integers, Sequences, FiniteSets

CONSTANTS Inputs, Derived, Values, Bottom, Body(_, _), MaxReads

\* The values a body reads when query d yields env[d], cut at its last read.
ReadsOf(q, env) ==
    LET reads[n \in 0 .. MaxReads] ==
          IF n = 0 THEN <<>>
          ELSE LET vs == reads[n - 1]
                   b  == Body(q, vs)
               IN  IF b.op = "read" THEN Append(vs, env[b.q]) ELSE vs
    IN  reads[MaxReads]

ResultOf(q, env) == Body(q, ReadsOf(q, env)).val

\* Evaluation from scratch: after k rounds every query whose reads nest at
\* most k deep has its value; acyclic programs need Cardinality(Derived).
FromScratch(text) ==
    LET round[k \in 0 .. Cardinality(Derived)] ==
          IF k = 0
          THEN [q \in Inputs \cup Derived |->
                  IF q \in Inputs THEN text[q] ELSE Bottom]
          ELSE LET env == round[k - 1]
               IN  [q \in Inputs \cup Derived |->
                      IF q \in Inputs THEN text[q] ELSE ResultOf(q, env)]
    IN  round[Cardinality(Derived)]
=============================================================================
