-------------------------- MODULE QueryEngineCheck --------------------------
(***************************************************************************)
(* The properties of QueryEngine that compare a memo with what its body    *)
(* computes.                                                               *)
(***************************************************************************)
EXTENDS QueryEngine

Sem == INSTANCE QuerySemantics

Oracle == INSTANCE QueryOracle WITH text <- [i \in Inputs |-> column[i]]

\* The engine implements the oracle: whatever was edited, verified, skipped
\* by a durability tier or reclaimed, each top-level answer is the value
\* computed from scratch (engine.h: "a consistent snapshot of inputs").
AnswersAreFromScratch == Oracle!Spec

Now == Sem!FromScratch([i \in Inputs |-> column[i]])

\* db_slot_is_live: a slot verified at the current revision holds the value
\* of the current inputs, in its column and in its fingerprint.
LiveSlotIsCurrent ==
    \A q \in Derived :
        state[q] = "DONE" /\ vrev[q] = cur
            => column[q] = Now[q] /\ fp[q] = Now[q]

\* Dependency completeness: the body of a memoized query, fed with nothing
\* but the fingerprints recorded in its dependency list, reads only recorded
\* queries and returns the memoized value.  A read that db_query_begin or
\* db_query_succeed fails to record, or a sentinel of a cancelled callee that
\* reaches a memo, breaks it.
Recorded(q) ==
    [d \in Queries |->
       IF \E k \in DOMAIN deps[q] : deps[q][k].q = d
       THEN deps[q][CHOOSE k \in DOMAIN deps[q] : deps[q][k].q = d].fp
       ELSE None]

MemoIsReplayable ==
    \A q \in Derived :
        state[q] = "DONE"
            => /\ None \notin {Sem!ReadsOf(q, Recorded(q))[k] :
                                 k \in DOMAIN Sem!ReadsOf(q, Recorded(q))}
               /\ Sem!ResultOf(q, Recorded(q)) = fp[q]

-----------------------------------------------------------------------------
(* What the theorems about memos and answers ask of a program.               *)

Stories == UNION {[1 .. n -> Results] : n \in 0 .. MaxReads}

\* The body of q reads d after some values.
CanRead(q, d) ==
    \E vs \in Stories : Body(q, vs).op = "read" /\ Body(q, vs).q = d

\* No query reads itself, through others or not: a callee is of a lower rank.
Ranking(rank) ==
    \A q, d \in Derived : CanRead(q, d) => rank[d] < rank[q]

Acyclic ==
    /\ IsFiniteSet(Derived)
    /\ \E rank \in [Derived -> 1 .. Cardinality(Derived)] : Ranking(rank)

\* The queries whose sentinel a body may be handed in a request that is not
\* cancelled: those that fail, and any that may be on a cycle.
MayFail ==
    IF Acyclic THEN {q \in Derived : \E vs \in Stories : Body(q, vs).op = "fail"}
    ELSE Derived

\* The values vs are read one after the other by a body of q.
ReadInTurn(q, vs) ==
    \A k \in 1 .. Len(vs) : Body(q, SubSeq(vs, 1, k - 1)).op = "read"

\* A body that was handed a sentinel fails.  Of a query that closed a cycle or
\* failed nothing is recorded, so the memo of a body that swallows the sentinel
\* cannot be replayed.
FailsOnBottom ==
    \A q \in Derived : \A vs \in Stories :
        /\ ReadInTurn(q, vs)
        /\ \E k \in 1 .. Len(vs) :
             vs[k] = Bottom /\ Body(q, SubSeq(vs, 1, k - 1)).q \in MayFail
        => Body(q, vs).op # "return"

\* Every query has a durability tier that what it reads does not move: at most
\* that of each query it can read, and one of those it has read by the time it
\* returns is of no higher a tier.
Tiering(tier) ==
    /\ \A i \in Inputs : tier[i] = InputDur[i]
    /\ \A q \in Derived, d \in Queries : CanRead(q, d) => tier[q] <= tier[d]
    /\ \A q \in Derived : \A vs \in Stories :
         ReadInTurn(q, vs) /\ Body(q, vs).op = "return"
           => \/ tier[q] = DUR_HIGH
              \/ \E k \in 1 .. Len(vs) :
                   tier[Body(q, SubSeq(vs, 1, k - 1)).q] <= tier[q]

Tiered == \E tier \in [Queries -> Tiers] : Tiering(tier)

\* What compile_file pulls in the request pinned at revision 1 (FILE_AST) reads
\* inputs only.
ProfiledReadInputs ==
    \A q \in Profiled, d \in Derived : ~ CanRead(q, d)

Steady ==
    ~ CanCancel /\ Acyclic /\ FailsOnBottom /\ Tiered /\ ProfiledReadInputs
=============================================================================
