---------------------------- MODULE SccFixpoint ----------------------------
(***************************************************************************)
(* The CYCLE_FIXPOINT policy of the query engine.  FN_SIGNATURE and        *)
(* INFER_BODY of mutually recursive functions re-enter one another; instead*)
(* of the bottom value of QueryEngine, the first re-entry enrols the       *)
(* frames of the cycle as members of an SCC, whose slots stay RUNNING and  *)
(* provisional.  Their bodies return provisional values; the wrapper of    *)
(* the re-entered query (the root) then reruns every member until no       *)
(* fingerprint moves and finalizes them all.                               *)
(*                                                                         *)
(* The engine is QueryEngine's.  A value is an effect row or a text; the   *)
(* result column of an INFER_BODY is its effect-row channel.               *)
(***************************************************************************)
EXTENDS QueryEngineCheck

CONSTANTS
    Signatures,  \* the FN_SIGNATURE queries
    Bodies,      \* the INFER_BODY queries
    TextsOf      \* the values each input takes

Fixpoint == Signatures \cup Bodies

ASSUME FixpointAssumption ==
    /\ Fixpoint \subseteq Derived /\ Signatures \cap Bodies = {}
    /\ TextsOf \in [Inputs -> SUBSET Values]

VARIABLES
    prov,  \* the slots whose provisional bit is set
    scc    \* scc_store, scc_root and the position of db_query_fixpoint_drive

sccVars == <<vars, prov, scc>>

(***************************************************************************)
(* phase "idle": scc_store is NULL; "collect": members are enrolled and    *)
(* their first bodies still run; "rerun" and "finalize": the two loops of  *)
(* the drive, above a stack of base frames.  before is the snapshot's      *)
(* fingerprint; a member is "written" once its fp is not None.             *)
(***************************************************************************)
Idle == [phase |-> "idle", root |-> None, members |-> <<>>, base |-> 0,
         i |-> 1, iter |-> 0, before |-> None, changed |-> FALSE]

Member == [q : Fixpoint, fp : Results \cup {None}]

\* Variant: a bound that the iteration reaches.
CapTooLow == 1

\* The safety net of the iteration.
Cap == Len(scc.members) * 64 + 32

\* The C code is in a body or a walk, not in the loops of the drive.
EngineRuns ==
    \/ scc.phase \in {"idle", "collect"}
    \/ scc.phase = "rerun" /\ Len(stack) > scc.base

-----------------------------------------------------------------------------
(* Re-entry. *)

\* What the caller of q is left with when q is not computed: the shape of a
\* signature has the empty row; the row of a body is read from its column
\* whatever the guard returned.
Held(q) == IF q \in Derived \ Signatures THEN column[q] ELSE Bottom

Written(q) ==
    \E k \in DOMAIN scc.members :
        scc.members[k].q = q /\ scc.members[k].fp # None

Provisional(q) == IF Written(q) THEN column[q] ELSE Held(q)

HandBack(q, v) ==
    /\ stack' = ReturnTo(Caller(q), v)
    /\ answer' = AnswerOf(stack, q, v)
    /\ UNCHANGED <<slotVars, revVars, cancel, running>>

Canceled(q) ==
    /\ EngineRuns
    /\ Calls(q)
    /\ cancel
    /\ HandBack(q, Held(q))
    /\ UNCHANGED <<prov, scc>>

\* The re-entered frame, where the loop that looks for it starts at the bottom.
HeadFrame(q) ==
    LET heads == {k \in DOMAIN stack : stack[k].q = q}
    IN  IF heads = {} THEN 1
        ELSE CHOOSE k \in heads : \A j \in heads : k <= j

\* A back edge of a new SCC: the queries of the frames from the re-entered one
\* up are its members, those of other kinds excepted.
Cycle(q) ==
    LET upTo[k \in 0 .. Len(stack)] ==
          IF k < HeadFrame(q) THEN <<>>
          ELSE IF stack[k].q \notin Fixpoint THEN upTo[k - 1]
          ELSE Append(upTo[k - 1], stack[k].q)
    IN  upTo[Len(stack)]

Enroll(q) ==
    /\ EngineRuns
    /\ Calls(q)
    /\ ~cancel
    /\ state[q] = "RUNNING"
    /\ q \in Fixpoint
    /\ scc.phase = "idle"
    /\ HandBack(q, Held(q))
    /\ prov' = prov \cup {Cycle(q)[k] : k \in DOMAIN Cycle(q)}
    /\ scc' = [Idle EXCEPT
                 !.phase = "collect",
                 !.root = q,
                 !.members = [k \in DOMAIN Cycle(q) |->
                                [q |-> Cycle(q)[k], fp |-> None]]]

ReEnter(q) ==
    /\ EngineRuns
    /\ Calls(q)
    /\ ~cancel
    /\ state[q] = "RUNNING"
    /\ q \in Fixpoint
    /\ scc.phase # "idle"
    /\ q \in prov
    /\ HandBack(q, Provisional(q))
    /\ UNCHANGED <<prov, scc>>

\* A cycle of another kind, or another cycle while an SCC is active.
FallBack(q) ==
    /\ EngineRuns
    /\ Calls(q)
    /\ ~cancel
    /\ state[q] = "RUNNING"
    /\ q \notin Fixpoint \/ (scc.phase # "idle" /\ q \notin prov)
    /\ HandBack(q, Held(q))
    /\ UNCHANGED <<prov, scc>>

-----------------------------------------------------------------------------
(* The end of the body of a member. *)

EnrolledReturn ==
    /\ EngineRuns
    /\ Finishing("return")
    /\ Top(stack).q \in prov

\* db_query_fixpoint_record and db_query_provisional_pop: the column is
\* written, the slot takes the frame's dependencies and stays RUNNING.  The
\* cancel flag is not consulted.
Iterate ==
    /\ column' = [column EXCEPT ![Top(stack).q] = Upcoming(Top(stack)).val]
    /\ deps' = [deps EXCEPT ![Top(stack).q] = Top(stack).deps]
    /\ UNCHANGED <<state, fp, vrev, dur, revVars, cancel, running, prov>>

WithIterate(members) ==
    [k \in DOMAIN members |->
       IF members[k].q = Top(stack).q
       THEN [members[k] EXCEPT !.fp = Upcoming(Top(stack)).val]
       ELSE members[k]]

IsRerun == scc.phase = "rerun" /\ Len(stack) = scc.base + 1

MemberReturns ==
    /\ EnrolledReturn
    /\ ~IsRerun
    /\ scc.phase = "collect" => Top(stack).q # scc.root
    /\ Iterate
    /\ scc' = [scc EXCEPT !.members = WithIterate(@)]
    /\ stack' = ReturnTo(Popped(stack), Upcoming(Top(stack)).val)
    /\ answer' = AnswerOf(Popped(stack), Top(stack).q, Upcoming(Top(stack)).val)

\* The drive runs above the frames of the root's callers.
DriveBase == Len(stack) - 1

\* The wrapper of the root calls db_query_fixpoint_drive.
RootReturns ==
    /\ EnrolledReturn
    /\ scc.phase = "collect"
    /\ Top(stack).q = scc.root
    /\ Iterate
    /\ scc' = [scc EXCEPT !.members = WithIterate(@), !.phase = "rerun",
                          !.base = DriveBase]
    /\ stack' = Popped(stack)
    /\ UNCHANGED answer

-----------------------------------------------------------------------------
(* db_query_fixpoint_drive *)

InDrive(phase) == scc.phase = phase /\ Len(stack) = scc.base

\* scc_rerun_member: the body runs again on a cleared dependency list.
Rerun ==
    /\ InDrive("rerun")
    /\ scc.i <= Len(scc.members)
    /\ LET m == scc.members[scc.i]
       IN  /\ deps' = [deps EXCEPT ![m.q] = <<>>]
           /\ stack' = Append(stack,
                              [NewFrame(m.q, "body", "EMPTY") EXCEPT
                                 !.deps = <<>>, !.n = 0])
           /\ scc' = [scc EXCEPT !.before = m.fp]
    /\ UNCHANGED <<state, fp, vrev, dur, column, revVars, cancel, running,
                   answer, prov>>

\* Variant: a moved fingerprint does not ask for another pass.
MovedNever(v) == FALSE

Moved(v) == v # scc.before

\* Variant: the loop over the members does not advance.
NextMemberStuck == scc.i

NextMember == scc.i + 1

RerunReturns ==
    /\ EnrolledReturn
    /\ IsRerun
    /\ Iterate
    /\ scc' = [scc EXCEPT !.members = WithIterate(@), !.i = NextMember,
                          !.changed = @ \/ Moved(Upcoming(Top(stack)).val)]
    /\ stack' = Popped(stack)
    /\ UNCHANGED answer

PassEnds ==
    /\ InDrive("rerun")
    /\ scc.i > Len(scc.members)
    /\ scc' = IF scc.changed /\ scc.iter + 1 < Cap
              THEN [scc EXCEPT !.i = 1, !.iter = @ + 1, !.changed = FALSE]
              ELSE [scc EXCEPT !.i = 1, !.phase = "finalize"]
    /\ UNCHANGED <<vars, prov>>

\* Variant: the provisional bit is left set.
FinalizedKeepsBit(q) == prov

Finalized(q) == prov \ {q}

\* One db_query_succeed of the last loop, on a fresh frame above the caller's
\* (hence DUR_LOW).  Under a cancel the slot stays RUNNING for the sweep.
Finalize ==
    /\ InDrive("finalize")
    /\ scc.i <= Len(scc.members)
    /\ LET m == scc.members[scc.i]
       IN  /\ prov' = Finalized(m.q)
           /\ IF cancel
              THEN UNCHANGED <<state, fp, vrev, dur, stack>>
              ELSE /\ state' = [state EXCEPT ![m.q] = "DONE"]
                   /\ fp' = [fp EXCEPT ![m.q] = m.fp]
                   /\ vrev' = [vrev EXCEPT ![m.q] = cur]
                   /\ dur' = [dur EXCEPT ![m.q] = DUR_LOW]
                   /\ stack' = RecordOnParent(stack, m.q, m.fp, DUR_LOW)
    /\ scc' = [scc EXCEPT !.i = @ + 1]
    /\ UNCHANGED <<deps, column, revVars, cancel, running, answer>>

\* Variant: scc_store is not reset.
AfterDriveStale == [scc EXCEPT !.phase = "collect"]

AfterDrive == Idle

\* scc_store is freed and the wrapper returns the finalized column.
DriveEnds ==
    /\ InDrive("finalize")
    /\ scc.i > Len(scc.members)
    /\ scc' = AfterDrive
    /\ stack' = ReturnTo(stack, column[scc.root])
    /\ answer' = AnswerOf(stack, scc.root, column[scc.root])
    /\ UNCHANGED <<slotVars, revVars, cancel, running, prov>>

-----------------------------------------------------------------------------
SccInit ==
    /\ Init
    /\ \A i \in Inputs : column[i] \in TextsOf[i]
    /\ prov = {}
    /\ scc = Idle

Reentry(q) == Canceled(q) \/ Enroll(q) \/ ReEnter(q) \/ FallBack(q)

\* The steps that are QueryEngine's: no query of the program fails, and only a
\* body that is not enrolled reaches db_query_succeed.
Ordinary ==
    /\ EngineRuns
    /\ \/ \E q \in Queries : BeginEmpty(q) \/ BeginHit(q) \/ BeginWalk(q)
       \/ WalkNext \/ WalkFail \/ WalkEnd
       \/ stack # <<>> /\ Top(stack).q \notin prov /\ (Succeed \/ BailOut)
    /\ UNCHANGED <<prov, scc>>

Drive ==
    MemberReturns \/ RootReturns \/ Rerun \/ RerunReturns \/ PassEnds
        \/ Finalize \/ DriveEnds

\* Between queries: the consumer is not inside a drive.
Outside ==
    /\ scc.phase \in {"idle", "collect"}
    /\ \/ \E r \in 1 .. MaxRev : RequestBegin(r)
       \/ RequestEnd
       \/ \E i \in Inputs : \E v \in TextsOf[i] : InputEdit(i, v)
    /\ UNCHANGED <<prov, scc>>

SccNext ==
    \/ \E q \in Queries : Reentry(q)
    \/ Ordinary
    \/ Drive
    \/ Outside
    \/ RequestCancel /\ UNCHANGED <<prov, scc>>

Busy == stack # <<>> \/ scc.phase \in {"rerun", "finalize"}

\* The query thread does not block inside a call.
SccEngineStep ==
    Busy /\ ((\E q \in Queries : Reentry(q)) \/ Ordinary \/ Drive)

SccSpec == SccInit /\ [][SccNext]_sccVars

SccFairSpec == SccSpec /\ WF_sccVars(SccEngineStep)

-----------------------------------------------------------------------------
\* Type invariant of the two new variables.
SccTypeOK ==
    /\ TypeOK
    /\ prov \subseteq Fixpoint
    /\ scc.phase \in {"idle", "collect", "rerun", "finalize"}
    /\ scc.members \in Seq(Member)
    /\ scc.base \in 0 .. Len(stack)
    /\ scc.i \in 1 .. Len(scc.members) + 1
    /\ scc.iter \in 0 .. Cap

\* db.h: "scc_store==NULL when idle".  When no query runs no SCC is active and
\* no slot is provisional, whether the drive converged or was cancelled: a
\* leftover would take every later cycle for a part of the old one.
SccEndsWithItsCall == ~Busy => scc = Idle /\ prov = {}

\* A provisional slot is RUNNING (engine_internal.h: "RUNNING, not yet
\* converged"), so nobody reads it through the memo path or walks it.
ProvisionalIsRunning == \A q \in prov : state[q] = "RUNNING"

\* "cap is a safety net (never expected to trip)": the drive is left because
\* the last pass moved nothing.
DriveConverges == scc.phase = "finalize" => ~scc.changed

\* engine.c, "the members (all FIXPOINT kinds)": a query that reads one of a
\* FIXPOINT kind is of such a kind, so every frame of a cycle is enrolled.  It
\* holds of FN_SIGNATURE and INFER_BODY, the queries of EffectQueries: bodies
\* name functions by FN_SIGNATURE directly to keep it so (infer.c, "keeping the
\* effect-inference SCC to FN_SIGNATURE").  The TYPE_OF_DECL of a function and
\* the function values of eval.c read FN_SIGNATURE from outside; they are not
\* among the queries here, and a cycle through one of them may never be driven.
OnlyMembersRead ==
    \A q \in Derived \ Fixpoint : \A vs \in Stories :
        Body(q, vs).op = "read" => Body(q, vs).q \notin Fixpoint

\* Every call returns, drives included.
SccCallsReturn == Busy ~> ~Busy
=============================================================================
