---------------------------- MODULE QueryEngine ----------------------------
(***************************************************************************)
(* The incremental query engine of the Ore compiler: db_query_begin /      *)
(* db_engine_verify / db_query_succeed / db_query_fail over a table of     *)
(* memo slots, the request boundary that pins a revision, the cancel flag, *)
(* the input setters and the orphan reclamation at the end of a request.   *)
(*                                                                         *)
(* One thread runs queries; only cancel_requested is written by another    *)
(* (db.h, CONCURRENCY CONTRACT).  An action therefore runs from one read   *)
(* of cancel_requested to just before the next: one db_query_begin, one    *)
(* iteration of the dependency walk, one db_query_succeed.                 *)
(*                                                                         *)
(* Data abstraction: a fingerprint is the value it hashes (no collisions), *)
(* a (kind, key) pair is a query, and the body of a query is the CONSTANT  *)
(* operator Body, which maps the values read so far to the next read or to *)
(* the result, so what a body reads may depend on what it has read.        *)
(***************************************************************************)
EXTENDS Integers, Sequences, FiniteSets

CONSTANTS
    Inputs,          \* queries of INPUT kinds: SOURCE_TEXT, FILE_SET
    Derived,         \* queries of DERIVED kinds
    Values,          \* result values, equal to their fingerprints
    Bottom,          \* what a guard returns on a cycle, an error, a cancel
    None,            \* FINGERPRINT_NONE, and "no query"
    InputDur,        \* the durability tier each input is set with
    Routed,          \* derived queries of HashMap-routed kinds
    Profiled,        \* what compile_file pulls in a request pinned at rev 1
    Body(_, _),      \* the next operation of a body, given what it has read
    MaxReads,        \* a body performs at most this many reads
    OrphanThreshold, \* ENGINE_ORPHAN_THRESHOLD (8 in the code)
    MaxRev,          \* bound: revisions explored
    CanCancel        \* whether some thread calls db_request_cancel

DUR_LOW    == 0
DUR_MEDIUM == 1
DUR_HIGH   == 2
Tiers      == DUR_LOW .. DUR_HIGH

Queries == Inputs \cup Derived
Results == Values \cup {Bottom}

\* What a body may do next.  "fail" is db_query_fail.
Operations ==
    [op : {"read"}, q : Queries, val : {Bottom}]
        \cup [op : {"return"}, q : {None}, val : Results]
        \cup [op : {"fail"}, q : {None}, val : {Bottom}]

ASSUME ConstantsAssumption ==
    /\ Inputs \cap Derived = {}
    /\ None \notin Queries /\ None \notin Results
    /\ InputDur \in [Inputs -> Tiers]
    /\ Routed \subseteq Derived
    /\ Profiled \subseteq Derived
    /\ MaxReads \in Nat
    /\ OrphanThreshold \in Nat
    /\ MaxRev \in Nat \ {0}
    /\ CanCancel \in BOOLEAN

ASSUME BodyAssumption ==
    \A q \in Derived : \A n \in 0 .. MaxReads : \A vs \in [1 .. n -> Results] :
        /\ Body(q, vs) \in Operations
        /\ n = MaxReads => Body(q, vs).op # "read"

-----------------------------------------------------------------------------
VARIABLES
    state,        \* slot->state, "ABSENT" when a routed kind has no row
    fp,           \* slot->fingerprint
    vrev,         \* slot->verified_rev
    dur,          \* slot->durability
    deps,         \* slot->deps, in the order recorded
    column,       \* the result column of the query
    stack,        \* query_stack, with the position of each frame's code
    cur,          \* current_revision
    req,          \* request_revision, 0 when no request is open
    cancel,       \* cancel_requested
    lastChanged,  \* dur_last_changed
    running,      \* running_slots
    answer        \* the last result handed to the consumer of the request

slotVars == <<state, fp, vrev, dur, deps, column>>
revVars  == <<cur, req, lastChanged>>
vars     == <<slotVars, stack, revVars, cancel, running, answer>>

SlotStates == {"ABSENT", "EMPTY", "RUNNING", "DONE", "ERROR"}
NoAnswer   == [q |-> None, val |-> None]
Dep        == [q : Queries, fp : Results \cup {None}]

\* What a body can have read so far.
ValueSeqs == {vs \in Seq(Results) : Len(vs) <= MaxReads}

(***************************************************************************)
(* A frame of query_stack.  deps, minDur and durSet are QueryFrame's; the  *)
(* rest is the C activation record above it: "walk" is the loop of         *)
(* db_engine_verify (prev = state to restore, i = loop index, n = ndeps,   *)
(* pulled = dispatch has returned, located = the dep had a slot before the *)
(* pull, want = recorded_fp), "body" is the query's body (vals = values    *)
(* read).  The list a walk iterates over grows under it: ndeps is read     *)
(* once, and must stay within the list.                                    *)
(***************************************************************************)
FrameFields ==
    [q : Derived, mode : {"walk", "body"}, prev : {"DONE", "ERROR", "EMPTY"},
     i : Nat \ {0}, n : Nat, pulled : BOOLEAN, located : BOOLEAN,
     want : Results \cup {None}, vals : ValueSeqs, deps : Seq(Dep),
     minDur : Tiers, durSet : BOOLEAN]

Frame == {f \in FrameFields : f.mode = "walk" => f.n <= Len(f.deps)}

\* query_stack_push: the frame inherits the slot's dependency list.
NewFrame(q, mode, prev) ==
    [q |-> q, mode |-> mode, prev |-> prev, i |-> 1, n |-> Len(deps[q]),
     pulled |-> FALSE, located |-> FALSE, want |-> None, vals |-> <<>>,
     deps |-> deps[q], minDur |-> DUR_HIGH, durSet |-> FALSE]

Top(stk)    == stk[Len(stk)]
Popped(stk) == SubSeq(stk, 1, Len(stk) - 1)

OnTop(stk, frame) == [stk EXCEPT ![Len(stk)] = frame]

\* What the body of the frame does next.
Upcoming(frame) == Body(frame.q, frame.vals)

\* db_effective_revision
Effective == IF req # 0 THEN req ELSE cur

-----------------------------------------------------------------------------
(* What a callee does to the frame of its caller. *)

\* The entries dep_index leads to.  The first dependency is entered with row 0,
\* which hashmap_get's caller cannot tell from "absent".
Indexed(frame, q) ==
    {k \in DOMAIN frame.deps : k # 1 /\ frame.deps[k].q = q}

\* record_dep_on_parent: a repeated dependency is refreshed in place, unless it
\* is the first one, which is appended once more.  dep_dur is left out: it is
\* recorded and never read.
RecordDep(frame, q, f, d) ==
    LET dep == [q |-> q, fp |-> f]
    IN  [frame EXCEPT
           !.deps = IF Indexed(frame, q) # {}
                    THEN [k \in DOMAIN @ |->
                            IF k \in Indexed(frame, q) THEN dep ELSE @[k]]
                    ELSE Append(@, dep),
           !.minDur = IF ~frame.durSet \/ d < @ THEN d ELSE @,
           !.durSet = TRUE]

RecordOnParent(stk, q, f, d) ==
    IF stk = <<>> THEN stk
    ELSE OnTop(stk, RecordDep(Top(stk), q, f, d))

\* The callee returns v: a body goes on with it, a dependency walk drops it.
ReturnTo(stk, v) ==
    IF stk = <<>> \/ Top(stk).mode = "walk" THEN stk
    ELSE OnTop(stk, [Top(stk) EXCEPT !.vals = Append(@, v)])

\* compile_file throws away what it pulls in the request pinned at revision 1.
AnswerOf(stk, q, v) ==
    IF stk = <<>> /\ req = cur THEN [q |-> q, val |-> v] ELSE answer

-----------------------------------------------------------------------------
(* Who may call db_query_begin on q now. *)

\* ide/*.c and compile_file pull queries between request begin and end; the
\* request compile_file pins at revision 1 pulls FILE_AST alone.
ConsumerCalls(q) ==
    /\ stack = <<>>
    /\ req # 0
    /\ q \in Derived
    /\ req = cur \/ q \in Profiled

BodyCalls(q) ==
    /\ stack # <<>>
    /\ Top(stack).mode = "body"
    /\ Upcoming(Top(stack)).op = "read"
    /\ Upcoming(Top(stack)).q = q

\* The dispatch thunk of an INPUT kind is a no-op, so a walk never calls one.
WalkCalls(q) ==
    /\ stack # <<>>
    /\ Top(stack).mode = "walk"
    /\ ~Top(stack).pulled
    /\ Top(stack).i <= Top(stack).n
    /\ Top(stack).deps[Top(stack).i].q = q
    /\ q \notin Inputs

Calls(q) == ConsumerCalls(q) \/ BodyCalls(q) \/ WalkCalls(q)

\* The stack as the callee finds it: a walk has located the dependency's slot
\* and saved the recorded fingerprint before it pulls.
Caller(q) ==
    IF stack # <<>> /\ Top(stack).mode = "walk"
    THEN OnTop(stack,
               [Top(stack) EXCEPT
                  !.pulled = TRUE,
                  !.want = Top(stack).deps[Top(stack).i].fp,
                  !.located = state[q] # "ABSENT"])
    ELSE stack

-----------------------------------------------------------------------------
(* db_query_begin, one action for each way it goes. *)

BeginCanceled(q) ==
    /\ Calls(q)
    /\ cancel
    /\ stack' = ReturnTo(Caller(q), Bottom)
    /\ answer' = AnswerOf(stack, q, Bottom)
    /\ UNCHANGED <<slotVars, revVars, cancel, running>>

\* The slot of q is RUNNING below on the stack, or was left so by a cancel.
BeginCycle(q) ==
    /\ Calls(q)
    /\ ~cancel
    /\ state[q] = "RUNNING"
    /\ stack' = ReturnTo(Caller(q), Bottom)
    /\ answer' = AnswerOf(stack, q, Bottom)
    /\ UNCHANGED <<slotVars, revVars, cancel, running>>

\* Variant: the slot is not entered into running_slots.
BeginEmptyUntracked(q) ==
    /\ Calls(q)
    /\ ~cancel
    /\ state[q] \in {"EMPTY", "ABSENT"}
    /\ state' = [state EXCEPT ![q] = "RUNNING"]
    /\ stack' = Append(Caller(q), NewFrame(q, "body", "EMPTY"))
    /\ UNCHANGED <<fp, vrev, dur, deps, column, revVars, cancel, running,
                   answer>>

\* Variant: a RUNNING slot is computed again instead of reported as a cycle.
BeginEmptyReentrant(q) ==
    /\ Calls(q)
    /\ ~cancel
    /\ state[q] \in {"EMPTY", "ABSENT", "RUNNING"}
    /\ state' = [state EXCEPT ![q] = "RUNNING"]
    /\ stack' = Append(Caller(q), NewFrame(q, "body", "EMPTY"))
    /\ running' = running \cup {q}
    /\ UNCHANGED <<fp, vrev, dur, deps, column, revVars, cancel, answer>>

\* A routed kind without a row is given a zeroed one first
\* (db_query_slot_alloc, alloc_or_reuse_row).
BeginEmpty(q) ==
    /\ Calls(q)
    /\ ~cancel
    /\ state[q] \in {"EMPTY", "ABSENT"}
    /\ state' = [state EXCEPT ![q] = "RUNNING"]
    /\ IF state[q] = "ABSENT"
       THEN /\ vrev' = [vrev EXCEPT ![q] = 0]
            /\ column' = [column EXCEPT ![q] = Bottom]
       ELSE UNCHANGED <<vrev, column>>
    /\ stack' = Append(Caller(q), NewFrame(q, "body", "EMPTY"))
    /\ running' = running \cup {q}
    /\ UNCHANGED <<fp, dur, deps, revVars, cancel, answer>>

\* db_engine_verify answers without pulling a dependency: already verified at
\* this revision, the durability fast path, or no dependency to walk.
VerifiedAtOnce(q) ==
    \/ vrev[q] = Effective
    \/ lastChanged[dur[q]] <= vrev[q]
    \/ deps[q] = <<>>

CachedValue(q) == IF state[q] = "DONE" THEN column[q] ELSE Bottom

BeginHit(q) ==
    /\ Calls(q)
    /\ ~cancel
    /\ state[q] \in {"DONE", "ERROR"}
    /\ VerifiedAtOnce(q)
    /\ vrev' = [vrev EXCEPT ![q] = Effective]
    /\ stack' = ReturnTo(RecordOnParent(Caller(q), q, fp[q], dur[q]),
                         CachedValue(q))
    /\ answer' = AnswerOf(stack, q, CachedValue(q))
    /\ UNCHANGED <<state, fp, dur, deps, column, revVars, cancel, running>>

BeginWalk(q) ==
    /\ Calls(q)
    /\ ~cancel
    /\ state[q] \in {"DONE", "ERROR"}
    /\ ~VerifiedAtOnce(q)
    /\ state' = [state EXCEPT ![q] = "RUNNING"]
    /\ stack' = Append(Caller(q), NewFrame(q, "walk", state[q]))
    /\ UNCHANGED <<fp, vrev, dur, deps, column, revVars, cancel, running,
                   answer>>

-----------------------------------------------------------------------------
(* The dependency walk of db_engine_verify. *)

Walking == stack # <<>> /\ Top(stack).mode = "walk"

\* Variant: the fingerprint is read from the dependency list after the pull,
\* when the callee has already refreshed it in place.
DepHoldsAfterRefresh ==
    LET d == Top(stack).deps[Top(stack).i]
    IN  state[d.q] = "DONE" /\ fp[d.q] = d.fp

\* The comparison after dispatch has returned.  An input is compared at once.
DepHolds ==
    LET t == Top(stack)
        d == t.deps[t.i]
    IN  IF d.q \in Inputs
        THEN state[d.q] = "DONE" /\ fp[d.q] = d.fp
        ELSE t.located /\ state[d.q] = "DONE" /\ fp[d.q] = t.want

AtDep ==
    /\ Walking
    /\ Top(stack).i <= Top(stack).n
    /\ Top(stack).pulled \/ Top(stack).deps[Top(stack).i].q \in Inputs

\* Variant: the loop does not advance.
WalkNextStuck ==
    /\ AtDep
    /\ DepHolds
    /\ stack' = OnTop(stack, [Top(stack) EXCEPT !.pulled = FALSE])
    /\ UNCHANGED <<slotVars, revVars, cancel, running, answer>>

WalkNext ==
    /\ AtDep
    /\ DepHolds
    /\ stack' = OnTop(stack,
                      [Top(stack) EXCEPT !.i = @ + 1, !.pulled = FALSE])
    /\ UNCHANGED <<slotVars, revVars, cancel, running, answer>>

\* Variant: a slot that falls from verify into compute is not tracked.
WalkFailUntracked ==
    /\ AtDep
    /\ ~DepHolds
    /\ fp' = [fp EXCEPT ![Top(stack).q] = None]
    /\ stack' = OnTop(stack,
                      [Top(stack) EXCEPT !.mode = "body", !.deps = <<>>,
                                         !.pulled = FALSE])
    /\ UNCHANGED <<state, vrev, dur, deps, column, revVars, cancel, running,
                   answer>>

\* Verify failed: db_query_begin clears the dependencies and returns COMPUTE.
\* The frame keeps the durability the walk has folded into it.
WalkFail ==
    /\ AtDep
    /\ ~DepHolds
    /\ LET q == Top(stack).q
       IN  /\ fp' = [fp EXCEPT ![q] = None]
           /\ running' = running \cup {q}
    /\ stack' = OnTop(stack,
                      [Top(stack) EXCEPT !.mode = "body", !.deps = <<>>,
                                         !.pulled = FALSE])
    /\ UNCHANGED <<state, vrev, dur, deps, column, revVars, cancel, answer>>

\* Every dependency held: db_query_begin restores the state and returns
\* CACHED (or ERROR).
WalkEnd ==
    /\ Walking
    /\ Top(stack).i > Top(stack).n
    /\ LET t == Top(stack)
           v == IF t.prev = "DONE" THEN column[t.q] ELSE Bottom
       IN  /\ state' = [state EXCEPT ![t.q] = t.prev]
           /\ vrev' = [vrev EXCEPT ![t.q] = Effective]
           /\ deps' = [deps EXCEPT ![t.q] = t.deps]
           /\ stack' = ReturnTo(RecordOnParent(Popped(stack), t.q, fp[t.q],
                                               dur[t.q]), v)
           /\ answer' = AnswerOf(Popped(stack), t.q, v)
    /\ UNCHANGED <<fp, dur, column, revVars, cancel, running>>

-----------------------------------------------------------------------------
(* The end of a body. *)

Finishing(op) ==
    /\ stack # <<>>
    /\ Top(stack).mode = "body"
    /\ Upcoming(Top(stack)).op = op

FrameDur(frame) == IF frame.durSet THEN frame.minDur ELSE DUR_LOW

\* Variant: db_query_succeed memoizes although a cancel was requested.
SucceedIgnoringCancel ==
    /\ Finishing("return")
    /\ LET t == Top(stack)
           v == Upcoming(t).val
       IN  /\ column' = [column EXCEPT ![t.q] = v]
           /\ deps' = [deps EXCEPT ![t.q] = t.deps]
           /\ state' = [state EXCEPT ![t.q] = "DONE"]
           /\ fp' = [fp EXCEPT ![t.q] = v]
           /\ vrev' = [vrev EXCEPT ![t.q] = cur]
           /\ dur' = [dur EXCEPT ![t.q] = FrameDur(t)]
           /\ stack' = ReturnTo(RecordOnParent(Popped(stack), t.q, v,
                                               FrameDur(t)), v)
           /\ answer' = AnswerOf(Popped(stack), t.q, v)
    /\ UNCHANGED <<revVars, cancel, running>>

\* The body writes its result column, then calls db_query_succeed.
Succeed ==
    /\ Finishing("return")
    /\ ~cancel
    /\ LET t == Top(stack)
           v == Upcoming(t).val
       IN  /\ column' = [column EXCEPT ![t.q] = v]
           /\ deps' = [deps EXCEPT ![t.q] = t.deps]
           /\ state' = [state EXCEPT ![t.q] = "DONE"]
           /\ fp' = [fp EXCEPT ![t.q] = v]
           /\ vrev' = [vrev EXCEPT ![t.q] = cur]
           /\ dur' = [dur EXCEPT ![t.q] = FrameDur(t)]
           /\ stack' = ReturnTo(RecordOnParent(Popped(stack), t.q, v,
                                               FrameDur(t)), v)
           /\ answer' = AnswerOf(Popped(stack), t.q, v)
    /\ UNCHANGED <<revVars, cancel, running>>

\* db_query_fail: unlike succeed it records nothing on the caller.
Fail ==
    /\ Finishing("fail")
    /\ ~cancel
    /\ LET t == Top(stack)
       IN  /\ deps' = [deps EXCEPT ![t.q] = t.deps]
           /\ state' = [state EXCEPT ![t.q] = "ERROR"]
           /\ fp' = [fp EXCEPT ![t.q] = None]
           /\ vrev' = [vrev EXCEPT ![t.q] = cur]
           /\ dur' = [dur EXCEPT ![t.q] = FrameDur(t)]
           /\ stack' = ReturnTo(Popped(stack), Bottom)
           /\ answer' = AnswerOf(Popped(stack), t.q, Bottom)
    /\ UNCHANGED <<column, revVars, cancel, running>>

\* H16: under a cancel neither memoizes; the slot stays RUNNING for the sweep.
BailOut ==
    /\ Finishing("return") \/ Finishing("fail")
    /\ cancel
    /\ LET t == Top(stack)
           b == Upcoming(t)
       IN  /\ column' = IF b.op = "return"
                        THEN [column EXCEPT ![t.q] = b.val] ELSE column
           /\ deps' = [deps EXCEPT ![t.q] = t.deps]
           /\ stack' = ReturnTo(Popped(stack), b.val)
           /\ answer' = AnswerOf(Popped(stack), t.q, b.val)
    /\ UNCHANGED <<state, fp, vrev, dur, revVars, cancel, running>>

-----------------------------------------------------------------------------
(* Requests, cancellation, inputs. *)

\* Variant: db_request_begin without its check against current_revision.
RequestBeginUnchecked(r) ==
    /\ req = 0
    /\ stack = <<>>
    /\ req' = r
    /\ cancel' = FALSE
    /\ running' = {}
    /\ answer' = NoAnswer
    /\ UNCHANGED <<slotVars, stack, cur, lastChanged>>

\* ide/*.c pin the current revision; compile_file first pins revision 1.
RequestBegin(r) ==
    /\ req = 0
    /\ stack = <<>>
    /\ r \in {1, cur}
    /\ req' = r
    /\ cancel' = FALSE
    /\ running' = {}
    /\ answer' = NoAnswer
    /\ UNCHANGED <<slotVars, stack, cur, lastChanged>>

RequestCancel ==
    /\ CanCancel
    /\ req # 0
    /\ cancel' = TRUE
    /\ UNCHANGED <<slotVars, stack, revVars, running, answer>>

\* Variant: reclamation does not skip the INPUT kinds.
OrphanOfAnyKind(q) ==
    /\ q \in Queries
    /\ state[q] \notin {"RUNNING", "EMPTY", "ABSENT"}
    /\ cur > OrphanThreshold
    /\ vrev[q] < cur - OrphanThreshold

\* db_engine_sweep_running, then db_engine_compact on what the sweep leaves:
\* orphans are the derived slots last verified before the threshold.
Swept == {q \in running : state[q] = "RUNNING"}

Orphan(q) ==
    /\ q \in Derived \ Swept
    /\ state[q] \notin {"EMPTY", "ABSENT"}
    /\ cur > OrphanThreshold
    /\ vrev[q] < cur - OrphanThreshold

RequestEnd ==
    /\ req # 0
    /\ stack = <<>>
    /\ state' = [q \in Queries |->
                   IF Orphan(q) /\ q \in Routed THEN "ABSENT"
                   ELSE IF q \in Swept \/ Orphan(q) THEN "EMPTY"
                   ELSE state[q]]
    /\ fp' = [q \in Queries |->
                IF q \in Swept \/ Orphan(q) THEN None ELSE fp[q]]
    /\ deps' = [q \in Queries |->
                  IF q \in Swept \/ Orphan(q) THEN <<>> ELSE deps[q]]
    /\ dur' = [q \in Queries |-> IF Orphan(q) THEN DUR_LOW ELSE dur[q]]
    /\ running' = {}
    /\ req' = 0
    /\ UNCHANGED <<vrev, column, stack, cur, lastChanged, cancel, answer>>

\* Variants: the change stamps its own tier only; it is accepted while a
\* request is open.
ChangedOwnTier(d) ==
    /\ req = 0
    /\ cur < MaxRev
    /\ cur' = cur + 1
    /\ lastChanged' = [lastChanged EXCEPT ![d] = cur + 1]

ChangedInRequest(d) ==
    /\ cur < MaxRev
    /\ cur' = cur + 1
    /\ lastChanged' = [t \in Tiers |-> IF t <= d THEN cur + 1
                                       ELSE lastChanged[t]]

\* db_input_changed: a change stamps its own tier and every lower one.
Changed(d) ==
    /\ req = 0
    /\ cur < MaxRev
    /\ cur' = cur + 1
    /\ lastChanged' = [t \in Tiers |-> IF t <= d THEN cur + 1
                                       ELSE lastChanged[t]]

\* db_set_source_text: nothing happens when the text is the one stored;
\* otherwise db_input_changed and then db_input_set.
InputEdit(i, v) ==
    /\ v # column[i]
    /\ Changed(InputDur[i])
    /\ column' = [column EXCEPT ![i] = v]
    /\ fp' = [fp EXCEPT ![i] = v]
    /\ vrev' = [vrev EXCEPT ![i] = cur + 1]
    /\ answer' = NoAnswer
    /\ UNCHANGED <<state, dur, deps, stack, req, cancel, running>>

\* The profile loop of compile_file bumps a revision without an edit.
InputTouch ==
    /\ Changed(DUR_LOW)
    /\ answer' = NoAnswer
    /\ UNCHANGED <<slotVars, stack, req, cancel, running>>

-----------------------------------------------------------------------------
\* db_init: revision 1 in every tier, inputs created with a first value, no
\* derived slot computed.
Init ==
    /\ \E text \in [Inputs -> Values] :
         column = [q \in Queries |-> IF q \in Inputs THEN text[q] ELSE Bottom]
    /\ state = [q \in Queries |-> IF q \in Inputs THEN "DONE"
                                  ELSE IF q \in Routed THEN "ABSENT"
                                  ELSE "EMPTY"]
    /\ fp = [q \in Queries |-> IF q \in Inputs THEN column[q] ELSE None]
    /\ vrev = [q \in Queries |-> IF q \in Inputs THEN 1 ELSE 0]
    /\ dur = [q \in Queries |-> IF q \in Inputs THEN InputDur[q] ELSE DUR_LOW]
    /\ deps = [q \in Queries |-> <<>>]
    /\ stack = <<>>
    /\ cur = 1
    /\ req = 0
    /\ cancel = FALSE
    /\ lastChanged = [t \in Tiers |-> 1]
    /\ running = {}
    /\ answer = NoAnswer

Begin(q) ==
    BeginCanceled(q) \/ BeginCycle(q) \/ BeginEmpty(q) \/ BeginHit(q)
        \/ BeginWalk(q)

\* The steps of the query thread inside a top-level query.
EngineStep ==
    \/ stack # <<>> /\ \E q \in Queries : Begin(q)
    \/ WalkNext \/ WalkFail \/ WalkEnd
    \/ Succeed \/ Fail \/ BailOut

Next ==
    \/ \E q \in Queries : Begin(q)
    \/ WalkNext \/ WalkFail \/ WalkEnd
    \/ Succeed \/ Fail \/ BailOut
    \/ \E r \in 1 .. MaxRev : RequestBegin(r)
    \/ RequestEnd
    \/ RequestCancel
    \/ \E i \in Inputs, v \in Values : InputEdit(i, v)
    \/ InputTouch

Spec == Init /\ [][Next]_vars

\* A query that has been called keeps running: the C code never blocks.
FairSpec == Spec /\ WF_vars(EngineStep)
-----------------------------------------------------------------------------
(* Properties of the slot life cycle.  Those about values are in             *)
(* QueryEngineCheck.                                                         *)

OnStack == {stack[k].q : k \in DOMAIN stack}

\* Type invariant: every variable has its type, and no revision number is
\* ahead of current_revision.
TypeOK ==
    /\ state \in [Queries -> SlotStates]
    /\ fp \in [Queries -> Results \cup {None}]
    /\ vrev \in [Queries -> 0 .. cur]
    /\ dur \in [Queries -> Tiers]
    /\ deps \in [Queries -> Seq(Dep)]
    /\ column \in [Queries -> Results]
    /\ stack \in Seq(Frame)
    /\ cur \in 1 .. MaxRev
    /\ req \in 0 .. cur
    /\ cancel \in BOOLEAN
    /\ lastChanged \in [Tiers -> 1 .. cur]
    /\ running \subseteq Queries
    /\ answer \in [q : Queries \cup {None}, val : Results \cup {None}]

\* A query is entered at most once: re-entry finds the slot RUNNING and
\* returns QUERY_BEGIN_CYCLE, so the stack cannot hold a query twice and its
\* depth is bounded by the number of queries.
StackIsSimple ==
    \A j, k \in DOMAIN stack : j # k => stack[j].q # stack[k].q

\* RUNNING slots are the frames of the stack, plus the bodies that bailed out
\* under a cancel, each of which the sweep knows (running_slots).
RunningIsAccounted ==
    /\ \A q \in OnStack : state[q] = "RUNNING"
    /\ \A q \in Queries :
         state[q] = "RUNNING" => q \in OnStack \/ (q \in running /\ cancel)
    /\ \A k \in DOMAIN stack :
         stack[k].mode = "body" => stack[k].q \in running

\* INPUT slots are authoritative: whatever runs, is cancelled or reclaimed,
\* they stay DONE with the fingerprint of the text and never gain a
\* dependency (engine_compact.c: reclaiming one "would drop its fp").
InputsAreAuthoritative ==
    \A i \in Inputs : state[i] = "DONE" /\ fp[i] = column[i] /\ deps[i] = <<>>

Awaits(frame, q) ==
    IF frame.mode = "body"
    THEN Upcoming(frame).op = "read" /\ Upcoming(frame).q = q
    ELSE /\ frame.pulled
         /\ frame.i <= frame.n
         /\ frame.deps[frame.i].q = q

\* The stack is a chain of pending calls: every frame but the top one is a
\* body about to receive, or a walk that has just pulled, the query of the
\* frame above it.
CallChain ==
    \A k \in 1 .. Len(stack) - 1 : Awaits(stack[k], stack[k + 1].q)

\* A request leaves no slot RUNNING behind, however it was cancelled: a
\* leftover would be reported as a cycle by every later request
\* (tools/cancellation_test.c: "recoverable, not poisoned").
NoRunningBetweenRequests ==
    req = 0 => stack = <<>> /\ \A q \in Queries : state[q] # "RUNNING"

\* Within a request pinned at the current revision a slot that has been
\* verified is final: it is never re-entered, recomputed or overwritten, so
\* the results read from its column stay valid until the request ends.
VerifiedIsFinal ==
    [][\A q \in Queries :
         /\ req = cur /\ req' = req
         /\ state[q] = "DONE" /\ vrev[q] = cur
         => /\ state'[q] = "DONE" /\ vrev'[q] = cur
            /\ fp'[q] = fp[q] /\ column'[q] = column[q]
            /\ deps'[q] = deps[q]]_vars

\* Every query that is called returns: neither the dependency walk nor a
\* cycle can keep the thread busy for ever.
CallsReturn == stack # <<>> ~> stack = <<>>
=============================================================================
