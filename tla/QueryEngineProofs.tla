-------------------------- MODULE QueryEngineProofs --------------------------
(***************************************************************************)
(* Theorems about QueryEngine, for every set of queries, every program     *)
(* Body and every bound.                                                   *)
(***************************************************************************)
EXTENDS QueryEngine, SequenceTheorems, TLAPS

(***************************************************************************)
(* The three operators a callee applies to the stack of its caller change  *)
(* only the top frame, and neither its query nor its mode.                 *)
(***************************************************************************)
SameButTop(s, t) ==
    /\ Len(t) = Len(s)
    /\ \A k \in 1 .. Len(s) - 1 : t[k] = s[k]
    /\ \A k \in 1 .. Len(s) : t[k].q = s[k].q /\ t[k].mode = s[k].mode

\* Replacing the top frame by another one of the same query.
LEMMA OnTopFrame ==
    ASSUME NEW s \in Seq(Frame), s # <<>>, NEW f \in Frame,
           f.q = Top(s).q, f.mode = Top(s).mode
    PROVE  /\ OnTop(s, f) \in Seq(Frame)
           /\ SameButTop(s, OnTop(s, f))
           /\ Top(OnTop(s, f)) = f
<1>1. Len(s) \in 1 .. Len(s)
  BY EmptySeq
<1>2. /\ OnTop(s, f) \in Seq(Frame)
      /\ Len(OnTop(s, f)) = Len(s)
      /\ \A j \in 1 .. Len(s) :
           OnTop(s, f)[j] = IF j = Len(s) THEN f ELSE s[j]
  BY <1>1, ExceptSeq DEF OnTop
<1> QED
  BY <1>1, <1>2 DEF SameButTop, Top

\* The top of a stack is a frame.
LEMMA TopIsFrame ==
    ASSUME NEW s \in Seq(Frame), s # <<>>
    PROVE  Top(s) \in Frame /\ Len(s) \in Nat \ {0}
<1>1. Len(s) \in Nat \ {0}
  BY EmptySeq
<1> QED
  BY <1>1, ElementOfSeq DEF Top

\* record_dep_on_parent yields a frame that differs in its dependencies and
\* its durability fold only.
LEMMA RecordDepFrame ==
    ASSUME NEW f \in Frame, NEW q \in Queries,
           NEW x \in Results \cup {None}, NEW d \in Tiers
    PROVE  LET g == RecordDep(f, q, x, d)
           IN  g \in Frame /\ g.q = f.q /\ g.mode = f.mode /\ g.vals = f.vals
<1> DEFINE dep == [q |-> q, fp |-> x]
           ix == Indexed(f, q)
           up == [k \in DOMAIN f.deps |-> IF k \in ix THEN dep ELSE f.deps[k]]
           nd == IF ix # {} THEN up ELSE Append(f.deps, dep)
           nm == IF ~f.durSet \/ d < f.minDur THEN d ELSE f.minDur
<1>1. /\ f \in FrameFields
      /\ f.mode = "walk" => f.n <= Len(f.deps)
      /\ f.deps \in Seq(Dep) /\ f.minDur \in Tiers /\ f.durSet \in BOOLEAN
      /\ f.n \in Nat
  BY DEF Frame, FrameFields
<1>2. dep \in Dep
  BY DEF Dep
<1>3. up \in Seq(Dep) /\ Len(up) = Len(f.deps)
  <2>1. DOMAIN f.deps = 1 .. Len(f.deps) /\ Len(f.deps) \in Nat
    BY <1>1, LenProperties
  <2>2. \A k \in 1 .. Len(f.deps) : f.deps[k] \in Dep
    BY <1>1, ElementOfSeq
  <2> DEFINE e(k) == IF k \in ix THEN dep ELSE f.deps[k]
  <2>3. \A k \in 1 .. Len(f.deps) : e(k) \in Dep
    BY <2>2, <1>2
  <2>4. [k \in 1 .. Len(f.deps) |-> e(k)] \in [1 .. Len(f.deps) -> Dep]
    BY <2>3
  <2>5. up = [k \in 1 .. Len(f.deps) |-> e(k)]
    BY <2>1
  <2> HIDE DEF up, e
  <2>6. up \in Seq(Dep) /\ DOMAIN up = 1 .. Len(f.deps)
    BY <2>1, <2>4, <2>5
  <2> QED
    BY <2>1, <2>6, LenProperties
<1>4. Append(f.deps, dep) \in Seq(Dep)
      /\ Len(Append(f.deps, dep)) = Len(f.deps) + 1 /\ Len(f.deps) \in Nat
  BY <1>1, <1>2
<1> HIDE DEF up
<1>5. nd \in Seq(Dep) /\ Len(f.deps) <= Len(nd) /\ Len(nd) \in Nat
  BY <1>3, <1>4
<1>6. nm \in Tiers
  BY <1>1
<1>7. RecordDep(f, q, x, d) =
        [f EXCEPT !.deps = nd, !.minDur = nm, !.durSet = TRUE]
  BY DEF RecordDep, up
<1> HIDE DEF nd, nm
<1> DEFINE g == [f EXCEPT !.deps = nd, !.minDur = nm, !.durSet = TRUE]
<1>8. /\ g \in FrameFields /\ g.deps = nd /\ g.n = f.n /\ g.mode = f.mode
      /\ g.q = f.q /\ g.vals = f.vals
  BY <1>1, <1>5, <1>6 DEF FrameFields
<1>9. f.mode = "walk" => f.n <= Len(nd)
  BY <1>1, <1>4, <1>5
<1> QED
  BY <1>7, <1>8, <1>9 DEF Frame, FrameFields

-----------------------------------------------------------------------------
(* The shape of a stack: which queries it holds, in which mode, and who      *)
(* waits for whom.                                                           *)

Simple(s)      == \A j, k \in DOMAIN s : j # k => s[j].q # s[k].q
Chain(s)       == \A k \in 1 .. Len(s) - 1 : Awaits(s[k], s[k + 1].q)
Holds(s)       == {s[k].q : k \in DOMAIN s}
BodiesIn(s, R) == \A k \in DOMAIN s : s[k].mode = "body" => s[k].q \in R

\* The shape survives a change of the top frame that keeps query and mode.
LEMMA ShapeSameButTop ==
    ASSUME NEW s \in Seq(Frame), NEW t \in Seq(Frame), SameButTop(s, t),
           NEW R
    PROVE  /\ Simple(s) => Simple(t)
           /\ Chain(s) => Chain(t)
           /\ Holds(t) = Holds(s)
           /\ BodiesIn(s, R) => BodiesIn(t, R)
           /\ (t = <<>>) <=> (s = <<>>)
<1>1. /\ DOMAIN s = 1 .. Len(s) /\ DOMAIN t = 1 .. Len(s)
      /\ Len(s) \in Nat /\ Len(t) = Len(s)
  BY LenProperties DEF SameButTop
<1>2. Simple(s) => Simple(t)
  BY <1>1 DEF SameButTop, Simple
<1>3. Chain(s) => Chain(t)
  <2> SUFFICES ASSUME Chain(s), NEW k \in 1 .. Len(t) - 1
               PROVE  Awaits(t[k], t[k + 1].q)
    BY DEF Chain
  <2>1. t[k] = s[k] /\ t[k + 1].q = s[k + 1].q
    BY <1>1 DEF SameButTop
  <2> QED
    BY <1>1, <2>1 DEF Chain
<1>4. Holds(t) = Holds(s)
  BY <1>1 DEF SameButTop, Holds
<1>5. BodiesIn(s, R) => BodiesIn(t, R)
  BY <1>1 DEF SameButTop, BodiesIn
<1>6. (t = <<>>) <=> (s = <<>>)
  BY <1>1, EmptySeq
<1> QED
  BY <1>2, <1>3, <1>4, <1>5, <1>6

\* The frames below the top.
LEMMA PoppedFrames ==
    ASSUME NEW s \in Seq(Frame), s # <<>>
    PROVE  /\ Popped(s) \in Seq(Frame)
           /\ Len(Popped(s)) = Len(s) - 1 /\ Len(s) \in Nat \ {0}
           /\ \A k \in 1 .. Len(s) - 1 : Popped(s)[k] = s[k]
<1>1. Len(s) \in Nat \ {0}
  BY EmptySeq, LenProperties
<1>2. \A k \in 1 .. Len(s) : s[k] \in Frame
  BY ElementOfSeq
<1>3. \A k \in 1 .. Len(s) - 1 : s[k] \in Frame
  BY <1>1, <1>2
<1>4. 1 \in Int /\ Len(s) - 1 \in Int
  BY <1>1
<1>5. /\ SubSeq(s, 1, Len(s) - 1) \in Seq(Frame)
      /\ Len(SubSeq(s, 1, Len(s) - 1)) =
           IF 1 <= Len(s) - 1 THEN Len(s) - 1 - 1 + 1 ELSE 0
      /\ \A k \in 1 .. Len(s) - 1 - 1 + 1 :
           SubSeq(s, 1, Len(s) - 1)[k] = s[1 + k - 1]
  BY <1>3, <1>4, SubSeqProperties
<1>6. /\ Len(Popped(s)) = Len(s) - 1 /\ Popped(s) \in Seq(Frame)
      /\ \A k \in 1 .. Len(s) - 1 : Popped(s)[k] = s[k]
  <2> DEFINE n == Len(s)
             u == SubSeq(s, 1, Len(s) - 1)
  <2>1. /\ n \in Nat \ {0} /\ u \in Seq(Frame)
        /\ Len(u) = IF 1 <= n - 1 THEN n - 1 - 1 + 1 ELSE 0
        /\ \A k \in 1 .. n - 1 - 1 + 1 : u[k] = s[1 + k - 1]
    BY <1>1, <1>5
  <2>2. Popped(s) = u
    BY DEF Popped
  <2> HIDE DEF n, u
  <2>3. Len(u) = n - 1 /\ \A k \in 1 .. n - 1 : u[k] = s[k]
    BY <2>1
  <2> QED
    BY <2>1, <2>2, <2>3 DEF n
<1> QED
  BY <1>1, <1>6

\* Popping the top frame leaves a caller that awaits exactly that frame.
LEMMA ShapePopped ==
    ASSUME NEW s \in Seq(Frame), s # <<>>, Simple(s), Chain(s),
           NEW R, BodiesIn(s, R)
    PROVE  /\ Popped(s) \in Seq(Frame)
           /\ Simple(Popped(s))
           /\ Chain(Popped(s))
           /\ Holds(Popped(s)) = Holds(s) \ {Top(s).q}
           /\ BodiesIn(Popped(s), R)
           /\ Popped(s) # <<>> => Awaits(Top(Popped(s)), Top(s).q)
<1> DEFINE p == Popped(s)
<1>1. Len(s) \in Nat \ {0} /\ DOMAIN s = 1 .. Len(s)
  BY EmptySeq, LenProperties
<1>2. \A k \in 1 .. Len(s) : s[k] \in Frame
  BY ElementOfSeq
<1>3. /\ p \in Seq(Frame)
      /\ Len(p) = Len(s) - 1
      /\ \A k \in 1 .. Len(s) - 1 : p[k] = s[k]
  BY PoppedFrames
<1>4. DOMAIN p = 1 .. Len(s) - 1
  BY <1>3, LenProperties
<1> HIDE DEF p
<1>5. Simple(p)
  BY <1>1, <1>3, <1>4 DEF Simple
<1>6. Chain(p)
  <2> SUFFICES ASSUME NEW k \in 1 .. Len(p) - 1
               PROVE  Awaits(p[k], p[k + 1].q)
    BY DEF Chain
  <2>1. k \in 1 .. Len(s) - 1 /\ p[k] = s[k] /\ p[k + 1] = s[k + 1]
    BY <1>1, <1>3
  <2> QED
    BY <2>1 DEF Chain
<1>7. Holds(p) = Holds(s) \ {Top(s).q}
  BY <1>1, <1>3, <1>4 DEF Holds, Simple, Top
<1>8. BodiesIn(p, R)
  BY <1>1, <1>3, <1>4 DEF BodiesIn
<1>9. p # <<>> => Awaits(Top(p), Top(s).q)
  <2> SUFFICES ASSUME p # <<>>
               PROVE  Awaits(Top(p), Top(s).q)
    OBVIOUS
  <2>1. Len(p) \in Nat \ {0}
    BY <1>3, EmptySeq
  <2>2. Len(s) - 1 \in 1 .. Len(s) - 1
    BY <1>1, <1>3, <2>1
  <2>3. Top(p) = s[Len(s) - 1] /\ Top(s) = s[Len(s) - 1 + 1]
    BY <1>1, <1>3, <2>2 DEF Top
  <2> QED
    BY <2>2, <2>3 DEF Chain
<1> QED
  BY <1>3, <1>5, <1>6, <1>7, <1>8, <1>9 DEF p

\* Pushing a frame for the query the top frame awaits.
LEMMA ShapePushed ==
    ASSUME NEW s \in Seq(Frame), Simple(s), Chain(s), NEW R, BodiesIn(s, R),
           NEW f \in Frame, f.q \notin Holds(s),
           s # <<>> => Awaits(Top(s), f.q),
           f.mode = "body" => f.q \in R
    PROVE  /\ Append(s, f) \in Seq(Frame)
           /\ Append(s, f) # <<>>
           /\ Simple(Append(s, f))
           /\ Chain(Append(s, f))
           /\ Holds(Append(s, f)) = Holds(s) \cup {f.q}
           /\ BodiesIn(Append(s, f), R)
<1> DEFINE p == Append(s, f)
<1>1. Len(s) \in Nat /\ DOMAIN s = 1 .. Len(s)
  BY LenProperties
<1>2. /\ p \in Seq(Frame)
      /\ Len(p) = Len(s) + 1
      /\ \A k \in 1 .. Len(s) : p[k] = s[k]
      /\ p[Len(s) + 1] = f
  BY <1>1
<1>3. DOMAIN p = 1 .. Len(s) + 1
  BY <1>2, LenProperties
<1> HIDE DEF p
<1>4. p # <<>>
  BY <1>1, <1>2, EmptySeq
<1>5. Simple(p)
  BY <1>1, <1>2, <1>3 DEF Simple, Holds
<1>6. Chain(p)
  <2>0. Len(p) - 1 = Len(s)
    BY <1>1, <1>2
  <2> SUFFICES ASSUME NEW k \in 1 .. Len(s)
               PROVE  Awaits(p[k], p[k + 1].q)
    BY <2>0 DEF Chain
  <2>1. CASE k = Len(s)
    <3>1. s # <<>> /\ p[k] = Top(s) /\ p[k + 1] = f
      BY <1>1, <1>2, <2>1, EmptySeq DEF Top
    <3>2. Awaits(Top(s), f.q)
      BY <3>1
    <3> QED
      BY <3>1, <3>2
  <2>2. CASE k # Len(s)
    <3>0. Len(s) \in Nat /\ k \in Int /\ 1 <= k /\ k <= Len(s)
      BY <1>1
    <3>1. k \in 1 .. Len(s) - 1
      BY <2>2, <3>0
    <3>2. k \in 1 .. Len(s) /\ k + 1 \in 1 .. Len(s)
      BY <1>1, <3>1
    <3>3. p[k] = s[k] /\ p[k + 1] = s[k + 1]
      BY <1>2, <3>2
    <3> QED
      BY <3>1, <3>3 DEF Chain
  <2> QED
    BY <2>1, <2>2
<1>7. Holds(p) = Holds(s) \cup {f.q}
  BY <1>1, <1>2, <1>3 DEF Holds
<1>8. BodiesIn(p, R)
  BY <1>1, <1>2, <1>3 DEF BodiesIn
<1> QED
  BY <1>2, <1>4, <1>5, <1>6, <1>7, <1>8 DEF p

\* Replacing the top frame by any frame of the same query, whatever its mode.
LEMMA ShapeReplaced ==
    ASSUME NEW s \in Seq(Frame), s # <<>>, Simple(s), Chain(s),
           NEW R, BodiesIn(s, R),
           NEW f \in Frame, f.q = Top(s).q, f.mode = "body" => f.q \in R
    PROVE  /\ OnTop(s, f) \in Seq(Frame)
           /\ OnTop(s, f) # <<>>
           /\ Simple(OnTop(s, f))
           /\ Chain(OnTop(s, f))
           /\ Holds(OnTop(s, f)) = Holds(s)
           /\ BodiesIn(OnTop(s, f), R)
<1> DEFINE t == OnTop(s, f)
<1>1. Len(s) \in Nat \ {0} /\ DOMAIN s = 1 .. Len(s)
  BY EmptySeq, LenProperties
<1>2. /\ t \in Seq(Frame)
      /\ Len(t) = Len(s)
      /\ \A j \in 1 .. Len(s) : t[j] = IF j = Len(s) THEN f ELSE s[j]
  <2>1. Len(s) \in 1 .. Len(s)
    BY <1>1
  <2> QED
    BY <2>1, ExceptSeq DEF OnTop
<1>3. DOMAIN t = 1 .. Len(s) /\ t # <<>>
  BY <1>1, <1>2, LenProperties, EmptySeq
<1> HIDE DEF t
<1>4. \A j \in 1 .. Len(s) : t[j].q = s[j].q
  <2>1. s[Len(s)].q = f.q
    BY DEF Top
  <2> QED
    BY <1>2, <2>1
<1>5. \A j \in 1 .. Len(s) - 1 : t[j] = s[j]
  <2>1. Len(s) \in Nat
    BY <1>1
  <2>2. \A j \in 1 .. Len(s) - 1 : j \in 1 .. Len(s) /\ j # Len(s)
    BY <2>1
  <2> QED
    BY <1>2, <2>2
<1>6. Simple(t)
  BY <1>1, <1>3, <1>4 DEF Simple
<1>7. Chain(t)
  <2> SUFFICES ASSUME NEW k \in 1 .. Len(s) - 1
               PROVE  Awaits(t[k], t[k + 1].q)
    BY <1>2 DEF Chain
  <2>1. t[k] = s[k] /\ t[k + 1].q = s[k + 1].q
    BY <1>1, <1>4, <1>5
  <2> QED
    BY <2>1 DEF Chain
<1>8. Holds(t) = Holds(s)
  BY <1>1, <1>3, <1>4 DEF Holds
<1>9. BodiesIn(t, R)
  BY <1>1, <1>2, <1>3 DEF BodiesIn
<1> QED
  BY <1>2, <1>3, <1>6, <1>7, <1>8, <1>9 DEF t

-----------------------------------------------------------------------------
(* What a callee does to the stack of its caller.                            *)

\* Changing nothing is such a change.
LEMMA SameButTopReflexive ==
    ASSUME NEW s
    PROVE  SameButTop(s, s)
BY DEF SameButTop

\* Two such changes in a row are one.
LEMMA SameButTopTransitive ==
    ASSUME NEW s \in Seq(Frame), NEW t, NEW u,
           SameButTop(s, t), SameButTop(t, u)
    PROVE  SameButTop(s, u)
BY DEF SameButTop

\* The stack can take the value of a call: its top is a dependency walk, or a
\* body whose next operation is a read.
Receptive(s) ==
    s # <<>> => \/ Top(s).mode = "walk"
                \/ Top(s).mode = "body" /\ Upcoming(Top(s)).op = "read"

\* What a body does next is an operation, and no read once it has performed
\* MaxReads of them.
LEMMA UpcomingIsOperation ==
    ASSUME NEW f \in Frame
    PROVE  /\ Upcoming(f) \in Operations
           /\ Upcoming(f).op = "read" => Len(f.vals) < MaxReads
<1>1. f.q \in Derived /\ f.vals \in Seq(Results) /\ Len(f.vals) <= MaxReads
  BY DEF Frame, FrameFields, ValueSeqs
<1>2. Len(f.vals) \in 0 .. MaxReads /\ MaxReads \in Nat
  BY <1>1, ConstantsAssumption
<1>3. f.vals \in [1 .. Len(f.vals) -> Results]
  BY <1>1
<1>4. /\ Body(f.q, f.vals) \in Operations
      /\ Len(f.vals) = MaxReads => Body(f.q, f.vals).op # "read"
  BY <1>1, <1>2, <1>3, BodyAssumption
<1> QED
  BY <1>2, <1>4 DEF Upcoming

\* Handing a value to the caller (DB_QUERY_GUARD's return) changes its top frame
\* only, and keeps it a frame: the body has room for one more value.
LEMMA ReturnToShape ==
    ASSUME NEW s \in Seq(Frame), NEW v \in Results, Receptive(s)
    PROVE  ReturnTo(s, v) \in Seq(Frame) /\ SameButTop(s, ReturnTo(s, v))
<1>1. CASE s = <<>> \/ Top(s).mode = "walk"
  BY <1>1, SameButTopReflexive DEF ReturnTo
<1>2. CASE s # <<>> /\ Top(s).mode # "walk"
  <2> DEFINE f == Top(s)
             g == [f EXCEPT !.vals = Append(@, v)]
  <2>1. f \in Frame
    BY <1>2, TopIsFrame
  <2>2. Len(f.vals) < MaxReads
    BY <1>2, <2>1, UpcomingIsOperation DEF Receptive
  <2>3. Append(f.vals, v) \in ValueSeqs
    <3>1. f.vals \in Seq(Results)
      BY <2>1 DEF Frame, FrameFields, ValueSeqs
    <3>2. Append(f.vals, v) \in Seq(Results)
          /\ Len(Append(f.vals, v)) = Len(f.vals) + 1
          /\ Len(f.vals) \in Nat
      BY <3>1
    <3> QED
      BY <2>2, <3>2, ConstantsAssumption DEF ValueSeqs
  <2>4. g \in Frame /\ g.q = f.q /\ g.mode = f.mode
    BY <2>1, <2>3 DEF Frame, FrameFields
  <2>5. ReturnTo(s, v) = OnTop(s, g)
    BY <1>2 DEF ReturnTo
  <2> QED
    BY <1>2, <2>4, <2>5, OnTopFrame
<1> QED
  BY <1>1, <1>2

\* record_dep_on_parent changes the top frame only, and the frame can still
\* take the value of the call.
LEMMA RecordOnParentShape ==
    ASSUME NEW s \in Seq(Frame), NEW q \in Queries,
           NEW x \in Results \cup {None}, NEW d \in Tiers, Receptive(s)
    PROVE  LET t == RecordOnParent(s, q, x, d)
           IN  t \in Seq(Frame) /\ SameButTop(s, t) /\ Receptive(t)
<1>1. CASE s = <<>>
  BY <1>1, SameButTopReflexive DEF RecordOnParent
<1>2. CASE s # <<>>
  <2> DEFINE f == Top(s)
             g == RecordDep(f, q, x, d)
  <2>1. f \in Frame
    BY <1>2, TopIsFrame
  <2>2. g \in Frame /\ g.q = f.q /\ g.mode = f.mode /\ g.vals = f.vals
    BY <2>1, RecordDepFrame
  <2>3. RecordOnParent(s, q, x, d) = OnTop(s, g)
    BY <1>2 DEF RecordOnParent
  <2> HIDE DEF g
  <2>4. /\ OnTop(s, g) \in Seq(Frame) /\ SameButTop(s, OnTop(s, g))
        /\ Top(OnTop(s, g)) = g
    BY <1>2, <2>2, OnTopFrame
  <2>5. Upcoming(g) = Upcoming(f)
    BY <2>2 DEF Upcoming
  <2>6. Receptive(OnTop(s, g))
    BY <1>2, <2>2, <2>4, <2>5 DEF Receptive
  <2> QED
    BY <2>3, <2>4, <2>6
<1> QED
  BY <1>1, <1>2

\* A frame that awaits some query can take its value.
LEMMA AwaitsReceptive ==
    ASSUME NEW s \in Seq(Frame), NEW q, s # <<>> => Awaits(Top(s), q)
    PROVE  Receptive(s)
<1> SUFFICES ASSUME s # <<>>
             PROVE  \/ Top(s).mode = "walk"
                    \/ Top(s).mode = "body" /\ Upcoming(Top(s)).op = "read"
  BY DEF Receptive
<1>1. Top(s) \in Frame
  BY TopIsFrame
<1>2. Top(s).mode \in {"walk", "body"}
  BY <1>1 DEF Frame, FrameFields
<1> QED
  BY <1>2 DEF Awaits

\* The caller of q, as q finds it, awaits q.
LEMMA CallerShape ==
    ASSUME TypeOK, NEW q \in Queries, Calls(q)
    PROVE  /\ Caller(q) \in Seq(Frame)
           /\ SameButTop(stack, Caller(q))
           /\ Caller(q) # <<>> => Awaits(Top(Caller(q)), q)
<1>1. stack \in Seq(Frame)
  BY DEF TypeOK
<1>2. CASE stack = <<>>
  BY <1>1, <1>2, SameButTopReflexive DEF Caller
<1>3. CASE stack # <<>> /\ Top(stack).mode = "walk"
  <2> DEFINE f == Top(stack)
             g == [f EXCEPT !.pulled = TRUE, !.want = f.deps[f.i].fp,
                            !.located = state[q] # "ABSENT"]
  <2>1. f \in Frame
    BY <1>1, <1>3, TopIsFrame
  <2>2. f.i <= f.n /\ f.deps[f.i].q = q
    BY <1>3 DEF Calls, ConsumerCalls, BodyCalls, WalkCalls
  <2>3. g \in Frame /\ g.q = f.q /\ g.mode = f.mode
    <3>1. /\ f.deps \in Seq(Dep) /\ f.i \in Nat \ {0} /\ f.n \in Nat
          /\ f.n <= Len(f.deps)
      BY <1>3, <2>1 DEF Frame, FrameFields
    <3>2. f.i \in 1 .. Len(f.deps)
      <4>1. Len(f.deps) \in Nat
        BY <3>1
      <4> QED
        BY <2>2, <3>1, <4>1
    <3>3. f.deps[f.i] \in Dep
      BY <3>1, <3>2, ElementOfSeq
    <3>4. f.deps[f.i].fp \in Results \cup {None}
      BY <3>3 DEF Dep
    <3> QED
      BY <2>1, <3>4 DEF Frame, FrameFields
  <2>4. g.pulled /\ g.i = f.i /\ g.n = f.n /\ g.deps = f.deps
    BY <2>1 DEF Frame, FrameFields
  <2>5. Caller(q) = OnTop(stack, g)
    BY <1>3 DEF Caller
  <2> HIDE DEF g
  <2>6. /\ OnTop(stack, g) \in Seq(Frame)
        /\ SameButTop(stack, OnTop(stack, g))
        /\ Top(OnTop(stack, g)) = g
    BY <1>1, <1>3, <2>3, OnTopFrame
  <2>7. Awaits(g, q)
    BY <1>3, <2>2, <2>3, <2>4 DEF Awaits
  <2> QED
    BY <2>5, <2>6, <2>7
<1>4. CASE stack # <<>> /\ Top(stack).mode # "walk"
  <2>1. Awaits(Top(stack), q)
    BY <1>4 DEF Calls, ConsumerCalls, BodyCalls, WalkCalls, Awaits
  <2> QED
    BY <1>1, <1>4, <2>1, SameButTopReflexive DEF Caller
<1> QED
  BY <1>2, <1>3, <1>4

-----------------------------------------------------------------------------
(***************************************************************************)
(* The inductive invariant.  No conjunct is inductive by itself: the stack *)
(* stays simple because a query on it is RUNNING, a RUNNING slot off the   *)
(* stack is in running_slots because a body is, a frame is a derived query *)
(* because an input is DONE without dependencies and so never pushed, and  *)
(* a callee's value fits its caller because the caller awaits it.          *)
(*                                                                         *)
(* Shell is the part that does not depend on who sets the inputs: it is    *)
(* what the proofs about Workspace, which has setters of its own, rest on. *)
(***************************************************************************)
Shell ==
    /\ TypeOK
    /\ StackIsSimple
    /\ CallChain
    /\ RunningIsAccounted
    /\ NoRunningBetweenRequests

IInv == Shell /\ InputsAreAuthoritative

StackInv(s, R) ==
    s \in Seq(Frame) /\ Simple(s) /\ Chain(s) /\ BodiesIn(s, R)

RunningInv(st, s, R, c) ==
    /\ \A q \in Holds(s) : st[q] = "RUNNING"
    /\ \A q \in Queries : st[q] = "RUNNING" => q \in Holds(s) \/ (q \in R /\ c)

\* The invariant in terms of the shape of the stack.
LEMMA ShellShape ==
    Shell <=> /\ TypeOK
             /\ StackInv(stack, running)
             /\ RunningInv(state, stack, running, cancel)
             /\ NoRunningBetweenRequests
BY DEF Shell, TypeOK, StackIsSimple, CallChain, RunningIsAccounted, OnStack,
       StackInv, RunningInv, Simple, Chain, BodiesIn, Holds

\* The same in the next state, in the direction the step lemmas need.
LEMMA ShellShapePrime ==
    ASSUME TypeOK', StackInv(stack', running'),
           RunningInv(state', stack', running', cancel'),
           NoRunningBetweenRequests'
    PROVE  Shell'
BY DEF Shell, TypeOK, StackIsSimple, CallChain, RunningIsAccounted, OnStack,
       StackInv, RunningInv, Simple, Chain, BodiesIn, Holds

\* A value handed to a receptive stack leaves its shape alone.
LEMMA ReturnShape ==
    ASSUME NEW s, NEW R, StackInv(s, R), Receptive(s), NEW v \in Results
    PROVE  LET t == ReturnTo(s, v)
           IN  StackInv(t, R) /\ Holds(t) = Holds(s) /\ (t = <<>> <=> s = <<>>)
<1>1. s \in Seq(Frame)
  BY DEF StackInv
<1>2. ReturnTo(s, v) \in Seq(Frame) /\ SameButTop(s, ReturnTo(s, v))
  BY <1>1, ReturnToShape
<1> QED
  BY <1>1, <1>2, ShapeSameButTop DEF StackInv

\* Recording a dependency and then handing over the value leaves the shape alone.
LEMMA RecordReturnShape ==
    ASSUME NEW s, NEW R, StackInv(s, R), Receptive(s), NEW v \in Results,
           NEW q \in Queries, NEW x \in Results \cup {None}, NEW d \in Tiers
    PROVE  LET t == ReturnTo(RecordOnParent(s, q, x, d), v)
           IN  StackInv(t, R) /\ Holds(t) = Holds(s) /\ (t = <<>> <=> s = <<>>)
<1> DEFINE u == RecordOnParent(s, q, x, d)
<1>1. s \in Seq(Frame)
  BY DEF StackInv
<1>2. u \in Seq(Frame) /\ SameButTop(s, u) /\ Receptive(u)
  BY <1>1, RecordOnParentShape
<1> HIDE DEF u
<1>3. StackInv(u, R) /\ Holds(u) = Holds(s) /\ (u = <<>> <=> s = <<>>)
  BY <1>1, <1>2, ShapeSameButTop DEF StackInv
<1>4. LET t == ReturnTo(u, v)
      IN  StackInv(t, R) /\ Holds(t) = Holds(u) /\ (t = <<>> <=> u = <<>>)
  BY <1>2, <1>3, ReturnShape
<1> QED
  BY <1>3, <1>4 DEF u

\* What db_query_begin may rely on: it runs inside a request and finds a
\* caller that awaits it.
LEMMA CalledInRequest ==
    ASSUME Shell, NEW q \in Queries, Calls(q)
    PROVE  /\ req # 0
           /\ StackInv(Caller(q), running)
           /\ Holds(Caller(q)) = Holds(stack)
           /\ Receptive(Caller(q))
           /\ Caller(q) # <<>> => Awaits(Top(Caller(q)), q)
<1>1. req # 0
  <2>1. CASE stack = <<>>
    BY <2>1 DEF Calls, ConsumerCalls, BodyCalls, WalkCalls
  <2>2. CASE stack # <<>>
    BY <2>2 DEF Shell, NoRunningBetweenRequests
  <2> QED
    BY <2>1, <2>2
<1>2. TypeOK /\ StackInv(stack, running)
  BY ShellShape
<1>3. /\ Caller(q) \in Seq(Frame) /\ SameButTop(stack, Caller(q))
      /\ Caller(q) # <<>> => Awaits(Top(Caller(q)), q)
  BY <1>2, CallerShape
<1>4. StackInv(Caller(q), running) /\ Holds(Caller(q)) = Holds(stack)
  BY <1>2, <1>3, ShapeSameButTop DEF StackInv
<1>5. Receptive(Caller(q))
  BY <1>3, AwaitsReceptive
<1> QED
  BY <1>1, <1>3, <1>4, <1>5

\* Only an input is never given a frame.
LEMMA FrameIsDerived ==
    ASSUME InputsAreAuthoritative, NEW q \in Queries,
           \/ state[q] \in {"EMPTY", "ABSENT"}
           \/ ~VerifiedAtOnce(q)
    PROVE  q \in Derived
BY DEF InputsAreAuthoritative, VerifiedAtOnce, Queries

\* What a top-level query hands to its consumer has the type of an answer.
LEMMA AnswerType ==
    ASSUME TypeOK, NEW s, NEW q \in Queries, NEW v \in Results
    PROVE  AnswerOf(s, q, v) \in
             [q : Queries \cup {None}, val : Results \cup {None}]
BY DEF TypeOK, AnswerOf

-----------------------------------------------------------------------------
(* db_query_begin preserves the invariant, one lemma for each way it goes.   *)

\* A cancelled call, and one that closes a cycle, hand back the sentinel.
LEMMA SentinelReturn ==
    ASSUME Shell, NEW q \in Queries, BeginCanceled(q) \/ BeginCycle(q)
    PROVE  Shell'
<1>1. /\ Calls(q)
      /\ stack' = ReturnTo(Caller(q), Bottom)
      /\ answer' = AnswerOf(stack, q, Bottom)
      /\ UNCHANGED <<slotVars, revVars, cancel, running>>
  BY DEF BeginCanceled, BeginCycle
<1> USE DEF slotVars, revVars
<1>2. Bottom \in Results
  BY DEF Results
<1>3. /\ req # 0 /\ StackInv(Caller(q), running)
      /\ Holds(Caller(q)) = Holds(stack) /\ Receptive(Caller(q))
  BY <1>1, CalledInRequest
<1>4. StackInv(stack', running') /\ Holds(stack') = Holds(stack)
  BY <1>1, <1>2, <1>3, ReturnShape
<1>5. TypeOK'
  <2>1. stack' \in Seq(Frame)
    BY <1>4 DEF StackInv
  <2>2. answer' \in [q : Queries \cup {None}, val : Results \cup {None}]
    BY <1>1, <1>2, AnswerType DEF Shell
  <2> QED
    BY <1>1, <2>1, <2>2 DEF Shell, TypeOK
<1>7. RunningInv(state', stack', running', cancel')
  BY <1>1, <1>4, ShellShape DEF RunningInv
<1>8. NoRunningBetweenRequests'
  BY <1>1, <1>3 DEF NoRunningBetweenRequests
<1> QED
  BY <1>4, <1>5, <1>7, <1>8, ShellShapePrime

\* db_query_begin finds the slot verified at once: it restamps verified_rev
\* with a revision that is not ahead of the current one.
LEMMA BeginHitStep ==
    ASSUME Shell, NEW q \in Queries, BeginHit(q)
    PROVE  Shell'
<1> USE DEF slotVars, revVars
<1>1. /\ Calls(q)
      /\ vrev' = [vrev EXCEPT ![q] = Effective]
      /\ stack' = ReturnTo(RecordOnParent(Caller(q), q, fp[q], dur[q]),
                           CachedValue(q))
      /\ answer' = AnswerOf(stack, q, CachedValue(q))
      /\ UNCHANGED <<state, fp, dur, deps, column, revVars, cancel, running>>
  BY DEF BeginHit
<1>2. /\ CachedValue(q) \in Results /\ fp[q] \in Results \cup {None}
      /\ dur[q] \in Tiers
  BY DEF Shell, TypeOK, CachedValue, Results
<1>3. /\ req # 0 /\ StackInv(Caller(q), running)
      /\ Holds(Caller(q)) = Holds(stack) /\ Receptive(Caller(q))
  BY <1>1, CalledInRequest
<1>4. StackInv(stack', running') /\ Holds(stack') = Holds(stack)
  BY <1>1, <1>2, <1>3, RecordReturnShape
<1>5. TypeOK'
  <2>1. stack' \in Seq(Frame)
    BY <1>4 DEF StackInv
  <2>2. answer' \in [q : Queries \cup {None}, val : Results \cup {None}]
    BY <1>1, <1>2, AnswerType DEF Shell
  <2>3. vrev' \in [Queries -> 0 .. cur']
    BY <1>1 DEF Shell, TypeOK, Effective
  <2> QED
    BY <1>1, <2>1, <2>2, <2>3 DEF Shell, TypeOK
<1>7. RunningInv(state', stack', running', cancel')
  BY <1>1, <1>4, ShellShape DEF RunningInv
<1>8. NoRunningBetweenRequests'
  BY <1>1, <1>3 DEF NoRunningBetweenRequests
<1> QED
  BY <1>4, <1>5, <1>7, <1>8, ShellShapePrime

\* A new frame is well formed, and the stack it goes on does not hold its
\* query because the slot was not RUNNING.
LEMMA PushShape ==
    ASSUME Shell, NEW q \in Queries, Calls(q), q \in Derived,
           state[q] # "RUNNING", NEW mode \in {"walk", "body"},
           NEW prev \in {"DONE", "ERROR", "EMPTY"},
           NEW R, running \subseteq R, mode = "body" => q \in R
    PROVE  LET t == Append(Caller(q), NewFrame(q, mode, prev))
           IN  StackInv(t, R) /\ Holds(t) = Holds(stack) \cup {q}
<1> DEFINE f == NewFrame(q, mode, prev)
<1>1. /\ StackInv(Caller(q), running) /\ Holds(Caller(q)) = Holds(stack)
      /\ Caller(q) # <<>> => Awaits(Top(Caller(q)), q)
  BY CalledInRequest
<1>2. f \in Frame /\ f.q = q /\ f.mode = mode
  <2>1. <<>> \in ValueSeqs
    BY ConstantsAssumption DEF ValueSeqs
  <2>2. deps[q] \in Seq(Dep)
    BY DEF Shell, TypeOK
  <2> QED
    BY <2>1, <2>2 DEF NewFrame, Frame, FrameFields, Tiers, DUR_LOW, DUR_HIGH
<1>3. q \notin Holds(Caller(q))
  BY <1>1, ShellShape DEF RunningInv
<1>4. BodiesIn(Caller(q), R)
  BY <1>1 DEF StackInv, BodiesIn
<1> HIDE DEF f
<1>5. /\ Append(Caller(q), f) \in Seq(Frame)
      /\ Simple(Append(Caller(q), f)) /\ Chain(Append(Caller(q), f))
      /\ Holds(Append(Caller(q), f)) = Holds(Caller(q)) \cup {f.q}
      /\ BodiesIn(Append(Caller(q), f), R)
  BY <1>1, <1>2, <1>3, <1>4, ShapePushed DEF StackInv
<1> QED
  BY <1>1, <1>2, <1>5 DEF f, StackInv

\* db_query_begin pushes a frame to walk the dependencies of a memo.
LEMMA BeginWalkStep ==
    ASSUME Shell, NEW q \in Derived, BeginWalk(q)
    PROVE  Shell'
<1> USE DEF slotVars, revVars
<1>1. /\ Calls(q) /\ state[q] \in {"DONE", "ERROR"} /\ ~VerifiedAtOnce(q)
      /\ state' = [state EXCEPT ![q] = "RUNNING"]
      /\ stack' = Append(Caller(q), NewFrame(q, "walk", state[q]))
      /\ UNCHANGED <<fp, vrev, dur, deps, column, revVars, cancel, running,
                     answer>>
  BY DEF BeginWalk
<1>2. q \in Queries
  BY DEF Queries
<1>3. req # 0
  BY <1>1, <1>2, CalledInRequest
<1>4. StackInv(stack', running') /\ Holds(stack') = Holds(stack) \cup {q}
  BY <1>1, <1>2, PushShape
<1>5. TypeOK'
  <2>1. stack' \in Seq(Frame)
    BY <1>4 DEF StackInv
  <2> QED
    BY <1>1, <1>2, <2>1 DEF Shell, TypeOK, SlotStates
<1>7. RunningInv(state', stack', running', cancel')
  BY <1>1, <1>2, <1>4, ShellShape DEF RunningInv, TypeOK
<1>8. NoRunningBetweenRequests'
  BY <1>1, <1>3 DEF NoRunningBetweenRequests
<1> QED
  BY <1>4, <1>5, <1>7, <1>8, ShellShapePrime

\* db_query_begin pushes a frame to compute a slot and tracks it as running.
LEMMA BeginEmptyStep ==
    ASSUME Shell, NEW q \in Derived, BeginEmpty(q)
    PROVE  Shell'
<1> USE DEF slotVars, revVars
<1>1. /\ Calls(q) /\ state[q] \in {"EMPTY", "ABSENT"}
      /\ state' = [state EXCEPT ![q] = "RUNNING"]
      /\ vrev' \in {vrev, [vrev EXCEPT ![q] = 0]}
      /\ column' \in {column, [column EXCEPT ![q] = Bottom]}
      /\ stack' = Append(Caller(q), NewFrame(q, "body", "EMPTY"))
      /\ running' = running \cup {q}
      /\ UNCHANGED <<fp, dur, deps, revVars, cancel, answer>>
  BY DEF BeginEmpty
<1>2. q \in Queries
  BY DEF Queries
<1>3. req # 0
  BY <1>1, <1>2, CalledInRequest
<1>4. StackInv(stack', running') /\ Holds(stack') = Holds(stack) \cup {q}
  <2>1. /\ state[q] # "RUNNING" /\ running \subseteq running'
        /\ q \in running'
    BY <1>1
  <2> QED
    BY <1>1, <1>2, <2>1, PushShape
<1>5. TypeOK'
  <2>1. stack' \in Seq(Frame)
    BY <1>4 DEF StackInv
  <2>2. vrev' \in [Queries -> 0 .. cur']
    <3>1. vrev \in [Queries -> 0 .. cur] /\ cur' = cur /\ cur \in Nat
      BY <1>1 DEF Shell, TypeOK
    <3>2. [vrev EXCEPT ![q] = 0] \in [Queries -> 0 .. cur]
      BY <1>2, <3>1
    <3> QED
      BY <1>1, <3>1, <3>2
  <2>3. column' \in [Queries -> Results]
    <3>1. column \in [Queries -> Results] /\ Bottom \in Results
      BY DEF Shell, TypeOK, Results
    <3> QED
      BY <1>1, <3>1
  <2> QED
    BY <1>1, <1>2, <2>1, <2>2, <2>3 DEF Shell, TypeOK, SlotStates
<1>7. RunningInv(state', stack', running', cancel')
  BY <1>1, <1>2, <1>4, ShellShape DEF RunningInv, TypeOK
<1>8. NoRunningBetweenRequests'
  BY <1>1, <1>3 DEF NoRunningBetweenRequests
<1> QED
  BY <1>4, <1>5, <1>7, <1>8, ShellShapePrime

-----------------------------------------------------------------------------
(* The dependency walk.                                                      *)

\* What is known of the top frame.
LEMMA TopFrame ==
    ASSUME Shell, stack # <<>>
    PROVE  /\ Top(stack) \in Frame
           /\ Top(stack).q \in Derived
           /\ Top(stack).q \in Queries \ Inputs
           /\ Top(stack).q \in Holds(stack)
           /\ state[Top(stack).q] = "RUNNING"
           /\ Top(stack).mode = "body" => Top(stack).q \in running
           /\ req # 0
<1>1. stack \in Seq(Frame) /\ StackInv(stack, running)
  BY ShellShape DEF StackInv
<1>2. Top(stack) \in Frame /\ Len(stack) \in Nat \ {0}
  BY <1>1, TopIsFrame
<1>3. Top(stack).q \in Derived /\ Top(stack).q \in Queries \ Inputs
  BY <1>2, ConstantsAssumption DEF Frame, FrameFields, Queries
<1>4. Len(stack) \in DOMAIN stack
  BY <1>1, <1>2, LenProperties
<1>5. Top(stack).q \in Holds(stack)
  BY <1>4 DEF Top, Holds
<1>6. state[Top(stack).q] = "RUNNING"
  BY <1>5, ShellShape DEF RunningInv
<1>7. Top(stack).mode = "body" => Top(stack).q \in running
  BY <1>1, <1>4 DEF Top, StackInv, BodiesIn
<1>8. req # 0
  BY DEF Shell, NoRunningBetweenRequests
<1> QED
  BY <1>2, <1>3, <1>5, <1>6, <1>7, <1>8

\* A step that replaces the top frame and writes neither state, columns nor
\* dependencies.
LEMMA ReplaceTop ==
    ASSUME Shell, stack # <<>>, NEW f \in Frame, f.q = Top(stack).q,
           stack' = OnTop(stack, f),
           f.mode = "body" => f.q \in running',
           running \subseteq running', running' \subseteq Queries,
           fp' \in [Queries -> Results \cup {None}],
           UNCHANGED <<state, vrev, dur, deps, column, revVars, cancel, answer>>
    PROVE  Shell'
<1> USE DEF revVars
<1>1. StackInv(stack, running) /\ RunningInv(state, stack, running, cancel)
  BY ShellShape
<1>2. BodiesIn(stack, running')
  BY <1>1 DEF StackInv, BodiesIn
<1>3. StackInv(stack', running') /\ Holds(stack') = Holds(stack)
  BY <1>1, <1>2, ShapeReplaced DEF StackInv
<1>4. TypeOK'
  <2>1. stack' \in Seq(Frame)
    BY <1>3 DEF StackInv
  <2> QED
    BY <2>1 DEF Shell, TypeOK
<1>6. RunningInv(state', stack', running', cancel')
  BY <1>1, <1>3 DEF RunningInv
<1>7. NoRunningBetweenRequests'
  BY TopFrame DEF NoRunningBetweenRequests
<1> QED
  BY <1>3, <1>4, <1>6, <1>7, ShellShapePrime

\* The walk of db_engine_verify goes on to the next dependency.
LEMMA WalkNextStep ==
    ASSUME Shell, WalkNext
    PROVE  Shell'
<1> DEFINE f == [Top(stack) EXCEPT !.i = @ + 1, !.pulled = FALSE]
<1>1. /\ stack # <<>> /\ Top(stack).mode = "walk" /\ stack' = OnTop(stack, f)
      /\ UNCHANGED <<slotVars, revVars, cancel, running, answer>>
  BY DEF WalkNext, AtDep, Walking
<1>2. f \in Frame /\ f.q = Top(stack).q /\ f.mode = "walk"
  <2>1. Top(stack) \in Frame
    BY <1>1, TopFrame
  <2>2. Top(stack).i \in Nat \ {0}
    BY <2>1 DEF Frame, FrameFields
  <2>3. Top(stack).i + 1 \in Nat \ {0}
    BY <2>2
  <2> QED
    BY <1>1, <2>1, <2>3 DEF Frame, FrameFields
<1>3. /\ running' \subseteq Queries /\ fp' \in [Queries -> Results \cup {None}]
      /\ running' = running /\ fp' = fp
      /\ UNCHANGED <<state, vrev, dur, deps, column, revVars, cancel, answer>>
  BY <1>1 DEF Shell, TypeOK, slotVars
<1> HIDE DEF f
<1> QED
  BY <1>1, <1>2, <1>3, ReplaceTop

\* The walk fails: the frame becomes a body, and its slot is tracked.
LEMMA WalkFailStep ==
    ASSUME Shell, WalkFail
    PROVE  Shell'
<1> DEFINE f == [Top(stack) EXCEPT !.mode = "body", !.deps = <<>>,
                                   !.pulled = FALSE]
<1>1. /\ stack # <<>> /\ stack' = OnTop(stack, f)
      /\ fp' = [fp EXCEPT ![Top(stack).q] = None]
      /\ running' = running \cup {Top(stack).q}
      /\ UNCHANGED <<state, vrev, dur, deps, column, revVars, cancel, answer>>
  BY DEF WalkFail, AtDep, Walking
<1>2. f \in Frame /\ f.q = Top(stack).q
  <2>1. Top(stack) \in Frame /\ <<>> \in Seq(Dep)
    BY <1>1, TopFrame
  <2> QED
    BY <2>1 DEF Frame, FrameFields
<1>3. /\ running \subseteq running' /\ running' \subseteq Queries
      /\ f.q \in running'
      /\ fp' \in [Queries -> Results \cup {None}]
  BY <1>1, <1>2, TopFrame DEF Shell, TypeOK, Queries
<1> HIDE DEF f
<1> QED
  BY <1>1, <1>2, <1>3, ReplaceTop

\* The caller that the top frame returns to.
LEMMA PopShape ==
    ASSUME Shell, stack # <<>>
    PROVE  /\ StackInv(Popped(stack), running)
           /\ Holds(Popped(stack)) = Holds(stack) \ {Top(stack).q}
           /\ Receptive(Popped(stack))
<1>1. stack \in Seq(Frame) /\ StackInv(stack, running)
  BY ShellShape DEF StackInv
<1>2. /\ Popped(stack) \in Seq(Frame) /\ StackInv(Popped(stack), running)
      /\ Holds(Popped(stack)) = Holds(stack) \ {Top(stack).q}
      /\ Popped(stack) # <<>> => Awaits(Top(Popped(stack)), Top(stack).q)
  BY <1>1, ShapePopped DEF StackInv
<1> QED
  BY <1>2, AwaitsReceptive

\* A step that pops the top frame, leaving its slot in a state of its choice:
\* RUNNING only under a cancel.
LEMMA PopTop ==
    ASSUME Shell, stack # <<>>, NEW q, q = Top(stack).q,
           NEW s \in SlotStates,
           s = "RUNNING" => cancel /\ q \in running,
           state' = [state EXCEPT ![q] = s],
           StackInv(stack', running), Holds(stack') = Holds(stack) \ {q},
           fp' \in [Queries -> Results \cup {None}],
           vrev' \in [Queries -> 0 .. cur],
           dur' \in [Queries -> Tiers],
           deps' \in [Queries -> Seq(Dep)],
           column' \in [Queries -> Results],
           answer' \in [q : Queries \cup {None}, val : Results \cup {None}],
           UNCHANGED <<revVars, cancel, running>>
    PROVE  Shell'
<1> USE DEF revVars
<1>1. q \in Queries \ Inputs /\ q \in Holds(stack) /\ req # 0
  BY TopFrame
<1>2. /\ state \in [Queries -> SlotStates]
      /\ state'[q] = s /\ \A p \in Queries : p # q => state'[p] = state[p]
  BY <1>1 DEF Shell, TypeOK
<1>3. TypeOK'
  <2>1. stack' \in Seq(Frame)
    BY DEF StackInv
  <2>2. state' \in [Queries -> SlotStates]
    BY <1>2
  <2> QED
    BY <2>1, <2>2 DEF Shell, TypeOK
<1>5. RunningInv(state', stack', running', cancel')
  <2>1. RunningInv(state, stack, running, cancel) /\ StackInv(stack, running)
    BY ShellShape
  <2>2. Holds(stack) \subseteq Queries
    <3>1. \A k \in DOMAIN stack : stack[k] \in Frame
      BY <2>1 DEF StackInv
    <3> QED
      BY <3>1 DEF Holds, Frame, FrameFields, Queries
  <2> QED
    BY <1>1, <1>2, <2>1, <2>2 DEF RunningInv
<1>6. NoRunningBetweenRequests'
  BY <1>1 DEF NoRunningBetweenRequests
<1> QED
  BY <1>3, <1>5, <1>6, ShellShapePrime

\* The walk ends: the slot is restored and the caller goes on.
LEMMA WalkEndStep ==
    ASSUME Shell, WalkEnd
    PROVE  Shell'
<1> USE DEF revVars
<1> DEFINE t == Top(stack)
           v == IF t.prev = "DONE" THEN column[t.q] ELSE Bottom
           x == fp[t.q]
           d == dur[t.q]
<1>1. /\ stack # <<>>
      /\ state' = [state EXCEPT ![t.q] = t.prev]
      /\ vrev' = [vrev EXCEPT ![t.q] = Effective]
      /\ deps' = [deps EXCEPT ![t.q] = t.deps]
      /\ stack' = ReturnTo(RecordOnParent(Popped(stack), t.q, x, d), v)
      /\ answer' = AnswerOf(Popped(stack), t.q, v)
      /\ UNCHANGED <<fp, dur, column, revVars, cancel, running>>
  BY DEF WalkEnd, Walking
<1>2. t \in Frame /\ t.q \in Queries \ Inputs
  BY <1>1, TopFrame
<1>3. t.prev \in {"DONE", "ERROR", "EMPTY"} /\ t.deps \in Seq(Dep)
  BY <1>2 DEF Frame, FrameFields
<1>4. v \in Results /\ x \in Results \cup {None} /\ d \in Tiers
  BY <1>2 DEF Shell, TypeOK, Results
<1> HIDE DEF v, t, x, d
<1>5. StackInv(stack', running) /\ Holds(stack') = Holds(stack) \ {t.q}
  <2>1. /\ StackInv(Popped(stack), running) /\ Receptive(Popped(stack))
        /\ Holds(Popped(stack)) = Holds(stack) \ {t.q}
    BY <1>1, PopShape DEF t
  <2>2. t.q \in Queries
    BY <1>2
  <2> QED
    BY <1>1, <1>4, <2>1, <2>2, RecordReturnShape
<1>6. /\ fp' \in [Queries -> Results \cup {None}]
      /\ dur' \in [Queries -> Tiers]
      /\ column' \in [Queries -> Results]
  BY <1>1 DEF Shell, TypeOK
<1>7. vrev' \in [Queries -> 0 .. cur]
  BY <1>1, <1>2 DEF Shell, TypeOK, Effective
<1>8. deps' \in [Queries -> Seq(Dep)]
  BY <1>1, <1>2, <1>3 DEF Shell, TypeOK, Queries
<1>9. answer' \in [q : Queries \cup {None}, val : Results \cup {None}]
  BY <1>1, <1>2, <1>4, AnswerType DEF Shell
<1>10. t.prev \in SlotStates /\ t.prev # "RUNNING"
  BY <1>3 DEF SlotStates
<1> QED
  BY <1>1, <1>5, <1>6, <1>7, <1>8, <1>9, <1>10, PopTop DEF t

-----------------------------------------------------------------------------
(* The end of a body.                                                        *)

\* The durability a frame folds is one of the tiers.
LEMMA FrameDurType ==
    ASSUME NEW f \in Frame
    PROVE  FrameDur(f) \in Tiers
BY DEF Frame, FrameFields, FrameDur, Tiers, DUR_LOW, DUR_HIGH

\* db_query_succeed memoizes and returns to the caller.
LEMMA SucceedStep ==
    ASSUME Shell, Succeed
    PROVE  Shell'
<1> USE DEF revVars
<1> DEFINE t == Top(stack)
           v == Upcoming(t).val
           d == FrameDur(t)
<1>1. /\ stack # <<>> /\ t.mode = "body" /\ Upcoming(t).op = "return"
      /\ column' = [column EXCEPT ![t.q] = v]
      /\ deps' = [deps EXCEPT ![t.q] = t.deps]
      /\ state' = [state EXCEPT ![t.q] = "DONE"]
      /\ fp' = [fp EXCEPT ![t.q] = v]
      /\ vrev' = [vrev EXCEPT ![t.q] = cur]
      /\ dur' = [dur EXCEPT ![t.q] = d]
      /\ stack' = ReturnTo(RecordOnParent(Popped(stack), t.q, v, d), v)
      /\ answer' = AnswerOf(Popped(stack), t.q, v)
      /\ UNCHANGED <<revVars, cancel, running>>
  BY DEF Succeed, Finishing
<1>2. t \in Frame /\ t.q \in Queries \ Inputs
  BY <1>1, TopFrame
<1>3. t.deps \in Seq(Dep) /\ d \in Tiers
  BY <1>2, FrameDurType DEF Frame, FrameFields
<1>4. v \in Results
  BY <1>2, UpcomingIsOperation DEF Operations, Results
<1> HIDE DEF v, t, d
<1>5. StackInv(stack', running) /\ Holds(stack') = Holds(stack) \ {t.q}
  <2>1. /\ StackInv(Popped(stack), running) /\ Receptive(Popped(stack))
        /\ Holds(Popped(stack)) = Holds(stack) \ {t.q}
    BY <1>1, PopShape DEF t
  <2>2. t.q \in Queries /\ v \in Results \cup {None}
    BY <1>2, <1>4
  <2> QED
    BY <1>1, <1>3, <1>4, <2>1, <2>2, RecordReturnShape
<1>6. /\ fp' \in [Queries -> Results \cup {None}]
      /\ column' \in [Queries -> Results]
  BY <1>1, <1>2, <1>4 DEF Shell, TypeOK, Queries
<1>7. vrev' \in [Queries -> 0 .. cur] /\ dur' \in [Queries -> Tiers]
  BY <1>1, <1>2, <1>3 DEF Shell, TypeOK
<1>8. deps' \in [Queries -> Seq(Dep)]
  BY <1>1, <1>2, <1>3 DEF Shell, TypeOK, Queries
<1>9. answer' \in [q : Queries \cup {None}, val : Results \cup {None}]
  BY <1>1, <1>2, <1>4, AnswerType DEF Shell
<1>10. "DONE" \in SlotStates
  BY DEF SlotStates
<1> QED
  BY <1>1, <1>5, <1>6, <1>7, <1>8, <1>9, <1>10, PopTop DEF t

\* db_query_fail stores the error and returns to the caller.
LEMMA FailStep ==
    ASSUME Shell, Fail
    PROVE  Shell'
<1> USE DEF revVars
<1> DEFINE t == Top(stack)
           d == FrameDur(t)
<1>1. /\ stack # <<>>
      /\ deps' = [deps EXCEPT ![t.q] = t.deps]
      /\ state' = [state EXCEPT ![t.q] = "ERROR"]
      /\ fp' = [fp EXCEPT ![t.q] = None]
      /\ vrev' = [vrev EXCEPT ![t.q] = cur]
      /\ dur' = [dur EXCEPT ![t.q] = d]
      /\ stack' = ReturnTo(Popped(stack), Bottom)
      /\ answer' = AnswerOf(Popped(stack), t.q, Bottom)
      /\ UNCHANGED <<column, revVars, cancel, running>>
  BY DEF Fail, Finishing
<1>2. t \in Frame /\ t.q \in Queries \ Inputs
  BY <1>1, TopFrame
<1>3. t.deps \in Seq(Dep) /\ d \in Tiers
  BY <1>2, FrameDurType DEF Frame, FrameFields
<1>4. Bottom \in Results
  BY DEF Results
<1> HIDE DEF t, d
<1>5. StackInv(stack', running) /\ Holds(stack') = Holds(stack) \ {t.q}
  <2>1. /\ StackInv(Popped(stack), running) /\ Receptive(Popped(stack))
        /\ Holds(Popped(stack)) = Holds(stack) \ {t.q}
    BY <1>1, PopShape DEF t
  <2> QED
    BY <1>1, <1>4, <2>1, ReturnShape
<1>6. /\ fp' \in [Queries -> Results \cup {None}]
      /\ column' \in [Queries -> Results]
  BY <1>1, <1>2 DEF Shell, TypeOK, Queries
<1>7. vrev' \in [Queries -> 0 .. cur] /\ dur' \in [Queries -> Tiers]
  BY <1>1, <1>2, <1>3 DEF Shell, TypeOK
<1>8. deps' \in [Queries -> Seq(Dep)]
  BY <1>1, <1>2, <1>3 DEF Shell, TypeOK, Queries
<1>9. answer' \in [q : Queries \cup {None}, val : Results \cup {None}]
  BY <1>1, <1>2, <1>4, AnswerType DEF Shell
<1>10. "ERROR" \in SlotStates
  BY DEF SlotStates
<1> QED
  BY <1>1, <1>5, <1>6, <1>7, <1>8, <1>9, <1>10, PopTop DEF t

\* Under a cancel the slot stays RUNNING, and is in running_slots because its
\* frame was a body.
LEMMA BailOutStep ==
    ASSUME Shell, BailOut
    PROVE  Shell'
<1> USE DEF revVars
<1> DEFINE t == Top(stack)
           v == Upcoming(t).val
<1>1. /\ stack # <<>> /\ t.mode = "body" /\ cancel
      /\ \/ column' = column
         \/ column' = [column EXCEPT ![t.q] = v]
      /\ deps' = [deps EXCEPT ![t.q] = t.deps]
      /\ stack' = ReturnTo(Popped(stack), v)
      /\ answer' = AnswerOf(Popped(stack), t.q, v)
      /\ UNCHANGED <<state, fp, vrev, dur, revVars, cancel, running>>
  BY DEF BailOut, Finishing
<1>2. /\ t \in Frame /\ t.q \in Queries \ Inputs /\ t.q \in running
      /\ state[t.q] = "RUNNING"
  BY <1>1, TopFrame
<1>3. t.deps \in Seq(Dep)
  BY <1>2 DEF Frame, FrameFields
<1>4. v \in Results
  BY <1>2, UpcomingIsOperation DEF Operations, Results
<1> HIDE DEF v, t
<1>5. StackInv(stack', running) /\ Holds(stack') = Holds(stack) \ {t.q}
  <2>1. /\ StackInv(Popped(stack), running) /\ Receptive(Popped(stack))
        /\ Holds(Popped(stack)) = Holds(stack) \ {t.q}
    BY <1>1, PopShape DEF t
  <2> QED
    BY <1>1, <1>4, <2>1, ReturnShape
<1>6. /\ column' \in [Queries -> Results]
  <2>1. column \in [Queries -> Results] /\ Inputs \subseteq Queries
    BY DEF Shell, TypeOK, Queries
  <2>2. CASE column' = column
    BY <2>1, <2>2
  <2>3. CASE column' = [column EXCEPT ![t.q] = v]
    BY <1>2, <1>4, <2>1, <2>3
  <2> QED
    BY <1>1, <2>2, <2>3
<1>7. /\ fp' \in [Queries -> Results \cup {None}]
      /\ vrev' \in [Queries -> 0 .. cur] /\ dur' \in [Queries -> Tiers]
      /\ state' = [state EXCEPT ![t.q] = "RUNNING"]
  BY <1>1, <1>2 DEF Shell, TypeOK
<1>8. deps' \in [Queries -> Seq(Dep)]
  BY <1>1, <1>2, <1>3 DEF Shell, TypeOK, Queries
<1>9. answer' \in [q : Queries \cup {None}, val : Results \cup {None}]
  BY <1>1, <1>2, <1>4, AnswerType DEF Shell
<1>10. "RUNNING" \in SlotStates
  BY DEF SlotStates
<1>11. /\ stack # <<>> /\ cancel /\ t.q \in running /\ t.q = Top(stack).q
       /\ UNCHANGED <<revVars, cancel, running>>
  BY <1>1, <1>2 DEF t
<1> QED
  BY <1>5, <1>6, <1>7, <1>8, <1>9, <1>10, <1>11, PopTop

-----------------------------------------------------------------------------
(* Requests and inputs: the stack is empty, or does not matter.              *)

\* The empty stack satisfies every invariant of the stack.
LEMMA EmptyStackShape ==
    ASSUME NEW R
    PROVE  StackInv(<<>>, R) /\ Holds(<<>>) = {}
BY DEF StackInv, Simple, Chain, BodiesIn, Holds

\* db_init establishes the invariant.
LEMMA InitStep == Init => Shell
<1> SUFFICES ASSUME Init
             PROVE  Shell
  OBVIOUS
<1> USE DEF Init
<1>1. PICK text \in [Inputs -> Values] :
        column = [q \in Queries |-> IF q \in Inputs THEN text[q] ELSE Bottom]
  OBVIOUS
<1>2. column \in [Queries -> Results]
  BY <1>1 DEF Results
<1>3. /\ state \in [Queries -> SlotStates]
      /\ \A q \in Queries : state[q] # "RUNNING"
  BY DEF SlotStates
<1>4. TypeOK
  <2>1. fp \in [Queries -> Results \cup {None}]
    BY <1>2
  <2>2. vrev \in [Queries -> 0 .. cur]
    OBVIOUS
  <2>3. dur \in [Queries -> Tiers]
    BY ConstantsAssumption DEF Tiers, DUR_LOW, DUR_HIGH
  <2>4. deps \in [Queries -> Seq(Dep)] /\ stack \in Seq(Frame)
    OBVIOUS
  <2>5. cur \in 1 .. MaxRev /\ req \in 0 .. cur /\ lastChanged \in [Tiers -> 1 .. cur]
    BY ConstantsAssumption
  <2>6. answer \in [q : Queries \cup {None}, val : Results \cup {None}]
    BY DEF NoAnswer
  <2> QED
    BY <1>2, <1>3, <2>1, <2>2, <2>3, <2>4, <2>5, <2>6 DEF TypeOK
<1>6. StackInv(stack, running) /\ Holds(stack) = {}
  BY EmptyStackShape
<1>7. RunningInv(state, stack, running, cancel)
  BY <1>3, <1>6 DEF RunningInv
<1>8. NoRunningBetweenRequests
  BY <1>3 DEF NoRunningBetweenRequests
<1> QED
  BY <1>4, <1>6, <1>7, <1>8, ShellShape

\* db_request_begin opens a request on an idle engine.
LEMMA RequestBeginStep ==
    ASSUME Shell, NEW r, RequestBegin(r)
    PROVE  Shell'
<1> USE DEF slotVars
<1>1. /\ req = 0 /\ stack = <<>> /\ r \in {1, cur} /\ req' = r
      /\ cancel' = FALSE /\ running' = {} /\ answer' = NoAnswer
      /\ UNCHANGED <<slotVars, stack, cur, lastChanged>>
  BY DEF RequestBegin
<1>2. TypeOK'
  <2>1. answer' \in [q : Queries \cup {None}, val : Results \cup {None}]
    BY <1>1 DEF NoAnswer
  <2>2. req' \in 0 .. cur'
    BY <1>1 DEF Shell, TypeOK
  <2> QED
    BY <1>1, <2>1, <2>2 DEF Shell, TypeOK
<1>4. StackInv(stack', running') /\ Holds(stack') = {}
  BY <1>1, EmptyStackShape
<1>5. \A q \in Queries : state'[q] # "RUNNING"
  BY <1>1 DEF Shell, NoRunningBetweenRequests
<1>6. RunningInv(state', stack', running', cancel')
  BY <1>4, <1>5 DEF RunningInv
<1>7. NoRunningBetweenRequests'
  BY <1>1, <1>5 DEF NoRunningBetweenRequests
<1> QED
  BY <1>2, <1>4, <1>6, <1>7, ShellShapePrime

\* db_request_cancel raises the flag; a slot is RUNNING for the same reason.
LEMMA RequestCancelStep ==
    ASSUME Shell, RequestCancel
    PROVE  Shell'
<1> USE DEF slotVars, revVars
<1>1. /\ req # 0 /\ cancel' = TRUE
      /\ UNCHANGED <<slotVars, stack, revVars, running, answer>>
  BY DEF RequestCancel
<1>2. StackInv(stack, running) /\ RunningInv(state, stack, running, cancel)
  BY ShellShape
<1>3. TypeOK'
  BY <1>1 DEF Shell, TypeOK
<1>5. StackInv(stack', running')
  BY <1>1, <1>2
<1>6. RunningInv(state', stack', running', cancel')
  BY <1>1, <1>2 DEF RunningInv
<1>7. NoRunningBetweenRequests'
  BY <1>1 DEF NoRunningBetweenRequests
<1> QED
  BY <1>3, <1>5, <1>6, <1>7, ShellShapePrime

\* The sweep empties what a cancel left RUNNING; reclamation spares inputs.
LEMMA RequestEndStep ==
    ASSUME Shell, RequestEnd
    PROVE  Shell'
<1>1. /\ req # 0 /\ stack = <<>>
      /\ state' = [q \in Queries |->
                     IF Orphan(q) /\ q \in Routed THEN "ABSENT"
                     ELSE IF q \in Swept \/ Orphan(q) THEN "EMPTY"
                     ELSE state[q]]
      /\ fp' = [q \in Queries |->
                  IF q \in Swept \/ Orphan(q) THEN None ELSE fp[q]]
      /\ deps' = [q \in Queries |->
                    IF q \in Swept \/ Orphan(q) THEN <<>> ELSE deps[q]]
      /\ dur' = [q \in Queries |-> IF Orphan(q) THEN DUR_LOW ELSE dur[q]]
      /\ running' = {} /\ req' = 0
      /\ UNCHANGED <<vrev, column, stack, cur, lastChanged, cancel, answer>>
  BY DEF RequestEnd
<1>2. StackInv(stack', running') /\ Holds(stack') = {} /\ Holds(stack) = {}
  BY <1>1, EmptyStackShape
<1>3. \A q \in Queries : state[q] = "RUNNING" => q \in Swept
  BY <1>2, ShellShape DEF RunningInv, Swept
<1>4. \A q \in Queries : state'[q] # "RUNNING"
  BY <1>1, <1>3
<1>6. TypeOK'
  <2>1. state' \in [Queries -> SlotStates]
    BY <1>1 DEF Shell, TypeOK, SlotStates
  <2>2. fp' \in [Queries -> Results \cup {None}]
    BY <1>1 DEF Shell, TypeOK
  <2>3. deps' \in [Queries -> Seq(Dep)]
    <3>1. deps \in [Queries -> Seq(Dep)] /\ <<>> \in Seq(Dep)
      BY DEF Shell, TypeOK
    <3> QED
      BY <1>1, <3>1
  <2>4. dur' \in [Queries -> Tiers]
    BY <1>1 DEF Shell, TypeOK, Tiers, DUR_LOW, DUR_HIGH
  <2> QED
    BY <1>1, <2>1, <2>2, <2>3, <2>4 DEF Shell, TypeOK
<1>8. RunningInv(state', stack', running', cancel')
  BY <1>2, <1>4 DEF RunningInv
<1>9. NoRunningBetweenRequests'
  BY <1>1, <1>4 DEF NoRunningBetweenRequests
<1> QED
  BY <1>2, <1>6, <1>8, <1>9, ShellShapePrime

\* db_input_changed moves the revision ahead of every stamp in the table.
LEMMA ChangedType ==
    ASSUME Shell, NEW d \in Tiers, Changed(d)
    PROVE  /\ req = 0 /\ cur' = cur + 1 /\ cur' \in 1 .. MaxRev
           /\ lastChanged' \in [Tiers -> 1 .. cur']
           /\ 0 .. cur \subseteq 0 .. cur'
<1>1. /\ cur \in 1 .. MaxRev /\ MaxRev \in Nat /\ cur < MaxRev
      /\ req = 0 /\ cur' = cur + 1
  BY ConstantsAssumption DEF Shell, TypeOK, Changed
<1>2. cur' \in 1 .. MaxRev /\ 0 .. cur \subseteq 0 .. cur'
  BY <1>1
<1>3. lastChanged' \in [Tiers -> 1 .. cur']
  <2>1. \A t \in Tiers : lastChanged[t] \in 1 .. cur'
    BY <1>1 DEF Shell, TypeOK
  <2>2. cur + 1 \in 1 .. cur'
    BY <1>1
  <2> QED
    BY <2>1, <2>2 DEF Changed
<1> QED
  BY <1>1, <1>2, <1>3

\* db_set_source_text leaves the input's fingerprint equal to its text.
LEMMA InputEditStep ==
    ASSUME Shell, NEW i \in Inputs, NEW v \in Values, InputEdit(i, v)
    PROVE  Shell'
<1>1. /\ Changed(InputDur[i])
      /\ column' = [column EXCEPT ![i] = v]
      /\ fp' = [fp EXCEPT ![i] = v]
      /\ vrev' = [vrev EXCEPT ![i] = cur + 1]
      /\ answer' = NoAnswer
      /\ UNCHANGED <<state, dur, deps, stack, req, cancel, running>>
  BY DEF InputEdit
<1>2. InputDur[i] \in Tiers /\ i \in Queries /\ v \in Results
  BY ConstantsAssumption DEF Queries, Results
<1>3. /\ req = 0 /\ cur' = cur + 1 /\ cur' \in 1 .. MaxRev
      /\ lastChanged' \in [Tiers -> 1 .. cur']
      /\ 0 .. cur \subseteq 0 .. cur'
  BY <1>1, <1>2, ChangedType
<1>4. TypeOK'
  <2>1. column' \in [Queries -> Results]
        /\ fp' \in [Queries -> Results \cup {None}]
    BY <1>1, <1>2 DEF Shell, TypeOK
  <2>2. vrev' \in [Queries -> 0 .. cur']
    <3>1. \A q \in Queries : vrev[q] \in 0 .. cur'
      BY <1>3 DEF Shell, TypeOK
    <3>2. cur + 1 \in 0 .. cur'
      BY <1>3
    <3>3. vrev \in [Queries -> 0 .. cur]
      BY DEF Shell, TypeOK
    <3> QED
      BY <1>1, <3>1, <3>2, <3>3
  <2>3. answer' \in [q : Queries \cup {None}, val : Results \cup {None}]
    BY <1>1 DEF NoAnswer
  <2>4. req' \in 0 .. cur'
    BY <1>1, <1>3
  <2> QED
    BY <1>1, <1>3, <2>1, <2>2, <2>3, <2>4 DEF Shell, TypeOK
<1>6. /\ StackInv(stack', running')
      /\ RunningInv(state', stack', running', cancel')
  BY <1>1, ShellShape
<1>7. NoRunningBetweenRequests'
  BY <1>1 DEF Shell, NoRunningBetweenRequests
<1> QED
  BY <1>4, <1>6, <1>7, ShellShapePrime

\* A revision bumped without an edit changes no slot.
LEMMA InputTouchStep ==
    ASSUME Shell, InputTouch
    PROVE  Shell'
<1> USE DEF slotVars
<1>1. /\ Changed(DUR_LOW) /\ answer' = NoAnswer
      /\ UNCHANGED <<slotVars, stack, req, cancel, running>>
  BY DEF InputTouch
<1>2. /\ req = 0 /\ cur' = cur + 1 /\ cur' \in 1 .. MaxRev
      /\ lastChanged' \in [Tiers -> 1 .. cur']
      /\ 0 .. cur \subseteq 0 .. cur'
  <2>1. DUR_LOW \in Tiers
    BY DEF Tiers, DUR_LOW, DUR_HIGH
  <2> QED
    BY <1>1, <2>1, ChangedType
<1>3. TypeOK'
  <2>1. vrev' \in [Queries -> 0 .. cur']
    BY <1>1, <1>2 DEF Shell, TypeOK
  <2>2. answer' \in [q : Queries \cup {None}, val : Results \cup {None}]
    BY <1>1 DEF NoAnswer
  <2>3. req' \in 0 .. cur'
    BY <1>1, <1>2
  <2> QED
    BY <1>1, <1>2, <2>1, <2>2, <2>3 DEF Shell, TypeOK
<1>5. /\ StackInv(stack', running')
      /\ RunningInv(state', stack', running', cancel')
  BY <1>1, ShellShape
<1>6. NoRunningBetweenRequests'
  BY <1>1 DEF Shell, NoRunningBetweenRequests
<1> QED
  BY <1>3, <1>5, <1>6, ShellShapePrime

\* The invariant is a formula of the variables in vars.
LEMMA StutterStep ==
    ASSUME Shell, UNCHANGED vars
    PROVE  Shell'
<1>1. UNCHANGED <<state, fp, vrev, dur, deps, column, stack, cur, req,
                  lastChanged, cancel, running, answer>>
  BY DEF vars, slotVars, revVars
<1>2. TypeOK' /\ NoRunningBetweenRequests'
  BY <1>1 DEF Shell, TypeOK, NoRunningBetweenRequests
<1>3. /\ StackInv(stack', running')
      /\ RunningInv(state', stack', running', cancel')
  BY <1>1, ShellShape
<1> QED
  BY <1>2, <1>3, ShellShapePrime

-----------------------------------------------------------------------------
(* The engine proper: every step but the setters'.                           *)

Machinery ==
    \/ \E q \in Queries : Begin(q)
    \/ WalkNext \/ WalkFail \/ WalkEnd
    \/ Succeed \/ Fail \/ BailOut
    \/ \E r \in 1 .. MaxRev : RequestBegin(r)
    \/ RequestEnd
    \/ RequestCancel

\* Nothing the engine does, the sweep and the reclamation at the end of a
\* request included, touches an input that has been set, but for the revision
\* it was last verified at.
LEMMA InputUntouched ==
    ASSUME Shell, Machinery, NEW i \in Inputs, state[i] = "DONE",
           deps[i] = <<>>
    PROVE  /\ state'[i] = "DONE" /\ deps'[i] = <<>> /\ fp'[i] = fp[i]
           /\ column'[i] = column[i] /\ dur'[i] = dur[i]
<1> USE DEF slotVars, revVars
<1>1. /\ state \in [Queries -> SlotStates]
      /\ fp \in [Queries -> Results \cup {None}]
      /\ deps \in [Queries -> Seq(Dep)]
      /\ dur \in [Queries -> Tiers]
      /\ column \in [Queries -> Results]
  BY DEF Shell, TypeOK
<1>2. i \in Queries /\ i \notin Derived
  BY ConstantsAssumption DEF Queries
<1>3. stack # <<>> => Top(stack).q # i
  BY TopFrame
<1>4. ASSUME NEW q \in Queries, Begin(q)
      PROVE  /\ state'[i] = "DONE" /\ deps'[i] = <<>> /\ fp'[i] = fp[i]
             /\ column'[i] = column[i] /\ dur'[i] = dur[i]
  <2>1. CASE BeginCanceled(q) \/ BeginCycle(q)
    BY <2>1 DEF BeginCanceled, BeginCycle
  <2>2. CASE BeginEmpty(q)
    BY <1>1, <1>2, <2>2 DEF BeginEmpty
  <2>3. CASE BeginHit(q)
    BY <2>3 DEF BeginHit
  <2>4. CASE BeginWalk(q)
    BY <1>1, <1>2, <2>4 DEF BeginWalk, VerifiedAtOnce
  <2> QED
    BY <1>4, <2>1, <2>2, <2>3, <2>4 DEF Begin
<1>5. CASE WalkNext \/ WalkFail \/ WalkEnd
  BY <1>1, <1>2, <1>3, <1>5 DEF WalkNext, WalkFail, WalkEnd, AtDep, Walking
<1>6. CASE Succeed \/ Fail \/ BailOut
  BY <1>1, <1>2, <1>3, <1>6 DEF Succeed, Fail, BailOut, Finishing
<1>7. CASE \E r \in 1 .. MaxRev : RequestBegin(r)
  BY <1>7 DEF RequestBegin
<1>8. CASE RequestEnd
  <2>1. i \notin Swept /\ ~Orphan(i)
    BY <1>2 DEF Swept, Orphan
  <2> QED
    BY <1>2, <1>8, <2>1 DEF RequestEnd
<1>9. CASE RequestCancel
  BY <1>9 DEF RequestCancel
<1> QED
  BY <1>4, <1>5, <1>6, <1>7, <1>8, <1>9 DEF Machinery

-----------------------------------------------------------------------------
(* What a callee leaves on top of the stack.                                 *)

\* A value handed to a body; a walk drops it.
Handed(t, v) ==
    IF t.mode = "walk" THEN t ELSE [t EXCEPT !.vals = Append(@, v)]

\* The caller as the callee finds it.
Calling(t, q) ==
    IF t.mode = "walk"
    THEN [t EXCEPT !.pulled = TRUE, !.want = t.deps[t.i].fp,
                   !.located = state[q] # "ABSENT"]
    ELSE t

\* ReturnTo touches the top frame only.
LEMMA ReturnedTop ==
    ASSUME NEW s \in Seq(Frame), s # <<>>, NEW v
    PROVE  /\ Len(ReturnTo(s, v)) = Len(s)
           /\ \A k \in 1 .. Len(s) :
                ReturnTo(s, v)[k] = IF k = Len(s) THEN Handed(Top(s), v)
                                    ELSE s[k]
<1>1. Len(s) \in 1 .. Len(s) /\ Len(s) \in Nat /\ DOMAIN s = 1 .. Len(s)
  BY EmptySeq, LenProperties
<1> DEFINE h == [Top(s) EXCEPT !.vals = Append(@, v)]
<1>2. CASE Top(s).mode = "walk"
  BY <1>1, <1>2 DEF ReturnTo, Handed, Top
<1>3. CASE Top(s).mode # "walk"
  <2>1. ReturnTo(s, v) = [s EXCEPT ![Len(s)] = h] /\ Handed(Top(s), v) = h
    BY <1>3 DEF ReturnTo, Handed, OnTop
  <2> HIDE DEF h
  <2> DEFINE u == [s EXCEPT ![Len(s)] = h]
  <2>2. /\ DOMAIN u = 1 .. Len(s)
        /\ \A k \in 1 .. Len(s) : u[k] = IF k = Len(s) THEN h ELSE s[k]
    BY <1>1
  <2>3. u \in Seq(Frame \cup {h})
    <3>1. \A k \in 1 .. Len(s) : s[k] \in Frame
      BY ElementOfSeq
    <3>2. \A k \in 1 .. Len(s) : u[k] \in Frame \cup {h}
      BY <2>2, <3>1
    <3>3. u = [k \in 1 .. Len(s) |-> u[k]]
      BY <2>2
    <3> HIDE DEF u
    <3>4. u \in [1 .. Len(s) -> Frame \cup {h}]
      BY <3>2, <3>3
    <3> QED
      BY <1>1, <3>4
  <2>4. Len(u) = Len(s)
    BY <1>1, <2>2, <2>3, LenProperties
  <2> QED
    BY <2>1, <2>2, <2>4
<1> QED
  BY <1>2, <1>3

\* So do recording a dependency and then returning.
LEMMA ReceivedTop ==
    ASSUME NEW s \in Seq(Frame), NEW q \in Queries, Receptive(s),
           NEW x \in Results \cup {None}, NEW d \in Tiers, NEW v \in Results
    PROVE  LET u == ReturnTo(RecordOnParent(s, q, x, d), v)
           IN  /\ s = <<>> => u = <<>>
               /\ s # <<>> =>
                    /\ Len(u) = Len(s) /\ Len(s) \in Nat \ {0}
                    /\ \A k \in 1 .. Len(s) :
                         u[k] = IF k = Len(s)
                                THEN Handed(RecordDep(Top(s), q, x, d), v)
                                ELSE s[k]
<1>1. CASE s = <<>>
  BY <1>1 DEF RecordOnParent, ReturnTo
<1>2. CASE s # <<>>
  <2> DEFINE r == RecordOnParent(s, q, x, d)
             g == RecordDep(Top(s), q, x, d)
  <2>1. r \in Seq(Frame) /\ SameButTop(s, r)
    BY RecordOnParentShape
  <2>2. Len(s) \in Nat \ {0} /\ Len(r) = Len(s)
    BY <1>2, <2>1, TopIsFrame DEF SameButTop
  <2>3. r = OnTop(s, g)
    BY <1>2 DEF RecordOnParent
  <2>4. g \in Frame /\ g.q = Top(s).q /\ g.mode = Top(s).mode
    BY <1>2, TopIsFrame, RecordDepFrame
  <2>5. Top(OnTop(s, g)) = g
    <3> HIDE DEF g
    <3> QED
      BY <1>2, <2>4, OnTopFrame
  <2>6. r # <<>> /\ Top(r) = g
    BY <2>2, <2>3, <2>5
  <2> HIDE DEF r, g
  <2>7. /\ Len(ReturnTo(r, v)) = Len(r)
        /\ \A k \in 1 .. Len(r) :
             ReturnTo(r, v)[k] = IF k = Len(r) THEN Handed(g, v) ELSE r[k]
    BY <2>1, <2>6, ReturnedTop
  <2>8. \A k \in 1 .. Len(s) : k # Len(s) => r[k] = s[k]
    BY <2>1, <2>2 DEF SameButTop
  <2> QED
    BY <1>2, <2>2, <2>7, <2>8 DEF r, g
<1> QED
  BY <1>1, <1>2

\* The callee finds its caller's frame on top, with the pull noted.
LEMMA CallerTop ==
    ASSUME TypeOK, NEW q \in Queries, Calls(q), stack # <<>>
    PROVE  /\ Caller(q) \in Seq(Frame) /\ Caller(q) # <<>>
           /\ Len(Caller(q)) = Len(stack) /\ Len(stack) \in Nat \ {0}
           /\ Top(Caller(q)) = Calling(Top(stack), q)
           /\ Awaits(Top(Caller(q)), q)
           /\ \A k \in 1 .. Len(stack) :
                Caller(q)[k] = IF k = Len(stack) THEN Calling(Top(stack), q)
                               ELSE stack[k]
<1>1. stack \in Seq(Frame)
  BY DEF TypeOK
<1>2. Len(stack) \in Nat \ {0} /\ Top(stack) \in Frame
  BY <1>1, TopIsFrame
<1>3. /\ Caller(q) \in Seq(Frame) /\ SameButTop(stack, Caller(q))
      /\ Caller(q) # <<>> => Awaits(Top(Caller(q)), q)
  BY CallerShape
<1>4. Len(Caller(q)) = Len(stack) /\ Caller(q) # <<>>
  BY <1>2, <1>3 DEF SameButTop
<1>5. Top(Caller(q)) = Calling(Top(stack), q)
  <2>1. CASE Top(stack).mode = "walk"
    <3> DEFINE g == Calling(Top(stack), q)
    <3>1. Caller(q) = OnTop(stack, g)
      BY <2>1 DEF Caller, Calling
    <3>2. DOMAIN stack = 1 .. Len(stack) /\ Len(stack) \in DOMAIN stack
      BY <1>1, <1>2, LenProperties
    <3> HIDE DEF g
    <3>3. OnTop(stack, g)[Len(stack)] = g
      BY <3>2 DEF OnTop
    <3> QED
      BY <1>4, <3>1, <3>3 DEF Top, g
  <2>2. CASE Top(stack).mode # "walk"
    BY <2>2 DEF Caller, Calling
  <2> QED
    BY <2>1, <2>2
<1>6. \A k \in 1 .. Len(stack) : k # Len(stack) => Caller(q)[k] = stack[k]
  BY <1>2, <1>3 DEF SameButTop
<1> QED
  BY <1>2, <1>3, <1>4, <1>5, <1>6 DEF Top

\* record_dep_on_parent, field by field.
LEMMA RecordedFields ==
    ASSUME NEW t \in Frame, NEW q \in Queries,
           NEW x \in Results \cup {None}, NEW d \in Tiers
    PROVE  LET g == RecordDep(t, q, x, d)
               dep == [q |-> q, fp |-> x]
           IN  /\ g \in Frame /\ g.q = t.q /\ g.mode = t.mode
               /\ g.prev = t.prev /\ g.i = t.i /\ g.n = t.n
               /\ g.pulled = t.pulled /\ g.want = t.want
               /\ g.located = t.located /\ g.vals = t.vals
               /\ g.durSet /\ g.minDur = IF ~t.durSet \/ d < t.minDur THEN d
                                         ELSE t.minDur
               /\ Indexed(t, q) = {} => g.deps = Append(t.deps, dep)
               /\ Indexed(t, q) # {} =>
                    /\ Len(g.deps) = Len(t.deps)
                    /\ \A k \in 1 .. Len(t.deps) :
                         g.deps[k] = IF k \in Indexed(t, q) THEN dep
                                     ELSE t.deps[k]
<1> DEFINE dep == [q |-> q, fp |-> x]
           up == [k \in DOMAIN t.deps |-> IF k \in Indexed(t, q) THEN dep
                                          ELSE t.deps[k]]
           nd == IF Indexed(t, q) # {} THEN up ELSE Append(t.deps, dep)
           nm == IF ~t.durSet \/ d < t.minDur THEN d ELSE t.minDur
           g == RecordDep(t, q, x, d)
<1>1. t \in FrameFields /\ t.deps \in Seq(Dep)
  BY DEF Frame, FrameFields
<1>2. g = [t EXCEPT !.deps = nd, !.minDur = nm, !.durSet = TRUE]
  BY DEF RecordDep
<1>3. g \in Frame /\ g.q = t.q /\ g.mode = t.mode /\ g.vals = t.vals
  BY RecordDepFrame
<1> HIDE DEF nd, nm
<1>4. /\ g.deps = nd /\ g.minDur = nm /\ g.durSet
      /\ g.prev = t.prev /\ g.i = t.i /\ g.n = t.n /\ g.pulled = t.pulled
      /\ g.want = t.want /\ g.located = t.located
  BY <1>1, <1>2 DEF FrameFields
<1>5. DOMAIN t.deps = 1 .. Len(t.deps) /\ Len(t.deps) \in Nat
  BY <1>1, LenProperties
<1>6. ASSUME Indexed(t, q) # {}
      PROVE  /\ Len(nd) = Len(t.deps)
             /\ \A k \in 1 .. Len(t.deps) :
                  nd[k] = IF k \in Indexed(t, q) THEN dep ELSE t.deps[k]
  <2>1. nd = up
    BY <1>6 DEF nd
  <2>2. g.deps \in Seq(Dep)
    BY <1>3 DEF Frame, FrameFields
  <2>3. DOMAIN nd = 1 .. Len(t.deps)
    BY <1>5, <2>1
  <2>4. Len(nd) = Len(t.deps)
    BY <1>4, <1>5, <2>2, <2>3, LenProperties
  <2> QED
    BY <1>5, <2>1, <2>4
<1>7. Indexed(t, q) = {} => nd = Append(t.deps, dep)
  BY DEF nd
<1> HIDE DEF g, dep
<1>8. nm = IF ~t.durSet \/ d < t.minDur THEN d ELSE t.minDur
  BY DEF nm
<1> QED
  BY <1>3, <1>4, <1>6, <1>7, <1>8 DEF g, dep

\* A value handed over, field by field.
LEMMA HandedFields ==
    ASSUME NEW t \in Frame, NEW v
    PROVE  LET g == Handed(t, v)
           IN  /\ g.q = t.q /\ g.mode = t.mode /\ g.deps = t.deps
               /\ g.prev = t.prev /\ g.i = t.i /\ g.n = t.n
               /\ g.pulled = t.pulled /\ g.want = t.want
               /\ g.located = t.located
               /\ g.durSet = t.durSet /\ g.minDur = t.minDur
               /\ g.vals = IF t.mode = "walk" THEN t.vals ELSE Append(t.vals, v)
BY DEF Handed, Frame, FrameFields

\* The pull noted, field by field.
LEMMA CallingFields ==
    ASSUME NEW t \in Frame, NEW q
    PROVE  LET g == Calling(t, q)
           IN  /\ g.q = t.q /\ g.mode = t.mode /\ g.deps = t.deps
               /\ g.prev = t.prev /\ g.i = t.i /\ g.n = t.n /\ g.vals = t.vals
               /\ g.durSet = t.durSet /\ g.minDur = t.minDur
               /\ IF t.mode = "walk"
                  THEN g.pulled /\ g.want = t.deps[t.i].fp
                  ELSE g.pulled = t.pulled /\ g.want = t.want
BY DEF Calling, Frame, FrameFields

-----------------------------------------------------------------------------
(* The theorems.                                                             *)

\* Every step of the engine, its consumers and its inputs preserves IInv.
THEOREM Inductive == IInv /\ [Next]_vars => IInv'
<1> SUFFICES ASSUME IInv, [Next]_vars
             PROVE  IInv'
  OBVIOUS
<1> USE DEF IInv
<1>1. ASSUME NEW q \in Queries, Begin(q)
      PROVE  Shell'
  <2>1. BeginEmpty(q) \/ BeginWalk(q) => q \in Derived
    BY FrameIsDerived DEF BeginEmpty, BeginWalk
  <2> QED
    BY <1>1, <2>1, SentinelReturn, BeginEmptyStep, BeginHitStep, BeginWalkStep
       DEF Begin
<1>2. CASE WalkNext \/ WalkFail \/ WalkEnd
  BY <1>2, WalkNextStep, WalkFailStep, WalkEndStep, InputUntouched
     DEF Machinery, InputsAreAuthoritative
<1>3. CASE Succeed \/ Fail \/ BailOut
  BY <1>3, SucceedStep, FailStep, BailOutStep, InputUntouched
     DEF Machinery, InputsAreAuthoritative
<1>4. ASSUME NEW r \in 1 .. MaxRev, RequestBegin(r)
      PROVE  Shell'
  BY <1>4, RequestBeginStep
<1>5. CASE RequestEnd \/ RequestCancel
  BY <1>5, RequestEndStep, RequestCancelStep, InputUntouched
     DEF Machinery, InputsAreAuthoritative
<1>6. ASSUME NEW i \in Inputs, NEW v \in Values, InputEdit(i, v)
      PROVE  IInv'
  <2>1. Shell'
    BY <1>6, InputEditStep
  <2>2. i \in Queries /\ column \in [Queries -> Results]
        /\ fp \in [Queries -> Results \cup {None}]
    BY DEF Shell, TypeOK, Queries
  <2>3. InputsAreAuthoritative'
    BY <1>6, <2>2 DEF InputEdit, InputsAreAuthoritative, Queries
  <2> QED
    BY <2>1, <2>3
<1>7. CASE InputTouch
  <2>1. Shell'
    BY <1>7, InputTouchStep
  <2>2. InputsAreAuthoritative'
    BY <1>7 DEF InputTouch, InputsAreAuthoritative, slotVars
  <2> QED
    BY <2>1, <2>2
<1>8. CASE UNCHANGED vars
  <2>1. Shell'
    BY <1>8, StutterStep
  <2>2. InputsAreAuthoritative'
    BY <1>8 DEF vars, slotVars, InputsAreAuthoritative
  <2> QED
    BY <2>1, <2>2
<1>9. CASE \/ \E q \in Queries : Begin(q)
          \/ \E r \in 1 .. MaxRev : RequestBegin(r)
  <2>1. Shell'
    BY <1>1, <1>4, <1>9
  <2>2. Machinery
    BY <1>9 DEF Machinery
  <2>3. InputsAreAuthoritative'
    BY <2>2, InputUntouched DEF InputsAreAuthoritative
  <2> QED
    BY <2>1, <2>3
<1> QED
  BY <1>2, <1>3, <1>5, <1>6, <1>7, <1>8, <1>9 DEF Next

\* IInv holds in every reachable state of the engine.
THEOREM Invariance == Spec => []IInv
<1>1. Init => IInv
  <2>1. Init => InputsAreAuthoritative
    BY DEF Init, InputsAreAuthoritative, Queries
  <2> QED
    BY <2>1, InitStep DEF IInv
<1> QED
  BY <1>1, Inductive, PTL DEF Spec

\* Type correctness: db_query_begin, succeed, fail, the verify walk, the
\* request boundary and the setters keep every field of every slot in range,
\* no verified_rev, request or tier stamp ahead of current_revision, and no
\* body is handed more values than it asked for.
THEOREM TypeCorrect == Spec => []TypeOK
<1>1. IInv => TypeOK
  BY DEF IInv, Shell
<1> QED
  BY <1>1, Invariance, PTL

\* Re-entry is always caught: no query is on the query stack twice, so the
\* recursion of db_query_begin is at most as deep as there are queries.
THEOREM NoReentry == Spec => []StackIsSimple
<1>1. IInv => StackIsSimple
  BY DEF IInv, Shell
<1> QED
  BY <1>1, Invariance, PTL

\* The RUNNING state and the stack agree, and whatever a cancel leaves
\* RUNNING off the stack is known to db_engine_sweep_running.
THEOREM RunningAccounted == Spec => []RunningIsAccounted
<1>1. IInv => RunningIsAccounted
  BY DEF IInv, Shell
<1> QED
  BY <1>1, Invariance, PTL

\* db_request_end leaves no slot RUNNING, however the request was cancelled.
THEOREM RequestsEndClean == Spec => []NoRunningBetweenRequests
<1>1. IInv => NoRunningBetweenRequests
  BY DEF IInv, Shell
<1> QED
  BY <1>1, Invariance, PTL

\* No engine step, sweep or reclamation touches what the setters wrote.
THEOREM InputsAuthoritative == Spec => []InputsAreAuthoritative
<1>1. IInv => InputsAreAuthoritative
  BY DEF IInv, Shell
<1> QED
  BY <1>1, Invariance, PTL

\* A slot that is DONE and verified at the revision the request is pinned at
\* is not touched again before the request ends: the columns handed out by
\* DB_QUERY_GUARD stay valid.
THEOREM VerifiedFinal == Spec => VerifiedIsFinal
<1> DEFINE Final(q) ==
      /\ req = cur /\ req' = req
      /\ state[q] = "DONE" /\ vrev[q] = cur
      => /\ state'[q] = "DONE" /\ vrev'[q] = cur
         /\ fp'[q] = fp[q] /\ column'[q] = column[q]
         /\ deps'[q] = deps[q]
<1>1. IInv /\ [Next]_vars => [\A q \in Queries : Final(q)]_vars
  <2> SUFFICES ASSUME IInv, Next, NEW q \in Queries,
                      req = cur, req' = req, state[q] = "DONE", vrev[q] = cur
               PROVE  /\ state'[q] = "DONE" /\ vrev'[q] = cur
                      /\ fp'[q] = fp[q] /\ column'[q] = column[q]
                      /\ deps'[q] = deps[q]
    OBVIOUS
  <2> USE DEF slotVars, revVars
  <2>1. req # 0 /\ Effective = cur
    BY DEF IInv, Shell, TypeOK, Effective
  <2>2. stack # <<>> => Top(stack).q # q
    BY TopFrame DEF IInv
  <2>3. /\ state \in [Queries -> SlotStates]
        /\ fp \in [Queries -> Results \cup {None}]
        /\ vrev \in [Queries -> 0 .. cur]
        /\ deps \in [Queries -> Seq(Dep)]
        /\ column \in [Queries -> Results]
    BY DEF IInv, Shell, TypeOK
  <2>4. CASE \E p \in Queries : Begin(p)
    <3>1. PICK p \in Queries : Begin(p)
      BY <2>4
    <3>2. CASE BeginCanceled(p) \/ BeginCycle(p)
      BY <3>2 DEF BeginCanceled, BeginCycle
    <3>3. CASE BeginEmpty(p)
      BY <2>3, <3>3 DEF BeginEmpty
    <3>4. CASE BeginHit(p)
      BY <2>1, <2>3, <3>4 DEF BeginHit
    <3>5. CASE BeginWalk(p)
      BY <2>1, <2>3, <3>5 DEF BeginWalk, VerifiedAtOnce
    <3> QED
      BY <3>1, <3>2, <3>3, <3>4, <3>5 DEF Begin
  <2>5. CASE WalkNext \/ WalkFail \/ WalkEnd
    BY <2>2, <2>3, <2>5 DEF WalkNext, WalkFail, WalkEnd, AtDep, Walking
  <2>6. CASE Succeed
    BY <2>2, <2>3, <2>6 DEF Succeed, Finishing
  <2>7. CASE Fail \/ BailOut
    BY <2>2, <2>3, <2>7 DEF Fail, BailOut, Finishing
  <2>8. CASE RequestCancel
    BY <2>8 DEF RequestCancel
  <2>9. ~ \E r \in 1 .. MaxRev : RequestBegin(r)
    BY <2>1 DEF RequestBegin
  <2>10. ~ RequestEnd
    BY <2>1 DEF RequestEnd
  <2>11. ~ \E i \in Inputs, v \in Values : InputEdit(i, v)
    BY <2>1 DEF InputEdit, Changed
  <2>12. ~ InputTouch
    BY <2>1 DEF InputTouch, Changed
  <2> QED
    BY <2>4, <2>5, <2>6, <2>7, <2>8, <2>9, <2>10, <2>11, <2>12 DEF Next
<1> QED
  BY <1>1, Invariance, PTL DEF Spec, VerifiedIsFinal
=============================================================================
