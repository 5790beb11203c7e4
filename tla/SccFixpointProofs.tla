------------------------- MODULE SccFixpointProofs -------------------------
(***************************************************************************)
(* Theorems about SccFixpoint, for every program in which only queries of  *)
(* FIXPOINT kinds read queries of FIXPOINT kinds (OnlyMembersRead): every  *)
(* call graph, any edits, a cancel at any step.                            *)
(***************************************************************************)
EXTENDS SccFixpoint, QueryEngineProofs, Induction

(***************************************************************************)
(* The stack while an SCC is active.  P are the provisional slots; the     *)
(* drive runs above the first b frames, the highest of which awaits the    *)
(* root, while what stands above them is the rerun of a member.            *)
(***************************************************************************)

\* A walk that was enrolled has pulled another member; and what a query
\* recorded is of a FIXPOINT kind only if the query is.
FrameOK(f, P) ==
    /\ f.q \in P /\ f.mode = "walk" =>
         f.pulled /\ f.i <= f.n /\ f.deps[f.i].q \in P
    /\ f.q \notin Fixpoint =>
         \A k \in 1 .. Len(f.deps) : f.deps[k].q \notin Fixpoint

StackOK(s, R, P, b, root) ==
    /\ s \in Seq(Frame) /\ Simple(s) /\ BodiesIn(s, R) /\ b \in 0 .. Len(s)
    /\ \A k \in 1 .. Len(s) - 1 : k # b => Awaits(s[k], s[k + 1].q)
    /\ \A k \in 1 .. Len(s) : FrameOK(s[k], P)
    /\ b # 0 => Awaits(s[b], root)

\* The queries of the members from the i-th on.
Enrolled(members, i) == {members[k].q : k \in i .. Len(members)}

Collecting(x, P, s) ==
    /\ x.phase = "collect" /\ x.base = 0 /\ x.i = 1
    /\ x.root \in P /\ P = Enrolled(x.members, 1)
    /\ \E h \in 1 .. Len(s) :
         s[h].q = x.root /\ \A k \in 1 .. h - 1 : s[k].q \notin P

Rerunning(x, P, s) ==
    /\ x.phase = "rerun" /\ x.root \in P /\ P = Enrolled(x.members, 1)
    /\ \A k \in 1 .. x.base : s[k].q \notin P
    /\ Len(s) > x.base =>
         /\ x.i <= Len(x.members)
         /\ s[x.base + 1].mode = "body" /\ s[x.base + 1].q \in P

Finalizing(x, P, s) ==
    /\ x.phase = "finalize" /\ Len(s) = x.base
    /\ x.root \in Fixpoint /\ P \subseteq Enrolled(x.members, x.i)
    /\ \A k \in 1 .. x.base : s[k].q \notin Enrolled(x.members, 1)

PhaseOK(x, P, s) ==
    \/ x = Idle /\ P = {}
    \/ Collecting(x, P, s)
    \/ Rerunning(x, P, s)
    \/ Finalizing(x, P, s)

Scene(s, R, P, x) == StackOK(s, R, P, x.base, x.root) /\ PhaseOK(x, P, s)

\* A slot is RUNNING for one of three reasons: its frame is on the stack, its
\* body has returned a provisional value, or it bailed out under a cancel.
RunOK(st, s, R, c, P) ==
    /\ \A q \in Holds(s) \cup P : st[q] = "RUNNING"
    /\ \A q \in Queries :
         st[q] = "RUNNING" => q \in Holds(s) \/ (q \in R /\ (c \/ q \in P))

Rest(r, st, s, x) ==
    r = 0 => s = <<>> /\ x = Idle /\ \A q \in Queries : st[q] # "RUNNING"

DepsOK(ds) ==
    \A q \in Derived \ Fixpoint :
        \A k \in 1 .. Len(ds[q]) : ds[q][k].q \notin Fixpoint

Phases == {"idle", "collect", "rerun", "finalize"}

Drives ==
    [phase : Phases, root : Fixpoint \cup {None}, members : Seq(Member),
     base : Nat, i : Nat \ {0}, iter : Nat, before : Results \cup {None},
     changed : BOOLEAN]

SccRecord(x) ==
    /\ x \in Drives
    /\ x.i <= Len(x.members) + 1
    /\ x.iter <= Len(x.members) * 64 + 32

\* The inductive invariant.
XInv ==
    /\ TypeOK
    /\ prov \subseteq Fixpoint /\ SccRecord(scc)
    /\ Scene(stack, running, prov, scc)
    /\ RunOK(state, stack, running, cancel, prov)
    /\ Rest(req, state, stack, scc)
    /\ DepsOK(deps)
    /\ InputsAreAuthoritative

-----------------------------------------------------------------------------
(* Three changes of the stack.                                               *)

\* What a scene says of the stack alone.
LEMMA SceneParts ==
    ASSUME NEW s, NEW R, NEW P, NEW x, Scene(s, R, P, x)
    PROVE  /\ s \in Seq(Frame) /\ Len(s) \in Nat /\ DOMAIN s = 1 .. Len(s)
           /\ x.base \in 0 .. Len(s)
           /\ \A k \in 1 .. Len(s) : s[k] \in Frame
<1>1. s \in Seq(Frame) /\ x.base \in 0 .. Len(s)
  BY DEF Scene, StackOK
<1> QED
  BY <1>1, LenProperties, ElementOfSeq

\* The top frame is replaced by one of the same query; a body stays one.
LEMMA SceneTop ==
    ASSUME NEW s, NEW R, NEW P, NEW x, Scene(s, R, P, x), Len(s) > x.base,
           NEW t \in Seq(Frame), Len(t) = Len(s),
           \A k \in 1 .. Len(s) : k # Len(s) => t[k] = s[k],
           Top(t).q = Top(s).q,
           Top(s).mode = "body" => Top(t).mode = "body",
           Top(t).mode = "body" => Top(t).q \in R,
           FrameOK(Top(t), P)
    PROVE  Scene(t, R, P, x) /\ Holds(t) = Holds(s)
<1>1. /\ s \in Seq(Frame) /\ Len(s) \in Nat /\ DOMAIN s = 1 .. Len(s)
      /\ DOMAIN t = 1 .. Len(s) /\ x.base \in 0 .. Len(s)
  BY SceneParts, LenProperties
<1>2. PICK n, b : n = Len(s) /\ b = x.base
  OBVIOUS
<1>3. /\ n \in Nat \ {0} /\ b \in 0 .. n - 1 /\ Top(s) = s[n] /\ Top(t) = t[n]
      /\ n \in 1 .. n
  <2>1. n \in Nat /\ b \in 0 .. n /\ n > b
    BY <1>1, <1>2
  <2>2. n \in Nat \ {0} /\ b \in 0 .. n - 1 /\ n \in 1 .. n
    BY <2>1
  <2> QED
    BY <1>1, <1>2, <2>2 DEF Top
<1>0. DOMAIN s = 1 .. n /\ DOMAIN t = 1 .. n
  BY <1>1, <1>2
<1>4. /\ \A k \in 1 .. n : t[k].q = s[k].q
      /\ \A k \in 1 .. n : k # n => t[k] = s[k]
      /\ \A k \in 1 .. n : s[k].mode = "body" => t[k].mode = "body"
  BY <1>2, <1>3
<1>5. Holds(t) = Holds(s) /\ Simple(t)
  <2>1. Simple(s)
    BY DEF Scene, StackOK
  <2> QED
    BY <1>0, <1>4, <2>1 DEF Holds, Simple
<1>6. BodiesIn(t, R)
  <2>1. BodiesIn(s, R)
    BY DEF Scene, StackOK
  <2> QED
    BY <1>0, <1>3, <1>4, <2>1 DEF BodiesIn
<1>7. \A k \in 1 .. n - 1 : k # b => Awaits(t[k], t[k + 1].q)
  <2>1. \A k \in 1 .. n - 1 : k # b => Awaits(s[k], s[k + 1].q)
    BY <1>2 DEF Scene, StackOK
  <2>2. \A k \in 1 .. n - 1 : k \in 1 .. n /\ k # n /\ k + 1 \in 1 .. n
    BY <1>3
  <2> QED
    BY <1>4, <2>1, <2>2
<1>8. \A k \in 1 .. n : FrameOK(t[k], P)
  <2>1. \A k \in 1 .. n : FrameOK(s[k], P)
    BY <1>2 DEF Scene, StackOK
  <2> QED
    BY <1>3, <1>4, <2>1
<1>9. b # 0 => Awaits(t[b], x.root)
  <2>1. b # 0 => Awaits(s[b], x.root)
    BY <1>2 DEF Scene, StackOK
  <2>2. b # 0 => b \in 1 .. n /\ b # n
    BY <1>3
  <2> QED
    BY <1>4, <2>1, <2>2
<1>10. StackOK(t, R, P, x.base, x.root)
  <2>1. Len(t) = n /\ x.base = b /\ b \in 0 .. n
    BY <1>2, <1>3
  <2> QED
    BY <1>5, <1>6, <1>7, <1>8, <1>9, <2>1 DEF StackOK
<1>11. PhaseOK(x, P, t)
  <2>1. CASE x = Idle /\ P = {}
    BY <2>1 DEF PhaseOK
  <2>2. CASE Collecting(x, P, s)
    <3>1. PICK h \in 1 .. n :
            s[h].q = x.root /\ \A k \in 1 .. h - 1 : s[k].q \notin P
      BY <1>2, <2>2 DEF Collecting
    <3>2. \A k \in 1 .. h - 1 : k \in 1 .. n
      BY <1>3
    <3>3. t[h].q = x.root /\ \A k \in 1 .. h - 1 : t[k].q \notin P
      BY <1>4, <3>1, <3>2
    <3> QED
      BY <1>2, <2>2, <3>3 DEF Collecting, PhaseOK
  <2>3. CASE Rerunning(x, P, s)
    <3>1. /\ \A k \in 1 .. b : k \in 1 .. n
          /\ b + 1 \in 1 .. n
      BY <1>3
    <3>2. /\ \A k \in 1 .. b : s[k].q \notin P
          /\ x.i <= Len(x.members)
          /\ s[b + 1].mode = "body" /\ s[b + 1].q \in P
      BY <1>2, <2>3 DEF Rerunning
    <3>3. /\ \A k \in 1 .. b : t[k].q \notin P
          /\ t[b + 1].mode = "body" /\ t[b + 1].q \in P
      BY <1>4, <3>1, <3>2
    <3> QED
      BY <1>2, <2>3, <3>2, <3>3 DEF Rerunning, PhaseOK
  <2>4. ~ Finalizing(x, P, s)
    BY <1>2, <1>3 DEF Finalizing
  <2> QED
    BY <2>1, <2>2, <2>3, <2>4 DEF Scene, PhaseOK
<1> QED
  BY <1>5, <1>10, <1>11 DEF Scene

\* The top frame returns, if it is neither the root's nor the rerun's.
LEMMA ScenePop ==
    ASSUME NEW s, NEW R, NEW P, NEW x, Scene(s, R, P, x), s # <<>>,
           Len(s) > x.base,
           x.phase = "collect" => Top(s).q # x.root,
           x.phase = "rerun" => Len(s) # x.base + 1
    PROVE  /\ Scene(Popped(s), R, P, x)
           /\ Holds(Popped(s)) = Holds(s) \ {Top(s).q}
           /\ Popped(s) # <<>> => /\ Awaits(Top(Popped(s)), Top(s).q)
                                  /\ Len(Popped(s)) > x.base
<1>1. /\ s \in Seq(Frame) /\ Len(s) \in Nat /\ DOMAIN s = 1 .. Len(s)
      /\ x.base \in 0 .. Len(s)
  BY SceneParts
<1>2. PICK n, b, p : n = Len(s) /\ b = x.base /\ p = Popped(s)
  OBVIOUS
<1>3. /\ n \in Nat \ {0} /\ b \in 0 .. n - 1 /\ n \in 1 .. n /\ Top(s) = s[n]
      /\ DOMAIN s = 1 .. n
  BY <1>1, <1>2 DEF Top
<1>4. /\ p \in Seq(Frame) /\ Len(p) = n - 1
      /\ \A k \in 1 .. n - 1 : p[k] = s[k]
  BY <1>1, <1>2, PoppedFrames
<1>5. DOMAIN p = 1 .. n - 1 /\ \A k \in 1 .. n - 1 : k \in 1 .. n
  BY <1>3, <1>4, LenProperties
<1>6. Simple(s) /\ BodiesIn(s, R)
  BY DEF Scene, StackOK
<1>7. Simple(p) /\ BodiesIn(p, R)
  BY <1>3, <1>4, <1>5, <1>6 DEF Simple, BodiesIn
<1>8. Holds(p) = Holds(s) \ {s[n].q}
  <2>1. \A k \in 1 .. n : k # n => k \in 1 .. n - 1
    BY <1>3
  <2>2. n \notin 1 .. n - 1
    BY <1>3
  <2> QED
    BY <1>3, <1>4, <1>5, <1>6, <2>1, <2>2 DEF Holds, Simple
<1>9. x.phase = "rerun" => b < n - 1
  BY <1>2, <1>3
<1>10. x.phase # "rerun" => b = 0
  <2>1. ~ Finalizing(x, P, s)
    BY <1>2, <1>3 DEF Finalizing
  <2>2. x = Idle => x.base = 0
    BY DEF Idle
  <2> QED
    BY <1>2, <2>1, <2>2 DEF Scene, PhaseOK, Collecting, Rerunning
<1>11. /\ \A k \in 1 .. n - 1 : k # b => Awaits(s[k], s[k + 1].q)
       /\ \A k \in 1 .. n : FrameOK(s[k], P)
       /\ b # 0 => Awaits(s[b], x.root)
  BY <1>2 DEF Scene, StackOK
<1>12. b \in 0 .. n - 1 /\ (p # <<>> => n - 1 \in 1 .. n - 1 /\ n - 1 > b)
  <2>1. p # <<>> => n - 1 # 0
    BY <1>4, EmptySeq
  <2> QED
    BY <1>3, <1>9, <1>10, <2>1
<1>13. p # <<>> => Awaits(Top(p), s[n].q)
  <2> SUFFICES ASSUME p # <<>>
               PROVE  Awaits(Top(p), s[n].q)
    OBVIOUS
  <2>1. Top(p) = s[n - 1] /\ n - 1 + 1 = n /\ n - 1 # b
    BY <1>3, <1>4, <1>12 DEF Top
  <2>2. Awaits(s[n - 1], s[n - 1 + 1].q)
    BY <1>11, <1>12, <2>1
  <2> QED
    BY <2>1, <2>2
<1>14. StackOK(p, R, P, b, x.root)
  <2>1. \A k \in 1 .. n - 1 - 1 : k \in 1 .. n - 1 /\ k + 1 \in 1 .. n - 1
    BY <1>3
  <2>2. \A k \in 1 .. n - 1 - 1 : k # b => Awaits(p[k], p[k + 1].q)
    BY <1>4, <1>11, <2>1
  <2>3. \A k \in 1 .. n - 1 : FrameOK(p[k], P)
    BY <1>4, <1>5, <1>11
  <2>4. b # 0 => Awaits(p[b], x.root)
    <3>1. b # 0 => b \in 1 .. n - 1
      BY <1>3
    <3> QED
      BY <1>4, <1>11, <3>1
  <2> QED
    BY <1>4, <1>7, <1>12, <2>2, <2>3, <2>4 DEF StackOK
<1>15. PhaseOK(x, P, p)
  <2>1. CASE x = Idle /\ P = {}
    BY <2>1 DEF PhaseOK
  <2>2. CASE Collecting(x, P, s)
    <3>1. PICK h \in 1 .. n :
            s[h].q = x.root /\ \A k \in 1 .. h - 1 : s[k].q \notin P
      BY <1>2, <2>2 DEF Collecting
    <3>2. h # n
      BY <1>3, <2>2, <3>1 DEF Collecting
    <3>3. h \in 1 .. n - 1 /\ \A k \in 1 .. h - 1 : k \in 1 .. n - 1
      BY <1>3, <3>2
    <3>4. p[h].q = x.root /\ \A k \in 1 .. h - 1 : p[k].q \notin P
      BY <1>4, <3>1, <3>3
    <3> QED
      BY <1>4, <2>2, <3>3, <3>4 DEF Collecting, PhaseOK
  <2>3. CASE Rerunning(x, P, s)
    <3>1. b < n - 1
      BY <1>9, <2>3 DEF Rerunning
    <3>2. /\ \A k \in 1 .. b : k \in 1 .. n - 1
          /\ b + 1 \in 1 .. n - 1
      BY <1>3, <3>1
    <3>3. /\ \A k \in 1 .. b : s[k].q \notin P
          /\ x.i <= Len(x.members)
          /\ s[b + 1].mode = "body" /\ s[b + 1].q \in P
      BY <1>2, <1>3, <2>3 DEF Rerunning
    <3>4. /\ \A k \in 1 .. b : p[k].q \notin P
          /\ p[b + 1].mode = "body" /\ p[b + 1].q \in P
      BY <1>4, <3>2, <3>3
    <3> QED
      BY <1>2, <2>3, <3>3, <3>4 DEF Rerunning, PhaseOK
  <2>4. ~ Finalizing(x, P, s)
    BY <1>2, <1>3 DEF Finalizing
  <2> QED
    BY <2>1, <2>2, <2>3, <2>4 DEF Scene, PhaseOK
<1> QED
  BY <1>2, <1>3, <1>4, <1>8, <1>12, <1>13, <1>14, <1>15 DEF Scene

\* More slots may be tracked.
LEMMA SceneMore ==
    ASSUME NEW s, NEW R, NEW P, NEW x, Scene(s, R, P, x), NEW R2, R \subseteq R2
    PROVE  Scene(s, R2, P, x)
BY DEF Scene, StackOK, BodiesIn

\* A frame is pushed for the query that the top frame awaits.
LEMMA ScenePush ==
    ASSUME NEW s, NEW R, NEW P, NEW x, Scene(s, R, P, x),
           x.phase = "rerun" => Len(s) > x.base, x.phase # "finalize",
           NEW f \in Frame, f.q \notin Holds(s),
           s # <<>> => Awaits(Top(s), f.q),
           f.mode = "body" => f.q \in R, FrameOK(f, P)
    PROVE  /\ Scene(Append(s, f), R, P, x)
           /\ Holds(Append(s, f)) = Holds(s) \cup {f.q}
<1>1. /\ s \in Seq(Frame) /\ Len(s) \in Nat /\ DOMAIN s = 1 .. Len(s)
      /\ x.base \in 0 .. Len(s)
  BY SceneParts
<1>2. PICK n, b, p : n = Len(s) /\ b = x.base /\ p = Append(s, f)
  OBVIOUS
<1>3. n \in Nat /\ b \in 0 .. n /\ DOMAIN s = 1 .. n
  BY <1>1, <1>2
<1>4. /\ p \in Seq(Frame) /\ Len(p) = n + 1
      /\ \A k \in 1 .. n : p[k] = s[k]
      /\ p[n + 1] = f
  BY <1>1, <1>2
<1>5. DOMAIN p = 1 .. n + 1 /\ \A k \in 1 .. n + 1 : k \in 1 .. n \/ k = n + 1
  BY <1>3, <1>4, LenProperties
<1>6. Simple(s) /\ BodiesIn(s, R)
  BY DEF Scene, StackOK
<1>7. \A k \in 1 .. n : s[k].q # f.q
  BY <1>3 DEF Holds
<1>8. Simple(p)
  <2> SUFFICES ASSUME NEW j \in 1 .. n + 1, NEW k \in 1 .. n + 1, j # k
               PROVE  p[j].q # p[k].q
    BY <1>5 DEF Simple
  <2> QED
    BY <1>3, <1>4, <1>5, <1>6, <1>7 DEF Simple
<1>9. BodiesIn(p, R)
  BY <1>3, <1>4, <1>5, <1>6 DEF BodiesIn
<1>10. Holds(p) = Holds(s) \cup {f.q}
  <2>1. \A k \in 1 .. n : k \in 1 .. n + 1
    BY <1>3
  <2>2. n + 1 \in 1 .. n + 1
    BY <1>3
  <2> QED
    BY <1>3, <1>4, <1>5, <2>1, <2>2 DEF Holds
<1>11. /\ \A k \in 1 .. n - 1 : k # b => Awaits(s[k], s[k + 1].q)
       /\ \A k \in 1 .. n : FrameOK(s[k], P)
       /\ b # 0 => Awaits(s[b], x.root)
  BY <1>2 DEF Scene, StackOK
<1>12. StackOK(p, R, P, b, x.root)
  <2>1. \A k \in 1 .. n : k # b => Awaits(p[k], p[k + 1].q)
    <3> SUFFICES ASSUME NEW k \in 1 .. n, k # b
                 PROVE  Awaits(p[k], p[k + 1].q)
      OBVIOUS
    <3>1. CASE k = n
      <4>1. s # <<>> /\ Top(s) = s[n]
        BY <1>1, <1>2, <1>3, <3>1, EmptySeq DEF Top
      <4>2. p[k] = s[n] /\ p[k + 1] = f
        BY <1>4, <3>1
      <4> QED
        BY <4>1, <4>2
    <3>2. CASE k # n
      <4>1. k \in 1 .. n - 1 /\ k + 1 \in 1 .. n
        BY <1>3, <3>2
      <4> QED
        BY <1>4, <1>11, <4>1
    <3> QED
      BY <3>1, <3>2
  <2>2. \A k \in 1 .. n + 1 : FrameOK(p[k], P)
    BY <1>4, <1>5, <1>11
  <2>3. b # 0 => Awaits(p[b], x.root)
    <3>1. b # 0 => b \in 1 .. n
      BY <1>3
    <3> QED
      BY <1>4, <1>11, <3>1
  <2>4. Len(p) - 1 = n /\ b \in 0 .. Len(p)
    BY <1>3, <1>4
  <2> QED
    BY <1>4, <1>8, <1>9, <2>1, <2>2, <2>3, <2>4 DEF StackOK
<1>13. PhaseOK(x, P, p)
  <2>1. CASE x = Idle /\ P = {}
    BY <2>1 DEF PhaseOK
  <2>2. CASE Collecting(x, P, s)
    <3>1. PICK h \in 1 .. n :
            s[h].q = x.root /\ \A k \in 1 .. h - 1 : s[k].q \notin P
      BY <1>2, <2>2 DEF Collecting
    <3>2. h \in 1 .. n + 1 /\ \A k \in 1 .. h - 1 : k \in 1 .. n
      BY <1>3
    <3>3. p[h].q = x.root /\ \A k \in 1 .. h - 1 : p[k].q \notin P
      BY <1>4, <3>1, <3>2
    <3> QED
      BY <1>4, <2>2, <3>2, <3>3 DEF Collecting, PhaseOK
  <2>3. CASE Rerunning(x, P, s)
    <3>1. b < n
      BY <1>2, <2>3 DEF Rerunning
    <3>2. /\ \A k \in 1 .. b : k \in 1 .. n
          /\ b + 1 \in 1 .. n
      BY <1>3, <3>1
    <3>3. /\ \A k \in 1 .. b : s[k].q \notin P
          /\ x.i <= Len(x.members)
          /\ s[b + 1].mode = "body" /\ s[b + 1].q \in P
      BY <1>2, <2>3, <3>1 DEF Rerunning
    <3>4. /\ \A k \in 1 .. b : p[k].q \notin P
          /\ p[b + 1].mode = "body" /\ p[b + 1].q \in P
      BY <1>4, <3>2, <3>3
    <3> QED
      BY <1>2, <2>3, <3>3, <3>4 DEF Rerunning, PhaseOK
  <2>4. ~ Finalizing(x, P, s)
    BY DEF Finalizing
  <2> QED
    BY <2>1, <2>2, <2>3, <2>4 DEF Scene, PhaseOK
<1> QED
  BY <1>2, <1>10, <1>12, <1>13 DEF Scene

-----------------------------------------------------------------------------
(* What happens to a frame.                                                  *)

\* A frame that awaits a query of a FIXPOINT kind is of such a kind.
LEMMA AwaitsMember ==
    ASSUME OnlyMembersRead, NEW f \in Frame, NEW P, FrameOK(f, P),
           NEW q \in Fixpoint, Awaits(f, q)
    PROVE  f.q \in Fixpoint
<1> SUFFICES ASSUME f.q \notin Fixpoint
             PROVE  FALSE
  OBVIOUS
<1>1. /\ f.q \in Derived /\ f.mode \in {"walk", "body"}
      /\ f.i \in Nat \ {0} /\ f.n \in Nat /\ f.deps \in Seq(Dep)
      /\ f.mode = "walk" => f.n <= Len(f.deps)
  BY DEF Frame, FrameFields
<1>2. CASE f.mode = "body"
  <2>1. f.vals \in Seq(Results) /\ Len(f.vals) <= MaxReads
    BY DEF Frame, FrameFields, ValueSeqs
  <2>2. Len(f.vals) \in 0 .. MaxReads
    BY <2>1, ConstantsAssumption
  <2>3. f.vals \in [1 .. Len(f.vals) -> Results]
    BY <2>1
  <2>4. f.vals \in Stories
    BY <2>2, <2>3 DEF Stories
  <2>5. Body(f.q, f.vals).op = "read" /\ Body(f.q, f.vals).q = q
    BY <1>2 DEF Awaits, Upcoming
  <2> QED
    BY <1>1, <2>4, <2>5 DEF OnlyMembersRead
<1>3. CASE f.mode = "walk"
  <2>1. f.i <= f.n /\ f.deps[f.i].q = q
    BY <1>3 DEF Awaits
  <2>2. Len(f.deps) \in Nat
    BY <1>1
  <2>3. f.i \in 1 .. Len(f.deps)
    BY <1>1, <1>3, <2>1, <2>2
  <2> QED
    BY <2>1, <2>3 DEF FrameOK
<1> QED
  BY <1>1, <1>2, <1>3

\* A value handed over changes nothing of this.
LEMMA HandedOK ==
    ASSUME NEW f \in Frame, NEW P, FrameOK(f, P), NEW v
    PROVE  FrameOK(Handed(f, v), P)
<1> DEFINE g == Handed(f, v)
<1>1. /\ g.q = f.q /\ g.mode = f.mode /\ g.deps = f.deps /\ g.i = f.i
      /\ g.n = f.n /\ g.pulled = f.pulled
  BY HandedFields
<1> HIDE DEF g
<1> QED
  BY <1>1 DEF FrameOK, g

\* The queries of the entries a frame has are kept when another is recorded.
LEMMA EntriesKept ==
    ASSUME NEW f \in Frame, NEW q \in Queries,
           NEW x \in Results \cup {None}, NEW d \in Tiers
    PROVE  LET g == RecordDep(f, q, x, d)
           IN  /\ g.q = f.q /\ g.mode = f.mode /\ g.i = f.i /\ g.n = f.n
               /\ g.pulled = f.pulled /\ g.vals = f.vals
               /\ Len(f.deps) \in Nat /\ Len(g.deps) \in Nat
               /\ Len(f.deps) <= Len(g.deps)
               /\ \A k \in 1 .. Len(f.deps) : g.deps[k].q = f.deps[k].q
               /\ \A k \in 1 .. Len(g.deps) :
                    k \in 1 .. Len(f.deps) \/ g.deps[k].q = q
<1> DEFINE g == RecordDep(f, q, x, d)
           dep == [q |-> q, fp |-> x]
<1>1. f.deps \in Seq(Dep)
  BY DEF Frame, FrameFields
<1>2. Len(f.deps) \in Nat /\ DOMAIN f.deps = 1 .. Len(f.deps)
  BY <1>1, LenProperties
<1>3. /\ g.q = f.q /\ g.mode = f.mode /\ g.i = f.i /\ g.n = f.n
      /\ g.pulled = f.pulled /\ g.vals = f.vals
      /\ Indexed(f, q) = {} => g.deps = Append(f.deps, dep)
      /\ Indexed(f, q) # {} =>
           /\ Len(g.deps) = Len(f.deps)
           /\ \A k \in 1 .. Len(f.deps) :
                g.deps[k] = IF k \in Indexed(f, q) THEN dep ELSE f.deps[k]
  BY RecordedFields
<1> HIDE DEF g
<1>4. CASE Indexed(f, q) = {}
  <2>1. dep \in Dep
    BY DEF Dep
  <2>2. /\ Len(g.deps) = Len(f.deps) + 1
        /\ \A k \in 1 .. Len(f.deps) : g.deps[k] = f.deps[k]
        /\ g.deps[Len(f.deps) + 1] = dep
    BY <1>1, <1>2, <1>3, <1>4, <2>1
  <2>3. \A k \in 1 .. Len(f.deps) + 1 :
          k \in 1 .. Len(f.deps) \/ k = Len(f.deps) + 1
    BY <1>2
  <2>4. Len(g.deps) \in Nat /\ Len(f.deps) <= Len(g.deps)
    BY <1>2, <2>2
  <2> QED
    BY <1>2, <1>3, <2>2, <2>3, <2>4 DEF g
<1>5. CASE Indexed(f, q) # {}
  <2>1. \A k \in Indexed(f, q) : f.deps[k].q = q
    BY DEF Indexed
  <2>2. \A k \in 1 .. Len(f.deps) : g.deps[k].q = f.deps[k].q
    BY <1>3, <1>5, <2>1
  <2> QED
    BY <1>2, <1>3, <1>5, <2>2 DEF g
<1> QED
  BY <1>4, <1>5

\* A dependency is recorded on a frame.
LEMMA RecordedOK ==
    ASSUME NEW f \in Frame, NEW P, FrameOK(f, P), NEW q \in Queries,
           NEW x \in Results \cup {None}, NEW d \in Tiers,
           q \in Fixpoint => f.q \in Fixpoint
    PROVE  /\ FrameOK(RecordDep(f, q, x, d), P)
           /\ \A p : Awaits(f, p) => Awaits(RecordDep(f, q, x, d), p)
<1> DEFINE g == RecordDep(f, q, x, d)
<1>1. /\ g.q = f.q /\ g.mode = f.mode /\ g.i = f.i /\ g.n = f.n
      /\ g.pulled = f.pulled /\ g.vals = f.vals
  BY EntriesKept
<1>2. /\ Len(f.deps) \in Nat /\ Len(g.deps) \in Nat
      /\ Len(f.deps) <= Len(g.deps)
      /\ \A k \in 1 .. Len(f.deps) : g.deps[k].q = f.deps[k].q
      /\ \A k \in 1 .. Len(g.deps) : k \in 1 .. Len(f.deps) \/ g.deps[k].q = q
  BY EntriesKept
<1>3. /\ f.mode \in {"walk", "body"} /\ f.i \in Nat \ {0} /\ f.n \in Nat
      /\ f.mode = "walk" => f.n <= Len(f.deps)
  BY DEF Frame, FrameFields
<1>4. f.mode = "walk" /\ f.i <= f.n => g.deps[f.i].q = f.deps[f.i].q
  <2>1. f.mode = "walk" /\ f.i <= f.n => f.i \in 1 .. Len(f.deps)
    BY <1>2, <1>3
  <2> QED
    BY <1>2, <2>1
<1> HIDE DEF g
<1>5. FrameOK(g, P)
  <2>1. g.q \in P /\ g.mode = "walk" =>
          g.pulled /\ g.i <= g.n /\ g.deps[g.i].q \in P
    BY <1>1, <1>4 DEF FrameOK
  <2>2. g.q \notin Fixpoint =>
          \A k \in 1 .. Len(g.deps) : g.deps[k].q \notin Fixpoint
    BY <1>1, <1>2 DEF FrameOK
  <2> QED
    BY <2>1, <2>2 DEF FrameOK
<1>6. \A p : Awaits(f, p) => Awaits(g, p)
  <2> SUFFICES ASSUME NEW p, Awaits(f, p)
               PROVE  Awaits(g, p)
    OBVIOUS
  <2>1. CASE f.mode = "body"
    BY <1>1, <2>1 DEF Awaits, Upcoming
  <2>2. CASE f.mode = "walk"
    BY <1>1, <1>4, <2>2 DEF Awaits
  <2> QED
    BY <1>3, <2>1, <2>2
<1> QED
  BY <1>5, <1>6 DEF g

-----------------------------------------------------------------------------
(* What a call finds and leaves.                                             *)

\* The engine runs above the frames of the drive's callers.
LEMMA RunsAbove ==
    ASSUME XInv, EngineRuns
    PROVE  /\ scc.phase = "rerun" => Len(stack) > scc.base
           /\ scc.phase # "finalize"
           /\ stack # <<>> => Len(stack) > scc.base
           /\ stack # <<>> => Len(stack) \in Nat \ {0}
<1>1. Scene(stack, running, prov, scc)
  BY DEF XInv
<1>2. Len(stack) \in Nat /\ stack \in Seq(Frame)
  BY <1>1, SceneParts
<1>3. stack # <<>> => Len(stack) \in Nat \ {0}
  BY <1>2, TopIsFrame
<1>4. scc.phase \in {"idle", "collect"} => scc.base = 0
  BY <1>1 DEF Scene, PhaseOK, Collecting, Rerunning, Finalizing, Idle
<1>5. stack # <<>> => Len(stack) > scc.base
  <2>1. CASE scc.phase \in {"idle", "collect"}
    BY <1>3, <1>4, <2>1
  <2> QED
    BY <2>1 DEF EngineRuns
<1> QED
  BY <1>3, <1>5 DEF EngineRuns

\* The frame that calls.
LEMMA CallingOK ==
    ASSUME OnlyMembersRead, XInv, NEW q \in Queries, Calls(q), stack # <<>>
    PROVE  LET c == Calling(Top(stack), q)
           IN  /\ c \in Frame /\ c.q = Top(stack).q /\ c.mode = Top(stack).mode
               /\ Awaits(c, q) /\ FrameOK(c, prov)
               /\ q \in Fixpoint => c.q \in Fixpoint
<1> DEFINE t == Top(stack)
           c == Calling(t, q)
<1>1. TypeOK /\ Scene(stack, running, prov, scc)
  BY DEF XInv
<1>2. /\ stack \in Seq(Frame) /\ Len(stack) \in Nat \ {0} /\ t \in Frame
      /\ Len(stack) \in 1 .. Len(stack)
  BY <1>1, SceneParts, TopIsFrame
<1>3. FrameOK(t, prov)
  BY <1>1, <1>2 DEF Scene, StackOK, Top
<1>4. /\ Caller(q) \in Seq(Frame) /\ Caller(q) # <<>>
      /\ Top(Caller(q)) = c /\ Awaits(c, q)
  BY <1>1, CallerTop
<1>5. c \in Frame
  BY <1>4, TopIsFrame
<1>6. /\ c.q = t.q /\ c.mode = t.mode /\ c.deps = t.deps
      /\ c.i = t.i /\ c.n = t.n
  BY <1>2, CallingFields
<1>7. ~ (t.q \in prov /\ t.mode = "walk")
  <2> SUFFICES ASSUME t.q \in prov, t.mode = "walk"
               PROVE  FALSE
    OBVIOUS
  <2>1. t.pulled
    BY <1>3 DEF FrameOK
  <2> QED
    BY <2>1 DEF Calls, ConsumerCalls, BodyCalls, WalkCalls
<1> HIDE DEF c, t
<1>8. FrameOK(c, prov)
  BY <1>3, <1>6, <1>7 DEF FrameOK
<1>9. q \in Fixpoint => c.q \in Fixpoint
  BY <1>4, <1>5, <1>8, AwaitsMember
<1> QED
  BY <1>4, <1>5, <1>6, <1>8, <1>9 DEF c, t

\* The caller, as the callee finds it.
LEMMA CallerScene ==
    ASSUME OnlyMembersRead, XInv, EngineRuns, NEW q \in Queries, Calls(q)
    PROVE  /\ Scene(Caller(q), running, prov, scc)
           /\ Holds(Caller(q)) = Holds(stack)
           /\ Caller(q) # <<>> => Awaits(Top(Caller(q)), q)
           /\ stack = <<>> <=> Caller(q) = <<>>
           /\ Len(Caller(q)) = Len(stack)
<1>1. TypeOK /\ Scene(stack, running, prov, scc)
  BY DEF XInv
<1>2. CASE stack = <<>>
  BY <1>1, <1>2 DEF Caller
<1>3. CASE stack # <<>>
  <2> DEFINE c == Calling(Top(stack), q)
  <2>1. /\ Caller(q) \in Seq(Frame) /\ Caller(q) # <<>>
        /\ Len(Caller(q)) = Len(stack) /\ Top(Caller(q)) = c /\ Awaits(c, q)
        /\ \A k \in 1 .. Len(stack) :
             Caller(q)[k] = IF k = Len(stack) THEN c ELSE stack[k]
    BY <1>1, <1>3, CallerTop
  <2>2. /\ c \in Frame /\ c.q = Top(stack).q /\ c.mode = Top(stack).mode
        /\ FrameOK(c, prov)
    BY <1>3, CallingOK
  <2> HIDE DEF c
  <2>3. Len(stack) > scc.base
    BY <1>3, RunsAbove
  <2>4. Top(stack).mode = "body" => Top(stack).q \in running
    <3>1. BodiesIn(stack, running)
      BY <1>1 DEF Scene, StackOK
    <3>2. Len(stack) \in DOMAIN stack
      BY <1>1, <1>3, RunsAbove, SceneParts
    <3> QED
      BY <3>1, <3>2 DEF BodiesIn, Top
  <2>5. \A k \in 1 .. Len(stack) : k # Len(stack) => Caller(q)[k] = stack[k]
    BY <2>1
  <2>6. Scene(Caller(q), running, prov, scc) /\ Holds(Caller(q)) = Holds(stack)
    <3> DEFINE u == Caller(q)
    <3>1. /\ Top(u).q = Top(stack).q /\ Top(u).mode = Top(stack).mode
          /\ FrameOK(Top(u), prov)
      BY <2>1, <2>2
    <3> HIDE DEF u
    <3>2. u \in Seq(Frame) /\ Len(u) = Len(stack)
      BY <2>1 DEF u
    <3>3. \A k \in 1 .. Len(stack) : k # Len(stack) => u[k] = stack[k]
      BY <2>5 DEF u
    <3>4. Scene(u, running, prov, scc) /\ Holds(u) = Holds(stack)
      BY <1>1, <2>3, <2>4, <3>1, <3>2, <3>3, SceneTop
    <3> QED
      BY <3>4 DEF u
  <2> QED
    BY <1>3, <2>1, <2>6
<1> QED
  BY <1>2, <1>3

\* A value is handed to the frame on top, which awaits it.
LEMMA HandedScene ==
    ASSUME NEW s, NEW R, NEW P, NEW x, Scene(s, R, P, x), NEW q,
           s # <<>> => Len(s) > x.base /\ Awaits(Top(s), q),
           NEW v \in Results
    PROVE  Scene(ReturnTo(s, v), R, P, x) /\ Holds(ReturnTo(s, v)) = Holds(s)
<1>1. CASE s = <<>>
  BY <1>1 DEF ReturnTo
<1>2. CASE s # <<>>
  <2> DEFINE u == ReturnTo(s, v)
  <2>1. s \in Seq(Frame)
    BY SceneParts
  <2>2. Top(s) \in Frame /\ Len(s) \in Nat \ {0}
    BY <1>2, <2>1, TopIsFrame
  <2>3. u \in Seq(Frame)
    BY <1>2, <2>1, AwaitsReceptive, ReturnToShape
  <2>4. /\ Len(u) = Len(s)
        /\ \A k \in 1 .. Len(s) :
             u[k] = IF k = Len(s) THEN Handed(Top(s), v) ELSE s[k]
    BY <1>2, <2>1, ReturnedTop
  <2>5. Top(u) = Handed(Top(s), v)
    <3>1. Len(s) \in 1 .. Len(s)
      BY <2>2
    <3> QED
      BY <2>4, <3>1 DEF Top
  <2>6. FrameOK(Top(s), P) /\ BodiesIn(s, R) /\ Len(s) \in DOMAIN s
    <3>1. Len(s) \in 1 .. Len(s) /\ DOMAIN s = 1 .. Len(s)
      BY <2>1, <2>2, LenProperties
    <3> QED
      BY <3>1 DEF Scene, StackOK, Top
  <2>7. /\ Top(u).q = Top(s).q /\ Top(u).mode = Top(s).mode
        /\ FrameOK(Top(u), P)
    BY <2>2, <2>5, <2>6, HandedFields, HandedOK
  <2>8. Top(s).mode = "body" => Top(s).q \in R
    BY <2>6 DEF BodiesIn, Top
  <2> HIDE DEF u
  <2>9. \A k \in 1 .. Len(s) : k # Len(s) => u[k] = s[k]
    BY <2>4
  <2>10. Scene(u, R, P, x) /\ Holds(u) = Holds(s)
    BY <1>2, <2>3, <2>4, <2>7, <2>8, <2>9, SceneTop
  <2> QED
    BY <2>10 DEF u
<1> QED
  BY <1>1, <1>2

\* The frame on top records the dependency it awaits.
LEMMA RecordedScene ==
    ASSUME OnlyMembersRead, NEW s, NEW R, NEW P, NEW x, Scene(s, R, P, x),
           NEW q \in Queries, s # <<>> => Len(s) > x.base /\ Awaits(Top(s), q),
           NEW y \in Results \cup {None}, NEW d \in Tiers
    PROVE  LET u == RecordOnParent(s, q, y, d)
           IN  /\ Scene(u, R, P, x) /\ Holds(u) = Holds(s) /\ Len(u) = Len(s)
               /\ u # <<>> => Len(u) > x.base /\ Awaits(Top(u), q)
<1>1. CASE s = <<>>
  BY <1>1 DEF RecordOnParent
<1>2. CASE s # <<>>
  <2> DEFINE u == RecordOnParent(s, q, y, d)
             g == RecordDep(Top(s), q, y, d)
  <2>1. s \in Seq(Frame)
    BY SceneParts
  <2>2. Top(s) \in Frame /\ Len(s) \in Nat \ {0}
    BY <1>2, <2>1, TopIsFrame
  <2>3. FrameOK(Top(s), P) /\ BodiesIn(s, R) /\ Len(s) \in DOMAIN s
    <3>1. Len(s) \in 1 .. Len(s) /\ DOMAIN s = 1 .. Len(s)
      BY <2>1, <2>2, LenProperties
    <3> QED
      BY <3>1 DEF Scene, StackOK, Top
  <2>4. q \in Fixpoint => Top(s).q \in Fixpoint
    BY <1>2, <2>2, <2>3, AwaitsMember
  <2>5. g \in Frame /\ g.q = Top(s).q /\ g.mode = Top(s).mode
    BY <2>2, RecordDepFrame
  <2>6. FrameOK(g, P) /\ Awaits(g, q)
    BY <1>2, <2>2, <2>3, <2>4, RecordedOK
  <2>7. u = OnTop(s, g)
    BY <1>2 DEF RecordOnParent
  <2> HIDE DEF g
  <2>8. /\ OnTop(s, g) \in Seq(Frame) /\ SameButTop(s, OnTop(s, g))
        /\ Top(OnTop(s, g)) = g
    BY <1>2, <2>1, <2>5, OnTopFrame
  <2>9. u \in Seq(Frame) /\ Top(u) = g /\ Len(u) = Len(s)
    BY <2>7, <2>8 DEF SameButTop
  <2>10. \A k \in 1 .. Len(s) : k # Len(s) => u[k] = s[k]
    BY <2>2, <2>7, <2>8 DEF SameButTop
  <2>11. Top(s).mode = "body" => Top(s).q \in R
    BY <2>3 DEF BodiesIn, Top
  <2> HIDE DEF u
  <2>12. Scene(u, R, P, x) /\ Holds(u) = Holds(s)
    BY <1>2, <2>5, <2>6, <2>9, <2>10, <2>11, SceneTop
  <2> QED
    BY <1>2, <2>6, <2>9, <2>12 DEF u
<1> QED
  BY <1>1, <1>2

-----------------------------------------------------------------------------
(* The steps of the engine.                                                  *)

\* The invariant without what is recorded in memos.
Core ==
    /\ TypeOK
    /\ prov \subseteq Fixpoint /\ SccRecord(scc)
    /\ Scene(stack, running, prov, scc)
    /\ RunOK(state, stack, running, cancel, prov)
    /\ Rest(req, state, stack, scc)

\* The same in the next state, in the direction the step lemmas need.
LEMMA CorePrime ==
    ASSUME TypeOK', prov' \subseteq Fixpoint, SccRecord(scc'),
           Scene(stack', running', prov', scc'),
           RunOK(state', stack', running', cancel', prov'),
           Rest(req', state', stack', scc')
    PROVE  Core'
BY DEF Core, SccRecord, Scene, StackOK, PhaseOK, Collecting, Rerunning,
       Finalizing, RunOK, Rest, FrameOK, Idle, Enrolled, Simple, BodiesIn, Holds,
       Awaits, Upcoming

\* Memos and inputs added.
LEMMA XInvPrime ==
    ASSUME Core', DepsOK(deps'), InputsAreAuthoritative'
    PROVE  XInv'
BY DEF XInv, Core, DepsOK

\* Calls are made within a request.
LEMMA CalledWithin ==
    ASSUME XInv, NEW q \in Queries, Calls(q)
    PROVE  req # 0
<1>1. CASE stack = <<>>
  BY <1>1 DEF Calls, ConsumerCalls, BodyCalls, WalkCalls
<1>2. CASE stack # <<>>
  BY <1>2 DEF XInv, Rest
<1> QED
  BY <1>1, <1>2

\* What is known of the top frame.
LEMMA TopKnown ==
    ASSUME XInv, stack # <<>>
    PROVE  /\ Top(stack) \in Frame
           /\ Top(stack).q \in Queries /\ Top(stack).q \in Derived
           /\ Top(stack).q \notin Inputs
           /\ Top(stack).q \in Holds(stack)
           /\ state[Top(stack).q] = "RUNNING"
           /\ Top(stack).mode = "body" => Top(stack).q \in running
           /\ FrameOK(Top(stack), prov)
           /\ req # 0 /\ Len(stack) \in Nat \ {0}
<1>1. Scene(stack, running, prov, scc)
  BY DEF XInv
<1>2. /\ stack \in Seq(Frame) /\ DOMAIN stack = 1 .. Len(stack)
  BY <1>1, SceneParts
<1>3. Top(stack) \in Frame /\ Len(stack) \in Nat \ {0}
  BY <1>2, TopIsFrame
<1>4. Len(stack) \in 1 .. Len(stack)
  BY <1>3
<1>5. /\ Top(stack).q \in Holds(stack) /\ FrameOK(Top(stack), prov)
      /\ Top(stack).mode = "body" => Top(stack).q \in running
  BY <1>1, <1>2, <1>4 DEF Top, Holds, Scene, StackOK, BodiesIn
<1>6. state[Top(stack).q] = "RUNNING"
  BY <1>5 DEF XInv, RunOK
<1>7. /\ Top(stack).q \in Queries /\ Top(stack).q \in Derived
      /\ Top(stack).q \notin Inputs
  BY <1>3, ConstantsAssumption DEF Frame, FrameFields, Queries
<1>8. req # 0
  BY DEF XInv, Rest
<1> QED
  BY <1>3, <1>5, <1>6, <1>7, <1>8

\* db_query_begin answers a cancelled call or one that finds a RUNNING slot.
LEMMA HandBackStep ==
    ASSUME OnlyMembersRead, XInv, EngineRuns, NEW q \in Queries, Calls(q),
           NEW v \in Results, HandBack(q, v), UNCHANGED <<prov, scc>>
    PROVE  Core'
<1> USE DEF slotVars, revVars
<1>1. /\ stack' = ReturnTo(Caller(q), v)
      /\ answer' = AnswerOf(stack, q, v)
      /\ UNCHANGED <<slotVars, revVars, cancel, running>>
  BY DEF HandBack
<1>2. /\ Scene(Caller(q), running, prov, scc)
      /\ Holds(Caller(q)) = Holds(stack)
      /\ Caller(q) # <<>> => Awaits(Top(Caller(q)), q)
      /\ stack = <<>> <=> Caller(q) = <<>>
      /\ Len(Caller(q)) = Len(stack)
  BY CallerScene
<1>3. Caller(q) # <<>> => Len(Caller(q)) > scc.base
  BY <1>2, RunsAbove
<1>4. Scene(stack', running, prov, scc) /\ Holds(stack') = Holds(stack)
  BY <1>1, <1>2, <1>3, HandedScene
<1>5. Scene(stack', running', prov', scc')
  BY <1>1, <1>4
<1>6. TypeOK'
  <2>1. stack' \in Seq(Frame)
    BY <1>4, SceneParts
  <2>2. answer' \in [q : Queries \cup {None}, val : Results \cup {None}]
    BY <1>1, AnswerType DEF XInv
  <2> QED
    BY <1>1, <2>1, <2>2 DEF XInv, TypeOK
<1>7. RunOK(state', stack', running', cancel', prov')
  BY <1>1, <1>4 DEF XInv, RunOK
<1>8. Rest(req', state', stack', scc')
  BY <1>1, CalledWithin DEF Rest
<1>9. prov' \subseteq Fixpoint /\ SccRecord(scc')
  BY DEF XInv
<1> QED
  BY <1>5, <1>6, <1>7, <1>8, <1>9, CorePrime

\* The memo answers.
LEMMA HitStep ==
    ASSUME OnlyMembersRead, XInv, EngineRuns, NEW q \in Queries, BeginHit(q),
           UNCHANGED <<prov, scc>>
    PROVE  Core'
<1> USE DEF slotVars, revVars
<1> DEFINE w == RecordOnParent(Caller(q), q, fp[q], dur[q])
<1>1. /\ Calls(q)
      /\ vrev' = [vrev EXCEPT ![q] = Effective]
      /\ stack' = ReturnTo(w, CachedValue(q))
      /\ answer' = AnswerOf(stack, q, CachedValue(q))
      /\ UNCHANGED <<state, fp, dur, deps, column, revVars, cancel, running>>
  BY DEF BeginHit
<1>2. /\ CachedValue(q) \in Results /\ fp[q] \in Results \cup {None}
      /\ dur[q] \in Tiers
  BY DEF XInv, TypeOK, CachedValue, Results
<1>3. /\ Scene(Caller(q), running, prov, scc)
      /\ Holds(Caller(q)) = Holds(stack)
      /\ Caller(q) # <<>> => Awaits(Top(Caller(q)), q)
      /\ stack = <<>> <=> Caller(q) = <<>>
      /\ Len(Caller(q)) = Len(stack)
  BY <1>1, CallerScene
<1>4. Caller(q) # <<>> => Len(Caller(q)) > scc.base
  BY <1>3, RunsAbove
<1>5. /\ Scene(w, running, prov, scc) /\ Holds(w) = Holds(Caller(q))
      /\ w # <<>> => Len(w) > scc.base /\ Awaits(Top(w), q)
  BY <1>2, <1>3, <1>4, RecordedScene
<1> HIDE DEF w
<1>6. Scene(stack', running, prov, scc) /\ Holds(stack') = Holds(stack)
  BY <1>1, <1>2, <1>3, <1>5, HandedScene
<1>7. Scene(stack', running', prov', scc')
  BY <1>1, <1>6
<1>8. TypeOK'
  <2>1. stack' \in Seq(Frame)
    BY <1>6, SceneParts
  <2>2. answer' \in [q : Queries \cup {None}, val : Results \cup {None}]
    BY <1>1, <1>2, AnswerType DEF XInv
  <2>3. vrev' \in [Queries -> 0 .. cur']
    BY <1>1 DEF XInv, TypeOK, Effective
  <2> QED
    BY <1>1, <2>1, <2>2, <2>3 DEF XInv, TypeOK
<1>9. RunOK(state', stack', running', cancel', prov')
  BY <1>1, <1>6 DEF XInv, RunOK
<1>10. Rest(req', state', stack', scc')
  BY <1>1, CalledWithin DEF Rest
<1>11. prov' \subseteq Fixpoint /\ SccRecord(scc')
  BY DEF XInv
<1> QED
  BY <1>7, <1>8, <1>9, <1>10, <1>11, CorePrime

\* A new frame.
LEMMA NewFrameOK ==
    ASSUME XInv, NEW q \in Derived, state[q] # "RUNNING",
           NEW mode \in {"walk", "body"}, NEW prev \in {"DONE", "ERROR", "EMPTY"}
    PROVE  LET f == NewFrame(q, mode, prev)
           IN  f \in Frame /\ f.q = q /\ f.mode = mode /\ FrameOK(f, prov)
<1> DEFINE f == NewFrame(q, mode, prev)
<1>1. <<>> \in ValueSeqs
  BY ConstantsAssumption DEF ValueSeqs
<1>2. deps[q] \in Seq(Dep)
  BY DEF XInv, TypeOK, Queries
<1>3. f \in Frame /\ f.q = q /\ f.mode = mode /\ f.deps = deps[q]
  BY <1>1, <1>2 DEF NewFrame, Frame, FrameFields, Tiers, DUR_LOW, DUR_HIGH
<1>4. q \notin prov
  BY DEF XInv, RunOK
<1>5. q \notin Fixpoint =>
        \A k \in 1 .. Len(deps[q]) : deps[q][k].q \notin Fixpoint
  BY DEF XInv, DepsOK
<1> HIDE DEF f
<1>6. FrameOK(f, prov)
  BY <1>3, <1>4, <1>5 DEF FrameOK
<1> QED
  BY <1>3, <1>6 DEF f

\* A frame is pushed and its slot is RUNNING.
LEMMA PushStep ==
    ASSUME OnlyMembersRead, XInv, EngineRuns, NEW q \in Queries, Calls(q),
           state[q] # "RUNNING", q \in Derived,
           NEW mode \in {"walk", "body"}, NEW prev \in {"DONE", "ERROR", "EMPTY"},
           state' = [state EXCEPT ![q] = "RUNNING"],
           stack' = Append(Caller(q), NewFrame(q, mode, prev)),
           running \subseteq running', running' \subseteq Queries,
           mode = "body" => q \in running',
           vrev' \in [Queries -> 0 .. cur], column' \in [Queries -> Results],
           UNCHANGED <<fp, dur, deps, revVars, cancel, answer, prov, scc>>
    PROVE  Core'
<1> USE DEF revVars
<1> DEFINE f == NewFrame(q, mode, prev)
<1>1. f \in Frame /\ f.q = q /\ f.mode = mode /\ FrameOK(f, prov)
  BY NewFrameOK
<1>2. /\ Scene(Caller(q), running, prov, scc)
      /\ Holds(Caller(q)) = Holds(stack)
      /\ Caller(q) # <<>> => Awaits(Top(Caller(q)), q)
      /\ Len(Caller(q)) = Len(stack)
  BY CallerScene
<1>3. q \notin Holds(stack) /\ q \notin prov
  BY DEF XInv, RunOK
<1> HIDE DEF f
<1>4. /\ Scene(Append(Caller(q), f), running', prov, scc)
      /\ Holds(Append(Caller(q), f)) = Holds(Caller(q)) \cup {f.q}
  <2>1. PICK s, R2 : s = Caller(q) /\ R2 = running'
    OBVIOUS
  <2>2. /\ Scene(s, R2, prov, scc) /\ f.q \notin Holds(s)
        /\ s # <<>> => Awaits(Top(s), f.q)
        /\ f.mode = "body" => f.q \in R2
    BY <1>1, <1>2, <1>3, <2>1, SceneMore
  <2>3. /\ scc.phase = "rerun" => Len(s) > scc.base
        /\ scc.phase # "finalize"
    BY <1>2, <2>1, RunsAbove
  <2>4. /\ Scene(Append(s, f), R2, prov, scc)
        /\ Holds(Append(s, f)) = Holds(s) \cup {f.q}
    BY <1>1, <2>2, <2>3, ScenePush
  <2> QED
    BY <2>1, <2>4
<1>5. /\ Scene(stack', running', prov', scc')
      /\ Holds(stack') = Holds(stack) \cup {q}
  BY <1>1, <1>2, <1>4 DEF f
<1>6. TypeOK'
  <2>1. stack' \in Seq(Frame)
    BY <1>5, SceneParts
  <2>2. state' \in [Queries -> SlotStates]
    BY DEF XInv, TypeOK, SlotStates
  <2>3. vrev' \in [Queries -> 0 .. cur']
    OBVIOUS
  <2> QED
    BY <2>1, <2>2, <2>3 DEF XInv, TypeOK
<1>7. RunOK(state', stack', running', cancel', prov')
  <2>1. RunOK(state, stack, running, cancel, prov)
    BY DEF XInv
  <2>2. /\ state'[q] = "RUNNING" /\ \A p \in Queries : p # q => state'[p] = state[p]
    BY DEF XInv, TypeOK
  <2>3. Holds(stack) \cup prov \subseteq Queries
    <3>1. Scene(stack, running, prov, scc)
      BY DEF XInv
    <3>2. \A k \in DOMAIN stack : stack[k] \in Frame
      BY <3>1, SceneParts
    <3>3. Holds(stack) \subseteq Queries
      BY <3>2 DEF Holds, Frame, FrameFields, Queries
    <3>4. prov \subseteq Queries
      BY FixpointAssumption DEF XInv, Queries
    <3> QED
      BY <3>3, <3>4
  <2> QED
    BY <1>5, <2>1, <2>2, <2>3 DEF RunOK
<1>8. Rest(req', state', stack', scc')
  BY CalledWithin DEF Rest
<1>9. prov' \subseteq Fixpoint /\ SccRecord(scc')
  BY DEF XInv
<1> QED
  BY <1>5, <1>6, <1>7, <1>8, <1>9, CorePrime

\* db_query_begin starts to compute or to walk.
LEMMA BeginStep ==
    ASSUME OnlyMembersRead, XInv, EngineRuns, NEW q \in Queries,
           BeginEmpty(q) \/ BeginWalk(q), UNCHANGED <<prov, scc>>
    PROVE  Core'
<1>1. q \in Derived
  BY FrameIsDerived DEF XInv, BeginEmpty, BeginWalk
<1>2. CASE BeginEmpty(q)
  <2>1. /\ Calls(q) /\ state[q] \in {"EMPTY", "ABSENT"}
        /\ state' = [state EXCEPT ![q] = "RUNNING"]
        /\ vrev' \in {vrev, [vrev EXCEPT ![q] = 0]}
        /\ column' \in {column, [column EXCEPT ![q] = Bottom]}
        /\ stack' = Append(Caller(q), NewFrame(q, "body", "EMPTY"))
        /\ running' = running \cup {q}
        /\ UNCHANGED <<fp, dur, deps, revVars, cancel, answer>>
    BY <1>2 DEF BeginEmpty
  <2>2. vrev' \in [Queries -> 0 .. cur]
    <3>1. vrev \in [Queries -> 0 .. cur] /\ cur \in Nat
      BY DEF XInv, TypeOK
    <3>2. [vrev EXCEPT ![q] = 0] \in [Queries -> 0 .. cur]
      BY <3>1
    <3> QED
      BY <2>1, <3>1, <3>2
  <2>3. column' \in [Queries -> Results]
    <3>1. column \in [Queries -> Results] /\ Bottom \in Results
      BY DEF XInv, TypeOK, Results
    <3> QED
      BY <2>1, <3>1
  <2>4. /\ state[q] # "RUNNING" /\ running \subseteq running'
        /\ q \in running' /\ running' \subseteq Queries
    BY <2>1 DEF XInv, TypeOK
  <2> QED
    BY <1>1, <2>1, <2>2, <2>3, <2>4, PushStep
<1>3. CASE BeginWalk(q)
  <2>1. /\ Calls(q) /\ state[q] \in {"DONE", "ERROR"}
        /\ state' = [state EXCEPT ![q] = "RUNNING"]
        /\ stack' = Append(Caller(q), NewFrame(q, "walk", state[q]))
        /\ UNCHANGED <<fp, vrev, dur, deps, column, revVars, cancel, running,
                       answer>>
    BY <1>3 DEF BeginWalk
  <2>2. /\ vrev' \in [Queries -> 0 .. cur] /\ column' \in [Queries -> Results]
        /\ running \subseteq running' /\ running' \subseteq Queries
    BY <2>1 DEF XInv, TypeOK
  <2>3. state[q] # "RUNNING" /\ state[q] \in {"DONE", "ERROR", "EMPTY"}
    BY <2>1
  <2> QED
    BY <1>1, <2>1, <2>2, <2>3, PushStep
<1> QED
  BY <1>2, <1>3

\* The top frame is replaced by one of the same query.
LEMMA TopStep ==
    ASSUME XInv, EngineRuns, stack # <<>>, NEW f \in Frame,
           f.q = Top(stack).q, stack' = OnTop(stack, f),
           Top(stack).mode = "body" => f.mode = "body",
           f.mode = "body" => f.q \in running', FrameOK(f, prov),
           running \subseteq running', running' \subseteq Queries,
           fp' \in [Queries -> Results \cup {None}],
           UNCHANGED <<state, vrev, dur, deps, column, revVars, cancel, answer,
                       prov, scc>>
    PROVE  Core'
<1> USE DEF revVars
<1>1. PICK t, R2 : t = stack' /\ R2 = running'
  OBVIOUS
<1>2. Scene(stack, running, prov, scc) /\ stack \in Seq(Frame)
  BY SceneParts DEF XInv
<1>3. Len(stack) \in Nat \ {0} /\ Len(stack) \in 1 .. Len(stack)
  BY <1>2, TopIsFrame
<1>4. /\ t \in Seq(Frame) /\ Len(t) = Len(stack)
      /\ \A j \in 1 .. Len(stack) : t[j] = IF j = Len(stack) THEN f ELSE stack[j]
  BY <1>1, <1>2, <1>3, ExceptSeq DEF OnTop
<1>5. Top(t) = f
  BY <1>3, <1>4 DEF Top
<1>6. \A k \in 1 .. Len(stack) : k # Len(stack) => t[k] = stack[k]
  BY <1>4
<1>7. Len(stack) > scc.base
  BY RunsAbove
<1>8. Scene(t, R2, prov, scc) /\ Holds(t) = Holds(stack)
  <2>1. Scene(stack, R2, prov, scc) /\ (f.mode = "body" => f.q \in R2)
    BY <1>1, <1>2, SceneMore
  <2> QED
    BY <1>4, <1>5, <1>6, <1>7, <2>1, SceneTop
<1>9. Scene(stack', running', prov', scc') /\ Holds(stack') = Holds(stack)
  BY <1>1, <1>8
<1>10. TypeOK'
  <2>1. stack' \in Seq(Frame)
    BY <1>1, <1>4
  <2> QED
    BY <2>1 DEF XInv, TypeOK
<1>11. RunOK(state', stack', running', cancel', prov')
  BY <1>9 DEF XInv, RunOK
<1>12. Rest(req', state', stack', scc')
  BY TopKnown DEF Rest
<1>13. prov' \subseteq Fixpoint /\ SccRecord(scc')
  BY DEF XInv
<1> QED
  BY <1>9, <1>10, <1>11, <1>12, <1>13, CorePrime

\* The walk goes on, which the walk of a member cannot: what it has pulled is
\* RUNNING.  Or it fails and the frame becomes a body.
LEMMA WalkStep ==
    ASSUME XInv, EngineRuns, WalkNext \/ WalkFail, UNCHANGED <<prov, scc>>
    PROVE  Core'
<1> DEFINE t == Top(stack)
<1>1. AtDep /\ stack # <<>> /\ t.mode = "walk"
  BY DEF WalkNext, WalkFail, AtDep, Walking
<1>2. /\ t \in Frame /\ t.q \in Queries /\ FrameOK(t, prov)
  BY <1>1, TopKnown
<1>3. CASE WalkNext
  <2> DEFINE f == [t EXCEPT !.i = @ + 1, !.pulled = FALSE]
  <2>1. /\ DepHolds /\ stack' = OnTop(stack, f)
        /\ UNCHANGED <<slotVars, revVars, cancel, running, answer>>
    BY <1>3 DEF WalkNext
  <2>2. t.q \notin prov
    <3> SUFFICES ASSUME t.q \in prov
                 PROVE  FALSE
      OBVIOUS
    <3>1. t.deps[t.i].q \in prov
      BY <1>1, <1>2 DEF FrameOK
    <3>2. state[t.deps[t.i].q] = "RUNNING"
      BY <3>1 DEF XInv, RunOK
    <3> QED
      BY <2>1, <3>2 DEF DepHolds
  <2>3. f \in Frame /\ f.q = t.q /\ f.mode = "walk" /\ f.deps = t.deps
    <3>1. t.i \in Nat \ {0}
      BY <1>2 DEF Frame, FrameFields
    <3>2. t.i + 1 \in Nat \ {0}
      BY <3>1
    <3> QED
      BY <1>1, <1>2, <3>2 DEF Frame, FrameFields
  <2> HIDE DEF f
  <2>4. FrameOK(f, prov)
    BY <1>2, <2>2, <2>3 DEF FrameOK
  <2>5. /\ running' \subseteq Queries /\ running \subseteq running'
        /\ fp' \in [Queries -> Results \cup {None}]
        /\ UNCHANGED <<state, vrev, dur, deps, column, revVars, cancel, answer>>
    BY <2>1 DEF XInv, TypeOK, slotVars
  <2> QED
    BY <1>1, <2>1, <2>3, <2>4, <2>5, TopStep
<1>4. CASE WalkFail
  <2> DEFINE f == [t EXCEPT !.mode = "body", !.deps = <<>>, !.pulled = FALSE]
  <2>1. /\ stack' = OnTop(stack, f)
        /\ fp' = [fp EXCEPT ![t.q] = None]
        /\ running' = running \cup {t.q}
        /\ UNCHANGED <<state, vrev, dur, deps, column, revVars, cancel, answer>>
    BY <1>4 DEF WalkFail
  <2>2. f \in Frame /\ f.q = t.q /\ f.mode = "body" /\ f.deps = <<>>
    <3>1. <<>> \in Seq(Dep)
      OBVIOUS
    <3> QED
      BY <1>2, <3>1 DEF Frame, FrameFields
  <2> HIDE DEF f
  <2>3. FrameOK(f, prov)
    BY <2>2 DEF FrameOK
  <2>4. /\ running' \subseteq Queries /\ running \subseteq running'
        /\ fp' \in [Queries -> Results \cup {None}] /\ t.q \in running'
    BY <1>2, <2>1 DEF XInv, TypeOK
  <2> QED
    BY <1>1, <2>1, <2>2, <2>3, <2>4, TopStep
<1> QED
  BY <1>3, <1>4

\* The top frame may return without ending the first run of the root or the
\* rerun of a member.
Free == /\ scc.phase = "collect" => Top(stack).q # scc.root
        /\ scc.phase = "rerun" => Len(stack) # scc.base + 1

\* So may every frame that is not enrolled.
LEMMA OthersAreFree ==
    ASSUME XInv, stack # <<>>, Top(stack).q \notin prov
    PROVE  Free
<1>1. PhaseOK(scc, prov, stack)
  BY DEF XInv, Scene
<1>2. scc.phase = "collect" => scc.root \in prov
  BY <1>1 DEF PhaseOK, Idle, Collecting, Rerunning, Finalizing
<1>3. Len(stack) \in Nat \ {0}
  BY TopKnown
<1>4. scc.phase = "rerun" => Len(stack) # scc.base + 1
  <2> SUFFICES ASSUME scc.phase = "rerun", Len(stack) = scc.base + 1
               PROVE  FALSE
    OBVIOUS
  <2>1. scc.base \in 0 .. Len(stack)
    BY SceneParts DEF XInv
  <2>2. Rerunning(scc, prov, stack) /\ Len(stack) > scc.base
    BY <1>1, <1>3, <2>1 DEF PhaseOK, Idle, Collecting, Finalizing
  <2>3. stack[scc.base + 1].q \in prov
    BY <2>2 DEF Rerunning
  <2> QED
    BY <2>3 DEF Top
<1> QED
  BY <1>2, <1>4 DEF Free

\* The caller that the top frame returns to.
LEMMA ReturnScene ==
    ASSUME OnlyMembersRead, XInv, EngineRuns, stack # <<>>, Free,
           NEW v \in Results
    PROVE  LET q == Top(stack).q
               u == ReturnTo(Popped(stack), v)
           IN  Scene(u, running, prov, scc) /\ Holds(u) = Holds(stack) \ {q}
<1>1. PICK p, q : p = Popped(stack) /\ q = Top(stack).q
  OBVIOUS
<1>2. /\ Scene(p, running, prov, scc) /\ Holds(p) = Holds(stack) \ {q}
      /\ p # <<>> => Awaits(Top(p), q) /\ Len(p) > scc.base
  BY <1>1, ScenePop, RunsAbove DEF XInv, Free
<1>3. Scene(ReturnTo(p, v), running, prov, scc) /\ Holds(ReturnTo(p, v)) = Holds(p)
  BY <1>2, HandedScene
<1> QED
  BY <1>1, <1>2, <1>3

\* ... and records it.
LEMMA RecordReturnScene ==
    ASSUME OnlyMembersRead, XInv, EngineRuns, stack # <<>>, Free,
           NEW v \in Results, NEW y \in Results \cup {None}, NEW d \in Tiers
    PROVE  LET q == Top(stack).q
               u == ReturnTo(RecordOnParent(Popped(stack), q, y, d), v)
           IN  Scene(u, running, prov, scc) /\ Holds(u) = Holds(stack) \ {q}
<1>1. PICK p, q : p = Popped(stack) /\ q = Top(stack).q
  OBVIOUS
<1>2. /\ Scene(p, running, prov, scc) /\ Holds(p) = Holds(stack) \ {q}
      /\ p # <<>> => Awaits(Top(p), q) /\ Len(p) > scc.base
  BY <1>1, ScenePop, RunsAbove DEF XInv, Free
<1>3. q \in Queries
  BY <1>1, TopKnown
<1> DEFINE w == RecordOnParent(p, q, y, d)
<1>4. /\ Scene(w, running, prov, scc) /\ Holds(w) = Holds(p)
      /\ w # <<>> => Len(w) > scc.base /\ Awaits(Top(w), q)
  BY <1>2, <1>3, RecordedScene
<1> HIDE DEF w
<1>5. Scene(ReturnTo(w, v), running, prov, scc) /\ Holds(ReturnTo(w, v)) = Holds(w)
  BY <1>4, HandedScene
<1> QED
  BY <1>1, <1>2, <1>4, <1>5 DEF w

\* A step that takes the top frame off the stack and leaves its slot DONE or
\* ERROR, or RUNNING when it is enrolled or a cancel was requested.
LEMMA PopStep ==
    ASSUME XInv, stack # <<>>, NEW q, q = Top(stack).q, NEW st \in SlotStates,
           state' = [state EXCEPT ![q] = st],
           st = "RUNNING" => q \in running /\ (cancel \/ q \in prov),
           st # "RUNNING" => q \notin prov,
           NEW x, scc' = x, SccRecord(x), Scene(stack', running, prov, x),
           Holds(stack') = Holds(stack) \ {q},
           fp' \in [Queries -> Results \cup {None}],
           vrev' \in [Queries -> 0 .. cur],
           dur' \in [Queries -> Tiers],
           deps' \in [Queries -> Seq(Dep)],
           column' \in [Queries -> Results],
           answer' \in [q : Queries \cup {None}, val : Results \cup {None}],
           UNCHANGED <<revVars, cancel, running, prov>>
    PROVE  Core'
<1> USE DEF revVars
<1>1. q \in Queries /\ req # 0
  BY TopKnown
<1>2. /\ state \in [Queries -> SlotStates]
      /\ state'[q] = st /\ \A p \in Queries : p # q => state'[p] = state[p]
  BY <1>1 DEF XInv, TypeOK
<1>3. TypeOK'
  <2>1. stack' \in Seq(Frame)
    BY SceneParts
  <2>2. state' \in [Queries -> SlotStates]
    BY <1>2
  <2> QED
    BY <2>1, <2>2 DEF XInv, TypeOK
<1>4. RunOK(state', stack', running', cancel', prov')
  <2>1. RunOK(state, stack, running, cancel, prov)
    BY DEF XInv
  <2>2. Holds(stack) \cup prov \subseteq Queries
    <3>1. Scene(stack, running, prov, scc)
      BY DEF XInv
    <3>2. \A k \in DOMAIN stack : stack[k] \in Frame
      BY <3>1, SceneParts
    <3>3. Holds(stack) \subseteq Queries
      BY <3>2 DEF Holds, Frame, FrameFields, Queries
    <3>4. prov \subseteq Queries
      BY FixpointAssumption DEF XInv, Queries
    <3> QED
      BY <3>3, <3>4
  <2>3. \A p \in Holds(stack') \cup prov : state'[p] = "RUNNING"
    BY <1>2, <2>1, <2>2 DEF RunOK
  <2>4. \A p \in Queries : state'[p] = "RUNNING" =>
          p \in Holds(stack') \/ (p \in running /\ (cancel \/ p \in prov))
    BY <1>2, <2>1 DEF RunOK
  <2> QED
    BY <2>3, <2>4 DEF RunOK
<1>5. Rest(req', state', stack', scc')
  BY <1>1 DEF Rest
<1>6. prov' \subseteq Fixpoint /\ SccRecord(scc')
  BY DEF XInv
<1>7. Scene(stack', running', prov', scc')
  OBVIOUS
<1> QED
  BY <1>3, <1>4, <1>5, <1>6, <1>7, CorePrime

\* The walk ends: no member's does, so the slot may be restored.
LEMMA WalkEndX ==
    ASSUME OnlyMembersRead, XInv, EngineRuns, WalkEnd, UNCHANGED <<prov, scc>>
    PROVE  Core'
<1> USE DEF revVars
<1> DEFINE t == Top(stack)
           v == IF t.prev = "DONE" THEN column[t.q] ELSE Bottom
           x == fp[t.q]
           d == dur[t.q]
<1>1. /\ stack # <<>> /\ t.mode = "walk" /\ t.i > t.n
      /\ state' = [state EXCEPT ![t.q] = t.prev]
      /\ vrev' = [vrev EXCEPT ![t.q] = Effective]
      /\ deps' = [deps EXCEPT ![t.q] = t.deps]
      /\ stack' = ReturnTo(RecordOnParent(Popped(stack), t.q, x, d), v)
      /\ answer' = AnswerOf(Popped(stack), t.q, v)
      /\ UNCHANGED <<fp, dur, column, revVars, cancel, running>>
  BY DEF WalkEnd, Walking
<1>2. t \in Frame /\ t.q \in Queries /\ FrameOK(t, prov)
  BY <1>1, TopKnown
<1>3. /\ t.prev \in {"DONE", "ERROR", "EMPTY"} /\ t.deps \in Seq(Dep)
      /\ t.i \in Nat /\ t.n \in Nat
  BY <1>2 DEF Frame, FrameFields
<1>4. v \in Results /\ x \in Results \cup {None} /\ d \in Tiers
  BY <1>2 DEF XInv, TypeOK, Results
<1>5. t.q \notin prov
  BY <1>1, <1>2, <1>3 DEF FrameOK
<1> HIDE DEF v, x, d
<1>6. Free
  BY <1>1, <1>5, OthersAreFree
<1>7. Scene(stack', running, prov, scc) /\ Holds(stack') = Holds(stack) \ {t.q}
  BY <1>1, <1>4, <1>6, RecordReturnScene
<1> HIDE DEF t
<1>8. /\ fp' \in [Queries -> Results \cup {None}]
      /\ dur' \in [Queries -> Tiers]
      /\ column' \in [Queries -> Results]
  BY <1>1 DEF XInv, TypeOK
<1>9. vrev' \in [Queries -> 0 .. cur]
  BY <1>1, <1>2 DEF XInv, TypeOK, Effective
<1>10. deps' \in [Queries -> Seq(Dep)]
  BY <1>1, <1>2, <1>3 DEF XInv, TypeOK
<1>11. answer' \in [q : Queries \cup {None}, val : Results \cup {None}]
  BY <1>1, <1>2, <1>4, AnswerType DEF XInv
<1>12. t.prev \in SlotStates /\ t.prev # "RUNNING" /\ SccRecord(scc) /\ scc' = scc
  BY <1>3 DEF SlotStates, XInv
<1>13. t.q = Top(stack).q
  BY DEF t
<1> QED
  BY <1>1, <1>5, <1>7, <1>8, <1>9, <1>10, <1>11, <1>12, <1>13, PopStep

\* A body that is not enrolled succeeds, or bails out under a cancel.
LEMMA BodyEndX ==
    ASSUME OnlyMembersRead, XInv, EngineRuns, Succeed \/ BailOut,
           stack # <<>>, Top(stack).q \notin prov, UNCHANGED <<prov, scc>>
    PROVE  Core'
<1> USE DEF revVars
<1> DEFINE t == Top(stack)
           v == Upcoming(t).val
           d == FrameDur(t)
<1>1. /\ t \in Frame /\ t.q \in Queries /\ state[t.q] = "RUNNING"
      /\ t.mode = "body" => t.q \in running
  BY TopKnown
<1>2. t.deps \in Seq(Dep) /\ d \in Tiers
  BY <1>1, FrameDurType DEF Frame, FrameFields
<1>3. v \in Results
  BY <1>1, UpcomingIsOperation DEF Operations, Results
<1>4. Free
  BY OthersAreFree
<1>5. SccRecord(scc) /\ scc' = scc
  BY DEF XInv
<1>6. CASE Succeed
  <2>1. /\ column' = [column EXCEPT ![t.q] = v]
        /\ deps' = [deps EXCEPT ![t.q] = t.deps]
        /\ state' = [state EXCEPT ![t.q] = "DONE"]
        /\ fp' = [fp EXCEPT ![t.q] = v]
        /\ vrev' = [vrev EXCEPT ![t.q] = cur]
        /\ dur' = [dur EXCEPT ![t.q] = d]
        /\ stack' = ReturnTo(RecordOnParent(Popped(stack), t.q, v, d), v)
        /\ answer' = AnswerOf(Popped(stack), t.q, v)
        /\ UNCHANGED <<revVars, cancel, running>>
    BY <1>6 DEF Succeed
  <2> HIDE DEF v, d
  <2>2. Scene(stack', running, prov, scc) /\ Holds(stack') = Holds(stack) \ {t.q}
    BY <1>2, <1>3, <1>4, <2>1, RecordReturnScene
  <2> HIDE DEF t
  <2>3. /\ fp' \in [Queries -> Results \cup {None}]
        /\ column' \in [Queries -> Results]
    BY <1>1, <1>3, <2>1 DEF XInv, TypeOK
  <2>4. vrev' \in [Queries -> 0 .. cur] /\ dur' \in [Queries -> Tiers]
    BY <1>1, <1>2, <2>1 DEF XInv, TypeOK
  <2>5. deps' \in [Queries -> Seq(Dep)]
    BY <1>1, <1>2, <2>1 DEF XInv, TypeOK
  <2>6. answer' \in [q : Queries \cup {None}, val : Results \cup {None}]
    BY <1>1, <1>3, <2>1, AnswerType DEF XInv
  <2>7. "DONE" \in SlotStates /\ t.q = Top(stack).q
    BY DEF SlotStates, t
  <2> QED
    BY <1>5, <2>1, <2>2, <2>3, <2>4, <2>5, <2>6, <2>7, PopStep
<1>7. CASE BailOut
  <2>1. /\ t.mode = "body" /\ cancel
        /\ column' = column \/ column' = [column EXCEPT ![t.q] = v]
        /\ deps' = [deps EXCEPT ![t.q] = t.deps]
        /\ stack' = ReturnTo(Popped(stack), v)
        /\ answer' = AnswerOf(Popped(stack), t.q, v)
        /\ UNCHANGED <<state, fp, vrev, dur, revVars, cancel, running>>
    BY <1>7 DEF BailOut, Finishing
  <2> HIDE DEF v
  <2>2. Scene(stack', running, prov, scc) /\ Holds(stack') = Holds(stack) \ {t.q}
    BY <1>3, <1>4, <2>1, ReturnScene
  <2> HIDE DEF t
  <2>3. column' \in [Queries -> Results]
    BY <1>1, <1>3, <2>1 DEF XInv, TypeOK
  <2>4. /\ fp' \in [Queries -> Results \cup {None}]
        /\ vrev' \in [Queries -> 0 .. cur] /\ dur' \in [Queries -> Tiers]
        /\ state' = [state EXCEPT ![t.q] = "RUNNING"]
    BY <1>1, <2>1 DEF XInv, TypeOK
  <2>5. deps' \in [Queries -> Seq(Dep)]
    BY <1>1, <1>2, <2>1 DEF XInv, TypeOK
  <2>6. answer' \in [q : Queries \cup {None}, val : Results \cup {None}]
    BY <1>1, <1>3, <2>1, AnswerType DEF XInv
  <2>7. "RUNNING" \in SlotStates /\ t.q = Top(stack).q
    BY DEF SlotStates, t
  <2> QED
    BY <1>1, <1>5, <2>1, <2>2, <2>3, <2>4, <2>5, <2>6, <2>7, PopStep
<1> QED
  BY <1>6, <1>7

-----------------------------------------------------------------------------
(* Four changes of the drive.                                                *)

\* The queries enrolled do not depend on the fingerprints of the members.
LEMMA EnrolledSame ==
    ASSUME NEW ms, NEW ns, Len(ns) = Len(ms),
           \A k \in 1 .. Len(ms) : ns[k].q = ms[k].q,
           NEW i \in Nat \ {0}
    PROVE  Enrolled(ns, i) = Enrolled(ms, i)
<1>1. PICK n : n = Len(ms)
  OBVIOUS
<1>2. \A k \in i .. n : k \in 1 .. n
  OBVIOUS
<1> QED
  BY <1>1, <1>2 DEF Enrolled

\* A member writes its iterate, or the drive takes its snapshot.
LEMMA SceneMembers ==
    ASSUME NEW s, NEW R, NEW P, NEW x, Scene(s, R, P, x), P # {},
           x.i \in Nat \ {0},
           NEW y, y.phase = x.phase, y.root = x.root, y.base = x.base,
           y.i = x.i, Len(y.members) = Len(x.members),
           \A k \in 1 .. Len(x.members) : y.members[k].q = x.members[k].q
    PROVE  Scene(s, R, P, y)
<1>1. StackOK(s, R, P, y.base, y.root)
  BY DEF Scene
<1>2. /\ Enrolled(y.members, 1) = Enrolled(x.members, 1)
      /\ Enrolled(y.members, x.i) = Enrolled(x.members, x.i)
  <2>1. PICK ms, ns, i : ms = x.members /\ ns = y.members /\ i = x.i
    OBVIOUS
  <2>2. /\ Len(ns) = Len(ms) /\ \A k \in 1 .. Len(ms) : ns[k].q = ms[k].q
        /\ i \in Nat \ {0} /\ 1 \in Nat \ {0}
    BY <2>1
  <2>3. Enrolled(ns, 1) = Enrolled(ms, 1)
    BY <2>2, EnrolledSame
  <2>4. Enrolled(ns, i) = Enrolled(ms, i)
    BY <2>2, EnrolledSame
  <2> QED
    BY <2>1, <2>3, <2>4
<1>3. PhaseOK(y, P, s)
  <2>1. CASE Collecting(x, P, s)
    BY <1>2, <2>1 DEF Collecting, PhaseOK
  <2>2. CASE Rerunning(x, P, s)
    BY <1>2, <2>2 DEF Rerunning, PhaseOK
  <2>3. CASE Finalizing(x, P, s)
    BY <1>2, <2>3 DEF Finalizing, PhaseOK
  <2> QED
    BY <2>1, <2>2, <2>3 DEF Scene, PhaseOK
<1> QED
  BY <1>1, <1>3 DEF Scene

\* The frame the drive was waiting for returns: the root's, or the rerun's.
LEMMA SceneDrive ==
    ASSUME NEW s, NEW R, NEW P, NEW x, Scene(s, R, P, x), s # <<>>,
           \/ x.phase = "collect" /\ Top(s).q = x.root
           \/ x.phase = "rerun" /\ Len(s) = x.base + 1,
           NEW y, y.phase = "rerun", y.root = x.root, y.base = Len(s) - 1,
           Enrolled(y.members, 1) = Enrolled(x.members, 1)
    PROVE  /\ Scene(Popped(s), R, P, y)
           /\ Holds(Popped(s)) = Holds(s) \ {Top(s).q}
<1>1. /\ s \in Seq(Frame) /\ Len(s) \in Nat /\ DOMAIN s = 1 .. Len(s)
      /\ x.base \in 0 .. Len(s)
  BY SceneParts
<1>2. PICK n, p : n = Len(s) /\ p = Popped(s)
  OBVIOUS
<1>3. n \in Nat \ {0} /\ n \in 1 .. n
  BY <1>1, <1>2, PoppedFrames
<1>4. /\ p \in Seq(Frame) /\ Len(p) = n - 1
      /\ \A k \in 1 .. n - 1 : p[k] = s[k]
  BY <1>1, <1>2, PoppedFrames
<1>5. /\ DOMAIN p = 1 .. n - 1 /\ DOMAIN s = 1 .. n
      /\ \A k \in 1 .. n - 1 : k \in 1 .. n
  BY <1>1, <1>2, <1>3, <1>4, LenProperties
<1>6. Simple(s) /\ BodiesIn(s, R)
  BY DEF Scene, StackOK
<1>7. Simple(p) /\ BodiesIn(p, R)
  BY <1>4, <1>5, <1>6 DEF Simple, BodiesIn
<1>8. Holds(p) = Holds(s) \ {s[n].q}
  <2>1. \A k \in 1 .. n : k # n => k \in 1 .. n - 1
    BY <1>3
  <2>2. n \notin 1 .. n - 1
    BY <1>3
  <2> QED
    BY <1>3, <1>4, <1>5, <1>6, <2>1, <2>2 DEF Holds, Simple
<1>9. /\ \A k \in 1 .. n - 1 : k # x.base => Awaits(s[k], s[k + 1].q)
      /\ \A k \in 1 .. n : FrameOK(s[k], P)
      /\ x.base # 0 => Awaits(s[x.base], x.root)
  BY <1>2 DEF Scene, StackOK
<1>10. Top(s) = s[n]
  BY <1>2 DEF Top
<1>11. /\ \A k \in 1 .. n - 1 : s[k].q \notin P
       /\ x.root \in P /\ P = Enrolled(x.members, 1)
       /\ n - 1 # 0 => Awaits(s[n - 1], x.root)
       /\ \A k \in 1 .. n - 2 : k # x.base
  <2>1. CASE x.phase = "collect"
    <3>1. Collecting(x, P, s)
      BY <2>1 DEF Scene, PhaseOK, Idle, Rerunning, Finalizing
    <3>2. PICK h \in 1 .. n :
            s[h].q = x.root /\ \A k \in 1 .. h - 1 : s[k].q \notin P
      BY <1>2, <3>1 DEF Collecting
    <3>3. s[n].q = x.root
      BY <1>10, <2>1
    <3>4. h = n
      BY <1>3, <1>5, <1>6, <3>2, <3>3 DEF Simple
    <3>5. x.base = 0 /\ x.root \in P /\ P = Enrolled(x.members, 1)
      BY <3>1 DEF Collecting
    <3>6. n - 1 # 0 => n - 1 \in 1 .. n - 1 /\ n - 1 # x.base /\ n - 1 + 1 = n
      BY <1>3, <3>5
    <3>7. n - 1 # 0 => Awaits(s[n - 1], s[n - 1 + 1].q)
      BY <1>9, <3>6
    <3>8. n - 1 # 0 => Awaits(s[n - 1], x.root)
      BY <3>3, <3>6, <3>7
    <3> QED
      BY <3>2, <3>4, <3>5, <3>8
  <2>2. CASE x.phase = "rerun" /\ Len(s) = x.base + 1
    <3>1. Rerunning(x, P, s)
      BY <2>2 DEF Scene, PhaseOK, Idle, Collecting, Finalizing
    <3>2. x.base = n - 1
      BY <1>1, <1>2, <2>2
    <3>3. \A k \in 1 .. n - 2 : k # n - 1
      BY <1>3
    <3> QED
      BY <1>9, <3>1, <3>2, <3>3 DEF Rerunning
  <2> QED
    BY <2>1, <2>2
<1>12. StackOK(p, R, P, n - 1, x.root)
  <2>1. \A k \in 1 .. n - 1 - 1 : /\ k \in 1 .. n - 1 /\ k + 1 \in 1 .. n - 1
                                  /\ k \in 1 .. n - 2
    BY <1>3
  <2>2. \A k \in 1 .. n - 1 - 1 : Awaits(p[k], p[k + 1].q)
    BY <1>4, <1>9, <1>11, <2>1
  <2>3. \A k \in 1 .. n - 1 : FrameOK(p[k], P)
    BY <1>4, <1>5, <1>9
  <2>4. n - 1 # 0 => Awaits(p[n - 1], x.root)
    <3>1. n - 1 # 0 => n - 1 \in 1 .. n - 1
      BY <1>3
    <3> QED
      BY <1>4, <1>11, <3>1
  <2>5. n - 1 \in 0 .. n - 1
    BY <1>3
  <2> QED
    BY <1>4, <1>7, <2>2, <2>3, <2>4, <2>5 DEF StackOK
<1>13. PhaseOK(y, P, p)
  <2>1. \A k \in 1 .. n - 1 : p[k].q \notin P
    BY <1>4, <1>11
  <2>2. ~ (Len(p) > y.base) /\ y.base = n - 1
    BY <1>2, <1>3, <1>4
  <2>3. Rerunning(y, P, p)
    BY <1>11, <2>1, <2>2 DEF Rerunning
  <2> QED
    BY <2>3 DEF PhaseOK
<1>14. StackOK(p, R, P, y.base, y.root)
  BY <1>2, <1>12
<1> QED
  BY <1>2, <1>8, <1>10, <1>13, <1>14 DEF Scene

\* The drive runs the body of a member again.
LEMMA SceneRerun ==
    ASSUME NEW s, NEW R, NEW P, NEW x, Scene(s, R, P, x),
           x.phase = "rerun", Len(s) = x.base, x.i <= Len(x.members),
           NEW f \in Frame, f.mode = "body", f.q \in P, f.q \in R, FrameOK(f, P)
    PROVE  /\ Scene(Append(s, f), R, P, x)
           /\ Holds(Append(s, f)) = Holds(s) \cup {f.q}
<1>1. /\ s \in Seq(Frame) /\ Len(s) \in Nat /\ DOMAIN s = 1 .. Len(s)
  BY SceneParts
<1>2. PICK n, p : n = Len(s) /\ p = Append(s, f)
  OBVIOUS
<1>3. n \in Nat /\ DOMAIN s = 1 .. n /\ x.base = n
  BY <1>1, <1>2
<1>4. /\ p \in Seq(Frame) /\ Len(p) = n + 1
      /\ \A k \in 1 .. n : p[k] = s[k]
      /\ p[n + 1] = f
  BY <1>1, <1>2
<1>5. DOMAIN p = 1 .. n + 1 /\ \A k \in 1 .. n + 1 : k \in 1 .. n \/ k = n + 1
  BY <1>3, <1>4, LenProperties
<1>6. Simple(s) /\ BodiesIn(s, R)
  BY DEF Scene, StackOK
<1>0. Rerunning(x, P, s)
  BY DEF Scene, PhaseOK, Idle, Collecting, Finalizing
<1>7. \A k \in 1 .. n : s[k].q # f.q /\ s[k].q \notin P
  BY <1>0, <1>3 DEF Rerunning
<1>8. Simple(p)
  <2> SUFFICES ASSUME NEW j \in 1 .. n + 1, NEW k \in 1 .. n + 1, j # k
               PROVE  p[j].q # p[k].q
    BY <1>5 DEF Simple
  <2> QED
    BY <1>3, <1>4, <1>5, <1>6, <1>7 DEF Simple
<1>9. BodiesIn(p, R)
  BY <1>3, <1>4, <1>5, <1>6 DEF BodiesIn
<1>10. Holds(p) = Holds(s) \cup {f.q}
  <2>1. \A k \in 1 .. n : k \in 1 .. n + 1
    BY <1>3
  <2>2. n + 1 \in 1 .. n + 1
    BY <1>3
  <2> QED
    BY <1>3, <1>4, <1>5, <2>1, <2>2 DEF Holds
<1>11. /\ \A k \in 1 .. n - 1 : k # n => Awaits(s[k], s[k + 1].q)
       /\ \A k \in 1 .. n : FrameOK(s[k], P)
       /\ n # 0 => Awaits(s[n], x.root)
  BY <1>2, <1>3 DEF Scene, StackOK
<1>12. StackOK(p, R, P, n, x.root)
  <2>1. \A k \in 1 .. n : k # n => Awaits(p[k], p[k + 1].q)
    <3>1. \A k \in 1 .. n : k # n => k \in 1 .. n - 1 /\ k + 1 \in 1 .. n
      BY <1>3
    <3> QED
      BY <1>4, <1>11, <3>1
  <2>2. \A k \in 1 .. n + 1 : FrameOK(p[k], P)
    BY <1>4, <1>5, <1>11
  <2>3. n # 0 => Awaits(p[n], x.root)
    <3>1. n # 0 => n \in 1 .. n
      BY <1>3
    <3> QED
      BY <1>4, <1>11, <3>1
  <2>4. Len(p) - 1 = n /\ n \in 0 .. Len(p)
    BY <1>3, <1>4
  <2> QED
    BY <1>4, <1>8, <1>9, <2>1, <2>2, <2>3, <2>4 DEF StackOK
<1>13. PhaseOK(x, P, p)
  <2>1. \A k \in 1 .. n : p[k].q \notin P
    BY <1>4, <1>7
  <2>2. Rerunning(x, P, p)
    BY <1>0, <1>3, <1>4, <2>1 DEF Rerunning
  <2> QED
    BY <2>2 DEF PhaseOK
<1> QED
  BY <1>2, <1>3, <1>10, <1>12, <1>13 DEF Scene

\* Members have no frame while they are finalized.
LEMMA SceneFinal ==
    ASSUME NEW s, NEW R, NEW P, NEW x, Scene(s, R, P, x),
           x.phase = "rerun" \/ x.phase = "finalize", Len(s) = x.base,
           NEW m \in Enrolled(x.members, 1)
    PROVE  m \notin Holds(s)
<1>1. Len(s) \in Nat /\ DOMAIN s = 1 .. Len(s)
  BY SceneParts
<1>2. Rerunning(x, P, s) \/ Finalizing(x, P, s)
  BY DEF Scene, PhaseOK, Idle, Collecting
<1>3. \A k \in 1 .. x.base : s[k].q \notin Enrolled(x.members, 1)
  BY <1>2 DEF Rerunning, Finalizing
<1> QED
  BY <1>1, <1>3 DEF Holds

\* A pass ends.
LEMMA ScenePass ==
    ASSUME NEW s, NEW R, NEW P, NEW x, Scene(s, R, P, x), P \subseteq Fixpoint,
           x.phase = "rerun", Len(s) = x.base,
           NEW y, y.phase \in {"rerun", "finalize"}, y.root = x.root,
           y.base = x.base, y.i = 1, y.members = x.members
    PROVE  Scene(s, R, P, y)
<1>1. StackOK(s, R, P, y.base, y.root)
  BY DEF Scene
<1>2. Rerunning(x, P, s)
  BY DEF Scene, PhaseOK, Idle, Collecting, Finalizing
<1>3. Len(s) \in Nat
  BY SceneParts
<1>4. ~ (Len(s) > x.base)
  BY <1>3
<1>5. Rerunning(y, P, s) \/ Finalizing(y, P, s)
  BY <1>2, <1>4 DEF Rerunning, Finalizing
<1> QED
  BY <1>1, <1>5 DEF Scene, PhaseOK

\* A member loses its provisional bit.
LEMMA SceneFinalized ==
    ASSUME NEW s, NEW R, NEW P, NEW x, Scene(s, R, P, x),
           x.phase = "finalize", x.i \in Nat \ {0}, Len(x.members) \in Nat,
           x.i <= Len(x.members),
           NEW Q, Q = P \ {x.members[x.i].q},
           NEW y, y.phase = "finalize", y.root = x.root, y.base = x.base,
           y.i = x.i + 1, y.members = x.members
    PROVE  Scene(s, R, Q, y)
<1>1. Finalizing(x, P, s)
  BY DEF Scene, PhaseOK, Idle, Collecting, Rerunning
<1>2. Len(s) \in Nat
  BY SceneParts
<1>3. PICK i, n : i = x.i /\ n = Len(x.members)
  OBVIOUS
<1>4. \A k \in i .. n : k = i \/ k \in i + 1 .. n
  BY <1>3
<1>5. Q \subseteq Enrolled(y.members, y.i)
  <2>1. P \subseteq {x.members[k].q : k \in i .. n}
    BY <1>1, <1>3 DEF Finalizing, Enrolled
  <2>2. Q \subseteq {x.members[k].q : k \in i + 1 .. n}
    BY <1>3, <1>4, <2>1
  <2> QED
    BY <1>3, <2>2 DEF Enrolled
<1>6. Finalizing(y, Q, s)
  BY <1>1, <1>5 DEF Finalizing
<1>7. P \subseteq Enrolled(x.members, 1)
  <2>1. \A k \in i .. n : k \in 1 .. n
    BY <1>3
  <2> QED
    BY <1>1, <1>3, <2>1 DEF Finalizing, Enrolled
<1>8. \A k \in 1 .. Len(s) : s[k].q \notin Q
  BY <1>1, <1>7 DEF Finalizing
<1>9. \A k \in 1 .. Len(s) : FrameOK(s[k], Q)
  <2>1. \A k \in 1 .. Len(s) : FrameOK(s[k], P)
    BY DEF Scene, StackOK
  <2> QED
    BY <1>8, <2>1 DEF FrameOK
<1>10. StackOK(s, R, Q, y.base, y.root)
  BY <1>9 DEF Scene, StackOK
<1> QED
  BY <1>6, <1>10 DEF Scene, PhaseOK

\* The drive is over.
LEMMA SceneOver ==
    ASSUME NEW s, NEW R, NEW P, NEW x, Scene(s, R, P, x),
           x.phase = "finalize", x.i \in Nat \ {0}, Len(x.members) \in Nat,
           x.i > Len(x.members)
    PROVE  /\ P = {} /\ Scene(s, R, P, Idle)
           /\ s # <<>> => Len(s) > 0 /\ Awaits(Top(s), x.root)
<1>1. Finalizing(x, P, s)
  BY DEF Scene, PhaseOK, Idle, Collecting, Rerunning
<1>2. Len(s) \in Nat /\ s \in Seq(Frame)
  BY SceneParts
<1>3. P = {}
  <2>1. x.i .. Len(x.members) = {}
    OBVIOUS
  <2>2. Enrolled(x.members, x.i) = {}
    BY <2>1 DEF Enrolled
  <2> QED
    BY <1>1, <2>2 DEF Finalizing
<1>4. \A k \in 1 .. Len(s) - 1 : k # Len(s)
  BY <1>2
<1>5. x.base = Len(s)
  BY <1>1 DEF Finalizing
<1>6. \A k \in 1 .. Len(s) - 1 : Awaits(s[k], s[k + 1].q)
  BY <1>4, <1>5 DEF Scene, StackOK
<1>7. 0 \in 0 .. Len(s) /\ Idle.base = 0
  BY <1>2 DEF Idle
<1>8. StackOK(s, R, P, Idle.base, Idle.root)
  BY <1>6, <1>7 DEF Scene, StackOK
<1>9. s # <<>> => Len(s) > 0 /\ Len(s) # 0
  BY <1>2, TopIsFrame
<1>10. s # <<>> => Awaits(Top(s), x.root)
  BY <1>5, <1>9 DEF Scene, StackOK, Top
<1> QED
  BY <1>3, <1>8, <1>9, <1>10 DEF Scene, PhaseOK

-----------------------------------------------------------------------------
(* The steps of the drive.                                                   *)

\* The body of a member returns a value, with its frame on top of the stack.
LEMMA IterateTyped ==
    ASSUME XInv, EnrolledReturn, Iterate
    PROVE  LET t == Top(stack)
               v == Upcoming(t).val
               ms == WithIterate(scc.members)
           IN  /\ stack # <<>> /\ v \in Results
               /\ t.q \in Queries /\ t.q \in prov /\ t.q \in running
               /\ state' = [state EXCEPT ![t.q] = "RUNNING"]
               /\ fp' \in [Queries -> Results \cup {None}]
               /\ vrev' \in [Queries -> 0 .. cur]
               /\ dur' \in [Queries -> Tiers]
               /\ deps' \in [Queries -> Seq(Dep)]
               /\ column' \in [Queries -> Results]
               /\ ms \in Seq(Member) /\ Len(ms) = Len(scc.members)
               /\ \A k \in 1 .. Len(scc.members) : ms[k].q = scc.members[k].q
<1> DEFINE t == Top(stack)
           v == Upcoming(t).val
           ms == WithIterate(scc.members)
<1>1. stack # <<>> /\ t.mode = "body" /\ t.q \in prov
  BY DEF EnrolledReturn, Finishing
<1>2. /\ t \in Frame /\ t.q \in Queries /\ state[t.q] = "RUNNING"
      /\ t.q \in running
  BY <1>1, TopKnown
<1>3. t.deps \in Seq(Dep)
  BY <1>2 DEF Frame, FrameFields
<1>4. v \in Results
  BY <1>2, UpcomingIsOperation DEF Operations, Results
<1>5. /\ column' = [column EXCEPT ![t.q] = v]
      /\ deps' = [deps EXCEPT ![t.q] = t.deps]
      /\ UNCHANGED <<state, fp, vrev, dur>>
  BY DEF Iterate
<1>6. /\ scc.members \in Seq(Member) /\ Len(scc.members) \in Nat
      /\ DOMAIN scc.members = 1 .. Len(scc.members)
      /\ \A k \in 1 .. Len(scc.members) : scc.members[k] \in Member
  <2>1. scc.members \in Seq(Member)
    BY DEF XInv, SccRecord, Drives
  <2> QED
    BY <2>1, LenProperties, ElementOfSeq
<1> HIDE DEF v
<1>7. PICK n, ns : n = Len(scc.members) /\ ns = scc.members
  OBVIOUS
<1>8. ms = [k \in 1 .. n |-> IF ns[k].q = t.q
                             THEN [ns[k] EXCEPT !.fp = v] ELSE ns[k]]
  BY <1>6, <1>7 DEF WithIterate, v
<1>9. \A k \in 1 .. n : ms[k] \in Member /\ ms[k].q = ns[k].q
  BY <1>4, <1>6, <1>7, <1>8 DEF Member
<1>10. ms \in Seq(Member) /\ Len(ms) = n
  <2>1. n \in Nat
    BY <1>6, <1>7
  <2>2. DOMAIN ms = 1 .. n /\ ms = [k \in 1 .. n |-> ms[k]]
    BY <1>8
  <2> HIDE DEF ms
  <2>3. ms \in [1 .. n -> Member]
    BY <1>9, <2>2
  <2>4. ms \in Seq(Member)
    BY <2>1, <2>3
  <2> QED
    BY <2>1, <2>2, <2>4, LenProperties
<1>11. state' = [state EXCEPT ![t.q] = "RUNNING"]
  BY <1>2, <1>5 DEF XInv, TypeOK
<1>12. /\ fp' \in [Queries -> Results \cup {None}]
       /\ vrev' \in [Queries -> 0 .. cur]
       /\ dur' \in [Queries -> Tiers]
  BY <1>5 DEF XInv, TypeOK
<1>13. /\ deps' \in [Queries -> Seq(Dep)]
       /\ column' \in [Queries -> Results]
  BY <1>2, <1>3, <1>4, <1>5 DEF XInv, TypeOK
<1> HIDE DEF ms
<1> QED
  BY <1>1, <1>2, <1>4, <1>7, <1>9, <1>10, <1>11, <1>12, <1>13 DEF v, ms

\* A member below the root returns to the member that called it.
LEMMA MemberReturnsX ==
    ASSUME OnlyMembersRead, XInv, MemberReturns
    PROVE  Core'
<1> DEFINE t == Top(stack)
           v == Upcoming(t).val
           ms == WithIterate(scc.members)
<1>1. /\ EnrolledReturn /\ EngineRuns /\ Iterate
      /\ scc' = [scc EXCEPT !.members = ms]
      /\ stack' = ReturnTo(Popped(stack), v)
      /\ answer' = AnswerOf(Popped(stack), t.q, v)
  BY DEF MemberReturns, EnrolledReturn
<1>2. Free
  BY DEF MemberReturns, IsRerun, Free
<1>3. /\ stack # <<>> /\ v \in Results
      /\ t.q \in Queries /\ t.q \in prov /\ t.q \in running
      /\ state' = [state EXCEPT ![t.q] = "RUNNING"]
      /\ fp' \in [Queries -> Results \cup {None}]
      /\ vrev' \in [Queries -> 0 .. cur]
      /\ dur' \in [Queries -> Tiers]
      /\ deps' \in [Queries -> Seq(Dep)]
      /\ column' \in [Queries -> Results]
      /\ ms \in Seq(Member) /\ Len(ms) = Len(scc.members)
      /\ \A k \in 1 .. Len(scc.members) : ms[k].q = scc.members[k].q
  BY <1>1, IterateTyped
<1> HIDE DEF v, ms
<1>4. Scene(stack', running, prov, scc) /\ Holds(stack') = Holds(stack) \ {t.q}
  BY <1>1, <1>2, <1>3, ReturnScene
<1> HIDE DEF t
<1>5. PICK y : y = scc'
  OBVIOUS
<1>6. /\ scc \in Drives /\ scc.i <= Len(scc.members) + 1
      /\ scc.iter <= Len(scc.members) * 64 + 32
  BY DEF XInv, SccRecord
<1>7. /\ y.phase = scc.phase /\ y.root = scc.root /\ y.base = scc.base
      /\ y.i = scc.i /\ y.members = ms /\ y.iter = scc.iter /\ y \in Drives
  BY <1>1, <1>3, <1>5, <1>6 DEF Drives
<1>8. SccRecord(y)
  BY <1>3, <1>6, <1>7 DEF SccRecord
<1>9. Scene(stack', running, prov, y)
  <2>1. PICK s : s = stack'
    OBVIOUS
  <2>2. Scene(s, running, prov, scc) /\ prov # {} /\ scc.i \in Nat \ {0}
    BY <1>3, <1>4, <1>6, <2>1 DEF Drives
  <2>3. Scene(s, running, prov, y)
    BY <1>3, <1>7, <2>2, SceneMembers
  <2> QED
    BY <2>1, <2>3
<1>10. answer' \in [q : Queries \cup {None}, val : Results \cup {None}]
  BY <1>1, <1>3, AnswerType DEF XInv
<1>11. "RUNNING" \in SlotStates /\ t.q = Top(stack).q
  BY DEF SlotStates, t
<1>12. UNCHANGED <<revVars, cancel, running, prov>>
  BY <1>1 DEF Iterate
<1> QED
  BY <1>3, <1>4, <1>5, <1>8, <1>9, <1>10, <1>11, <1>12, PopStep

\* The root, or the member that the drive runs again, returns to the drive.
LEMMA ToTheDrive ==
    ASSUME OnlyMembersRead, XInv, RootReturns \/ RerunReturns
    PROVE  Core'
<1> DEFINE t == Top(stack)
           v == Upcoming(t).val
           ms == WithIterate(scc.members)
<1>1. /\ EnrolledReturn /\ EngineRuns /\ Iterate
      /\ stack' = Popped(stack) /\ answer' = answer
  BY DEF RootReturns, RerunReturns, EnrolledReturn
<1>2. /\ stack # <<>> /\ v \in Results
      /\ t.q \in Queries /\ t.q \in prov /\ t.q \in running
      /\ state' = [state EXCEPT ![t.q] = "RUNNING"]
      /\ fp' \in [Queries -> Results \cup {None}]
      /\ vrev' \in [Queries -> 0 .. cur]
      /\ dur' \in [Queries -> Tiers]
      /\ deps' \in [Queries -> Seq(Dep)]
      /\ column' \in [Queries -> Results]
      /\ ms \in Seq(Member) /\ Len(ms) = Len(scc.members)
      /\ \A k \in 1 .. Len(scc.members) : ms[k].q = scc.members[k].q
  BY <1>1, IterateTyped
<1>3. PICK y : y = scc'
  OBVIOUS
<1>4. /\ scc \in Drives /\ scc.i <= Len(scc.members) + 1
      /\ scc.iter <= Len(scc.members) * 64 + 32
      /\ Scene(stack, running, prov, scc) /\ Len(scc.members) \in Nat
  <2>1. scc \in Drives
    BY DEF XInv, SccRecord
  <2>2. scc.members \in Seq(Member)
    BY <2>1 DEF Drives
  <2>3. Len(scc.members) \in Nat
    BY <2>2, LenProperties
  <2> QED
    BY <2>1, <2>3 DEF XInv, SccRecord
<1>5. Len(stack) \in Nat \ {0} /\ scc.base \in 0 .. Len(stack)
  BY <1>2, <1>4, TopKnown, SceneParts
<1> HIDE DEF ms
<1>6. /\ \/ scc.phase = "collect" /\ Top(stack).q = scc.root
         \/ scc.phase = "rerun" /\ Len(stack) = scc.base + 1
      /\ y.phase = "rerun" /\ y.root = scc.root /\ y.base = Len(stack) - 1
      /\ y.members = ms /\ y.iter = scc.iter /\ y \in Drives
      /\ y.i <= Len(scc.members) + 1
  <2>1. CASE RootReturns
    <3>1. /\ scc.phase = "collect" /\ Top(stack).q = scc.root
          /\ y = [scc EXCEPT !.members = ms, !.phase = "rerun",
                             !.base = Len(stack) - 1]
      BY <1>3, <2>1 DEF RootReturns, DriveBase, ms
    <3>2. Len(stack) - 1 \in Nat
      BY <1>5
    <3> QED
      BY <1>2, <1>4, <3>1, <3>2 DEF Drives, Phases
  <2>2. CASE RerunReturns
    <3> DEFINE ch == scc.changed \/ Moved(v)
    <3>1. /\ scc.phase = "rerun" /\ Len(stack) = scc.base + 1
          /\ y = [scc EXCEPT !.members = ms, !.i = scc.i + 1, !.changed = ch]
      BY <1>3, <2>2 DEF RerunReturns, IsRerun, NextMember, ms
    <3>2. ch \in BOOLEAN
      BY <1>4 DEF Drives, Moved
    <3> HIDE DEF ch
    <3>3. scc.i <= Len(scc.members)
      <4>1. Rerunning(scc, prov, stack)
        BY <1>4, <3>1 DEF Scene, PhaseOK, Idle, Collecting, Finalizing
      <4>2. Len(stack) > scc.base
        BY <1>5, <3>1
      <4> QED
        BY <4>1, <4>2 DEF Rerunning
    <3>4. scc.i \in Nat \ {0}
      BY <1>4 DEF Drives
    <3>5. scc.i + 1 \in Nat \ {0} /\ scc.i + 1 <= Len(scc.members) + 1
      BY <1>4, <3>3, <3>4
    <3>6. scc.base = Len(stack) - 1
      BY <1>5, <3>1
    <3> QED
      BY <1>2, <1>4, <3>1, <3>2, <3>5, <3>6 DEF Drives
  <2> QED
    BY <2>1, <2>2
<1> HIDE DEF v, t
<1>7. SccRecord(y)
  BY <1>2, <1>4, <1>6 DEF SccRecord
<1>8. Enrolled(y.members, 1) = Enrolled(scc.members, 1)
  <2>1. PICK os, ns : os = scc.members /\ ns = y.members
    OBVIOUS
  <2>2. /\ Len(ns) = Len(os) /\ \A k \in 1 .. Len(os) : ns[k].q = os[k].q
        /\ 1 \in Nat \ {0}
    <3>1. ns = ms
      BY <1>6, <2>1
    <3>2. /\ Len(ms) = Len(os)
          /\ \A k \in 1 .. Len(os) : ms[k].q = os[k].q
      BY <1>2, <2>1
    <3>3. Len(ns) = Len(os)
      BY <3>1, <3>2
    <3>4. \A k \in 1 .. Len(os) : ns[k].q = os[k].q
      BY <3>1, <3>2
    <3>5. 1 \in Nat \ {0}
      OBVIOUS
    <3> QED
      BY <3>3, <3>4, <3>5
  <2>3. Enrolled(ns, 1) = Enrolled(os, 1)
    BY <2>2, EnrolledSame
  <2> QED
    BY <2>1, <2>3
<1>9. /\ Scene(Popped(stack), running, prov, y)
      /\ Holds(Popped(stack)) = Holds(stack) \ {Top(stack).q}
  BY <1>2, <1>4, <1>6, <1>8, SceneDrive
<1>10. /\ Scene(stack', running, prov, y)
       /\ Holds(stack') = Holds(stack) \ {t.q}
  BY <1>1, <1>9 DEF t
<1>11. answer' \in [q : Queries \cup {None}, val : Results \cup {None}]
  BY <1>1 DEF XInv, TypeOK
<1>12. "RUNNING" \in SlotStates /\ t.q = Top(stack).q
  BY DEF SlotStates, t
<1>13. UNCHANGED <<revVars, cancel, running, prov>>
  BY <1>1 DEF Iterate
<1> QED
  BY <1>2, <1>3, <1>7, <1>10, <1>11, <1>12, <1>13, PopStep

\* db_query_succeed on a member records it on the frame that awaits the root.
LEMMA FinalRecord ==
    ASSUME OnlyMembersRead, NEW s, NEW R, NEW P, NEW x, Scene(s, R, P, x),
           x.phase = "finalize", Len(s) = x.base, NEW q \in Queries,
           NEW z \in Results \cup {None}, NEW d \in Tiers
    PROVE  LET u == RecordOnParent(s, q, z, d)
           IN  Scene(u, R, P, x) /\ Holds(u) = Holds(s)
<1>1. CASE s = <<>>
  BY <1>1 DEF RecordOnParent
<1>2. CASE s # <<>>
  <2> DEFINE u == RecordOnParent(s, q, z, d)
             g == RecordDep(Top(s), q, z, d)
  <2>1. s \in Seq(Frame) /\ DOMAIN s = 1 .. Len(s)
    BY SceneParts
  <2>2. Top(s) \in Frame /\ Len(s) \in Nat \ {0}
    BY <1>2, <2>1, TopIsFrame
  <2>3. PICK n : n = Len(s)
    OBVIOUS
  <2>4. n \in Nat \ {0} /\ n \in 1 .. n /\ Top(s) = s[n] /\ x.base = n
    BY <2>2, <2>3 DEF Top
  <2>5. Finalizing(x, P, s)
    BY DEF Scene, PhaseOK, Idle, Collecting, Rerunning
  <2>6. FrameOK(Top(s), P) /\ Awaits(Top(s), x.root) /\ x.root \in Fixpoint
    BY <2>3, <2>4, <2>5 DEF Scene, StackOK, Finalizing
  <2>7. Top(s).q \in Fixpoint
    BY <2>2, <2>6, AwaitsMember
  <2>8. g \in Frame /\ g.q = Top(s).q /\ g.mode = Top(s).mode
    BY <2>2, RecordDepFrame
  <2>9. FrameOK(g, P) /\ Awaits(g, x.root)
    BY <2>2, <2>6, <2>7, RecordedOK
  <2>10. u = OnTop(s, g)
    BY <1>2 DEF RecordOnParent
  <2> HIDE DEF g
  <2>11. /\ OnTop(s, g) \in Seq(Frame) /\ SameButTop(s, OnTop(s, g))
         /\ Top(OnTop(s, g)) = g
    BY <1>2, <2>1, <2>8, OnTopFrame
  <2>12. u \in Seq(Frame) /\ Top(u) = g /\ Len(u) = n
    BY <2>3, <2>10, <2>11 DEF SameButTop
  <2>13. \A k \in 1 .. n : k # n => u[k] = s[k]
    BY <2>2, <2>3, <2>10, <2>11 DEF SameButTop
  <2> HIDE DEF u
  <2>14. u[n] = g /\ DOMAIN u = 1 .. n /\ DOMAIN s = 1 .. n
    BY <2>1, <2>3, <2>12, LenProperties DEF Top
  <2>15. /\ \A k \in 1 .. n : u[k].q = s[k].q
         /\ \A k \in 1 .. n : u[k].mode = s[k].mode
    BY <2>4, <2>8, <2>13, <2>14
  <2>16. Simple(s) /\ BodiesIn(s, R)
    BY DEF Scene, StackOK
  <2>17. Holds(u) = Holds(s) /\ Simple(u) /\ BodiesIn(u, R)
    BY <2>14, <2>15, <2>16 DEF Holds, Simple, BodiesIn
  <2>18. \A k \in 1 .. n - 1 : k # n => Awaits(u[k], u[k + 1].q)
    <3>1. \A k \in 1 .. n - 1 : k # n => Awaits(s[k], s[k + 1].q)
      BY <2>3, <2>4 DEF Scene, StackOK
    <3>2. \A k \in 1 .. n - 1 : k \in 1 .. n /\ k # n /\ k + 1 \in 1 .. n
      BY <2>4
    <3> QED
      BY <2>13, <2>15, <3>1, <3>2
  <2>19. \A k \in 1 .. n : FrameOK(u[k], P)
    <3>1. \A k \in 1 .. n : FrameOK(s[k], P)
      BY <2>3 DEF Scene, StackOK
    <3> QED
      BY <2>9, <2>13, <2>14, <3>1
  <2>20. StackOK(u, R, P, x.base, x.root)
    <3>1. n \in 0 .. n
      BY <2>4
    <3> QED
      BY <2>4, <2>9, <2>12, <2>14, <2>17, <2>18, <2>19, <3>1 DEF StackOK
  <2>21. Finalizing(x, P, u)
    BY <2>4, <2>5, <2>12, <2>15 DEF Finalizing
  <2> QED
    BY <2>17, <2>20, <2>21 DEF Scene, PhaseOK, u
<1> QED
  BY <1>1, <1>2

\* The queries that slots are held for are queries.
LEMMA HeldQueries ==
    ASSUME XInv
    PROVE  Holds(stack) \subseteq Queries /\ prov \subseteq Queries
<1>1. Scene(stack, running, prov, scc)
  BY DEF XInv
<1>2. \A k \in DOMAIN stack : stack[k] \in Frame
  BY <1>1, SceneParts
<1>3. Holds(stack) \subseteq Queries
  BY <1>2 DEF Holds, Frame, FrameFields, Queries
<1>4. prov \subseteq Queries
  BY FixpointAssumption DEF XInv, Queries
<1> QED
  BY <1>3, <1>4

\* What is known between two steps of the loops of the drive.
LEMMA DriveKnown ==
    ASSUME XInv, InDrive("rerun") \/ InDrive("finalize")
    PROVE  /\ Scene(stack, running, prov, scc) /\ SccRecord(scc)
           /\ scc \in Drives /\ req # 0 /\ Len(stack) = scc.base
           /\ scc.members \in Seq(Member) /\ Len(scc.members) \in Nat
           /\ scc.i \in Nat \ {0}
           /\ \A k \in 1 .. Len(scc.members) :
                scc.members[k] \in Member /\ scc.members[k].q \in Queries
<1>1. Scene(stack, running, prov, scc) /\ SccRecord(scc)
  BY DEF XInv
<1>2. scc \in Drives
  BY <1>1 DEF SccRecord
<1>3. scc.members \in Seq(Member) /\ scc.i \in Nat \ {0}
  BY <1>2 DEF Drives
<1>4. Len(scc.members) \in Nat /\ \A k \in 1 .. Len(scc.members) :
                                    scc.members[k] \in Member
  BY <1>3, LenProperties, ElementOfSeq
<1>5. \A k \in 1 .. Len(scc.members) : scc.members[k].q \in Queries
  BY <1>4, FixpointAssumption DEF Member, Queries
<1>6. req # 0
  <2>1. scc # Idle
    BY DEF InDrive, Idle
  <2> QED
    BY <2>1 DEF XInv, Rest
<1>7. Len(stack) = scc.base
  BY DEF InDrive
<1> QED
  BY <1>1, <1>2, <1>3, <1>4, <1>5, <1>6, <1>7

\* The body of a member is run again.
LEMMA RerunX ==
    ASSUME XInv, Rerun
    PROVE  Core'
<1> USE DEF revVars
<1>1. InDrive("rerun") /\ scc.phase = "rerun" /\ scc.i <= Len(scc.members)
  BY DEF Rerun, InDrive
<1>2. /\ Scene(stack, running, prov, scc) /\ SccRecord(scc)
      /\ scc \in Drives /\ req # 0 /\ Len(stack) = scc.base
      /\ scc.members \in Seq(Member) /\ Len(scc.members) \in Nat
      /\ scc.i \in Nat \ {0}
      /\ \A k \in 1 .. Len(scc.members) :
           scc.members[k] \in Member /\ scc.members[k].q \in Queries
  BY <1>1, DriveKnown
<1>3. PICK m, y : m = scc.members[scc.i] /\ y = scc'
  OBVIOUS
<1>4. scc.i \in 1 .. Len(scc.members)
  BY <1>1, <1>2
<1>5. /\ m \in Member /\ m.q \in Queries /\ m.q \in Fixpoint
      /\ m.fp \in Results \cup {None} /\ m.q \in Derived
  BY <1>2, <1>3, <1>4, FixpointAssumption DEF Member
<1> DEFINE f == [NewFrame(m.q, "body", "EMPTY") EXCEPT !.deps = <<>>, !.n = 0]
<1>6. /\ deps' = [deps EXCEPT ![m.q] = <<>>]
      /\ stack' = Append(stack, f)
      /\ y = [scc EXCEPT !.before = m.fp]
      /\ UNCHANGED <<state, fp, vrev, dur, column, revVars, cancel, running,
                     answer, prov>>
  BY <1>3 DEF Rerun
<1>7. Rerunning(scc, prov, stack)
  BY <1>1, <1>2 DEF Scene, PhaseOK, Idle, Collecting, Finalizing
<1>8. m.q \in Enrolled(scc.members, 1) /\ m.q \in prov
  BY <1>3, <1>4, <1>7 DEF Rerunning, Enrolled
<1>9. m.q \notin Holds(stack)
  BY <1>1, <1>2, <1>8, SceneFinal
<1>10. state[m.q] = "RUNNING" /\ m.q \in running
  BY <1>5, <1>8, <1>9 DEF XInv, RunOK
<1>11. f \in Frame /\ f.q = m.q /\ f.mode = "body" /\ f.deps = <<>>
  <2>1. <<>> \in ValueSeqs /\ <<>> \in Seq(Dep)
    BY ConstantsAssumption DEF ValueSeqs
  <2>2. PICK g : g = NewFrame(m.q, "body", "EMPTY")
    OBVIOUS
  <2>3. deps[m.q] \in Seq(Dep)
    BY <1>5 DEF XInv, TypeOK
  <2>4. g \in FrameFields /\ g.q = m.q /\ g.mode = "body"
    BY <1>5, <2>1, <2>2, <2>3
       DEF NewFrame, FrameFields, Tiers, DUR_LOW, DUR_HIGH
  <2>5. f = [g EXCEPT !.deps = <<>>, !.n = 0]
    BY <2>2
  <2>6. f \in FrameFields /\ f.q = m.q /\ f.mode = "body" /\ f.deps = <<>>
    BY <2>1, <2>4, <2>5 DEF FrameFields
  <2> QED
    BY <2>6 DEF Frame
<1> HIDE DEF f
<1>12. FrameOK(f, prov)
  BY <1>11 DEF FrameOK
<1>13. /\ Scene(Append(stack, f), running, prov, scc)
       /\ Holds(Append(stack, f)) = Holds(stack) \cup {f.q}
  BY <1>1, <1>2, <1>8, <1>10, <1>11, <1>12, SceneRerun
<1>14. /\ y.phase = scc.phase /\ y.root = scc.root /\ y.base = scc.base
       /\ y.i = scc.i /\ y.members = scc.members /\ y.iter = scc.iter
       /\ y \in Drives
  BY <1>2, <1>5, <1>6 DEF Drives
<1>15. SccRecord(y)
  BY <1>2, <1>14 DEF SccRecord
<1>16. Scene(stack', running', prov', scc')
  <2>1. PICK s : s = Append(stack, f)
    OBVIOUS
  <2>2. Scene(s, running, prov, scc) /\ prov # {}
    BY <1>8, <1>13, <2>1
  <2>3. Scene(s, running, prov, y)
    BY <1>2, <1>14, <2>2, SceneMembers
  <2> QED
    BY <1>3, <1>6, <2>1, <2>3
<1>17. TypeOK'
  <2>1. stack' \in Seq(Frame)
    BY <1>6, <1>13, SceneParts
  <2>2. deps' \in [Queries -> Seq(Dep)]
    BY <1>5, <1>6 DEF XInv, TypeOK
  <2> QED
    BY <1>6, <2>1, <2>2 DEF XInv, TypeOK
<1>18. RunOK(state', stack', running', cancel', prov')
  BY <1>6, <1>10, <1>11, <1>13 DEF XInv, RunOK
<1>19. Rest(req', state', stack', scc')
  BY <1>2, <1>6 DEF Rest
<1>20. prov' \subseteq Fixpoint /\ SccRecord(scc')
  BY <1>3, <1>6, <1>15 DEF XInv
<1> QED
  BY <1>16, <1>17, <1>18, <1>19, <1>20, CorePrime

\* The loop over the members ends.
LEMMA PassEndsX ==
    ASSUME XInv, PassEnds
    PROVE  Core'
<1> USE DEF vars, slotVars, revVars
<1>1. InDrive("rerun") /\ scc.phase = "rerun"
  BY DEF PassEnds, InDrive
<1>2. /\ Scene(stack, running, prov, scc) /\ SccRecord(scc)
      /\ scc \in Drives /\ req # 0 /\ Len(stack) = scc.base
      /\ Len(scc.members) \in Nat
  BY <1>1, DriveKnown
<1>3. PICK y : y = scc'
  OBVIOUS
<1>4. UNCHANGED <<vars, prov>>
  BY DEF PassEnds
<1>5. /\ y.phase \in {"rerun", "finalize"} /\ y.root = scc.root
      /\ y.base = scc.base /\ y.i = 1 /\ y.members = scc.members
      /\ y \in Drives /\ y.iter <= Len(scc.members) * 64 + 32
  <2>1. scc.iter \in Nat /\ scc.iter <= Len(scc.members) * 64 + 32
    BY <1>2 DEF SccRecord, Drives
  <2>2. CASE scc.changed /\ scc.iter + 1 < Cap
    <3>1. y = [scc EXCEPT !.i = 1, !.iter = scc.iter + 1, !.changed = FALSE]
      BY <1>3, <2>2 DEF PassEnds
    <3>2. scc.iter + 1 <= Len(scc.members) * 64 + 32 /\ scc.iter + 1 \in Nat
      BY <1>2, <2>1, <2>2 DEF Cap
    <3>3. y \in Drives /\ y.iter = scc.iter + 1
      <4>1. 1 \in Nat \ {0} /\ FALSE \in BOOLEAN
        OBVIOUS
      <4> QED
        BY <1>2, <3>1, <3>2, <4>1 DEF Drives
    <3>4. /\ y.phase = scc.phase /\ y.root = scc.root
          /\ y.base = scc.base /\ y.i = 1 /\ y.members = scc.members
      BY <1>2, <3>1 DEF Drives
    <3> QED
      BY <1>1, <3>2, <3>3, <3>4
  <2>3. CASE ~ (scc.changed /\ scc.iter + 1 < Cap)
    <3>1. y = [scc EXCEPT !.i = 1, !.phase = "finalize"]
      BY <1>3, <2>3 DEF PassEnds
    <3>2. y \in Drives /\ y.iter = scc.iter
      <4>1. 1 \in Nat \ {0} /\ "finalize" \in Phases
        BY DEF Phases
      <4> QED
        BY <1>2, <3>1, <4>1 DEF Drives
    <3>3. /\ y.phase = "finalize" /\ y.root = scc.root
          /\ y.base = scc.base /\ y.i = 1 /\ y.members = scc.members
      BY <1>2, <3>1 DEF Drives
    <3> QED
      BY <2>1, <3>2, <3>3
  <2> QED
    BY <2>2, <2>3
<1>6. SccRecord(y)
  BY <1>2, <1>5 DEF SccRecord
<1>7. Scene(stack, running, prov, y)
  BY <1>1, <1>2, <1>5, ScenePass DEF XInv
<1>8. Scene(stack', running', prov', scc')
  BY <1>3, <1>4, <1>7
<1>9. TypeOK'
  BY <1>4 DEF XInv, TypeOK
<1>10. RunOK(state', stack', running', cancel', prov')
  BY <1>4 DEF XInv
<1>11. Rest(req', state', stack', scc')
  BY <1>2, <1>4 DEF Rest
<1>12. prov' \subseteq Fixpoint /\ SccRecord(scc')
  BY <1>3, <1>4, <1>6 DEF XInv
<1> QED
  BY <1>8, <1>9, <1>10, <1>11, <1>12, CorePrime

\* A member is finalized.
LEMMA FinalizeX ==
    ASSUME OnlyMembersRead, XInv, Finalize
    PROVE  Core'
<1> USE DEF revVars
<1>1. InDrive("finalize") /\ scc.phase = "finalize" /\ scc.i <= Len(scc.members)
  BY DEF Finalize, InDrive
<1>2. /\ Scene(stack, running, prov, scc) /\ SccRecord(scc)
      /\ scc \in Drives /\ req # 0 /\ Len(stack) = scc.base
      /\ Len(scc.members) \in Nat /\ scc.i \in Nat \ {0}
      /\ \A k \in 1 .. Len(scc.members) :
           scc.members[k] \in Member /\ scc.members[k].q \in Queries
  BY <1>1, DriveKnown
<1>3. PICK m, y, P : m = scc.members[scc.i] /\ y = scc' /\ P = prov'
  OBVIOUS
<1>4. scc.i \in 1 .. Len(scc.members)
  BY <1>1, <1>2
<1>5. /\ m.q \in Queries /\ m.q \in Fixpoint /\ m.fp \in Results \cup {None}
  BY <1>2, <1>3, <1>4 DEF Member
<1>6. /\ P = prov \ {m.q} /\ y = [scc EXCEPT !.i = scc.i + 1]
      /\ \/ cancel /\ UNCHANGED <<state, fp, vrev, dur, stack>>
         \/ /\ state' = [state EXCEPT ![m.q] = "DONE"]
            /\ fp' = [fp EXCEPT ![m.q] = m.fp]
            /\ vrev' = [vrev EXCEPT ![m.q] = cur]
            /\ dur' = [dur EXCEPT ![m.q] = DUR_LOW]
            /\ stack' = RecordOnParent(stack, m.q, m.fp, DUR_LOW)
      /\ UNCHANGED <<deps, column, revVars, cancel, running, answer>>
  BY <1>3 DEF Finalize, Finalized
<1>7. m.q \in Enrolled(scc.members, 1)
  BY <1>3, <1>4 DEF Enrolled
<1>8. m.q \notin Holds(stack)
  BY <1>1, <1>2, <1>7, SceneFinal
<1>9. /\ y.phase = "finalize" /\ y.root = scc.root /\ y.base = scc.base
      /\ y.i = scc.i + 1 /\ y.members = scc.members /\ y.iter = scc.iter
      /\ y \in Drives
  <2>1. scc.i + 1 \in Nat \ {0}
    BY <1>2
  <2> QED
    BY <1>1, <1>2, <1>6, <2>1 DEF Drives
<1>10. SccRecord(y)
  BY <1>1, <1>2, <1>9 DEF SccRecord
<1>11. Scene(stack, running, P, y)
  <2>1. P = prov \ {scc.members[scc.i].q}
    BY <1>3, <1>6
  <2> QED
    BY <1>1, <1>2, <1>9, <2>1, SceneFinalized
<1>12. Scene(stack', running, P, y) /\ Holds(stack') = Holds(stack)
  <2>1. CASE stack' = stack
    BY <1>11, <2>1
  <2>2. CASE stack' = RecordOnParent(stack, m.q, m.fp, DUR_LOW)
    <3>1. DUR_LOW \in Tiers
      BY DEF Tiers, DUR_LOW, DUR_HIGH
    <3>2. /\ Scene(RecordOnParent(stack, m.q, m.fp, DUR_LOW), running, P, y)
          /\ Holds(RecordOnParent(stack, m.q, m.fp, DUR_LOW)) = Holds(stack)
      BY <1>2, <1>5, <1>9, <1>11, <3>1, FinalRecord
    <3> QED
      BY <2>2, <3>2
  <2> QED
    BY <1>6, <2>1, <2>2
<1>13. Scene(stack', running', prov', scc')
  BY <1>3, <1>6, <1>12
<1>14. TypeOK'
  <2>1. stack' \in Seq(Frame)
    BY <1>12, SceneParts
  <2>2. /\ state' \in [Queries -> SlotStates]
        /\ fp' \in [Queries -> Results \cup {None}]
        /\ vrev' \in [Queries -> 0 .. cur]
        /\ dur' \in [Queries -> Tiers]
    <3>1. DUR_LOW \in Tiers /\ "DONE" \in SlotStates
      BY DEF Tiers, DUR_LOW, DUR_HIGH, SlotStates
    <3>2. /\ state \in [Queries -> SlotStates]
          /\ fp \in [Queries -> Results \cup {None}]
          /\ vrev \in [Queries -> 0 .. cur] /\ cur \in 0 .. cur
          /\ dur \in [Queries -> Tiers]
      BY DEF XInv, TypeOK
    <3>3. /\ state' \in [Queries -> SlotStates]
          /\ fp' \in [Queries -> Results \cup {None}]
      BY <1>5, <1>6, <3>1, <3>2
    <3>4. vrev' \in [Queries -> 0 .. cur] /\ dur' \in [Queries -> Tiers]
      BY <1>5, <1>6, <3>1, <3>2
    <3> QED
      BY <3>3, <3>4
  <2> QED
    BY <1>6, <2>1, <2>2 DEF XInv, TypeOK
<1>15. RunOK(state', stack', running', cancel', prov')
  <2>1. RunOK(state, stack, running, cancel, prov)
    BY DEF XInv
  <2>2. \A q \in Queries : q # m.q => state'[q] = state[q]
    BY <1>6 DEF XInv, TypeOK
  <2>3. state'[m.q] = "RUNNING" => cancel /\ state[m.q] = "RUNNING"
    BY <1>5, <1>6 DEF XInv, TypeOK
  <2>4. Holds(stack) \subseteq Queries /\ prov \subseteq Queries
    BY HeldQueries
  <2>5. \A q \in Holds(stack') \cup P : state'[q] = "RUNNING"
    BY <1>6, <1>8, <1>12, <2>1, <2>2, <2>4 DEF RunOK
  <2>6. \A q \in Queries : state'[q] = "RUNNING" =>
          q \in Holds(stack') \/ (q \in running /\ (cancel \/ q \in P))
    BY <1>6, <1>8, <1>12, <2>1, <2>2, <2>3 DEF RunOK
  <2> QED
    BY <1>3, <1>6, <2>5, <2>6 DEF RunOK
<1>16. Rest(req', state', stack', scc')
  BY <1>2, <1>6 DEF Rest
<1>17. prov' \subseteq Fixpoint /\ SccRecord(scc')
  BY <1>3, <1>6, <1>10 DEF XInv
<1> QED
  BY <1>13, <1>14, <1>15, <1>16, <1>17, CorePrime

\* The drive ends and the wrapper of the root returns.
LEMMA DriveEndsX ==
    ASSUME XInv, DriveEnds
    PROVE  Core'
<1> USE DEF slotVars, revVars
<1>1. InDrive("finalize") /\ scc.phase = "finalize" /\ scc.i > Len(scc.members)
  BY DEF DriveEnds, InDrive
<1>2. /\ Scene(stack, running, prov, scc) /\ SccRecord(scc)
      /\ scc \in Drives /\ req # 0
      /\ Len(scc.members) \in Nat /\ scc.i \in Nat \ {0}
  BY <1>1, DriveKnown
<1>3. scc.root \in Fixpoint /\ scc.root \in Queries
  <2>1. Finalizing(scc, prov, stack)
    BY <1>1, <1>2 DEF Scene, PhaseOK, Idle, Collecting, Rerunning
  <2> QED
    BY <2>1, FixpointAssumption DEF Finalizing, Queries
<1>4. PICK v : v = column[scc.root]
  OBVIOUS
<1>5. v \in Results
  BY <1>3, <1>4 DEF XInv, TypeOK
<1>6. /\ scc' = Idle /\ stack' = ReturnTo(stack, v)
      /\ answer' = AnswerOf(stack, scc.root, v)
      /\ UNCHANGED <<slotVars, revVars, cancel, running, prov>>
  BY <1>4 DEF DriveEnds, AfterDrive
<1>7. /\ prov = {} /\ Scene(stack, running, prov, Idle)
      /\ stack # <<>> => Len(stack) > 0 /\ Awaits(Top(stack), scc.root)
  BY <1>1, <1>2, SceneOver
<1>8. /\ Scene(ReturnTo(stack, v), running, prov, Idle)
      /\ Holds(ReturnTo(stack, v)) = Holds(stack)
  <2>1. Idle.base = 0
    BY DEF Idle
  <2>2. stack # <<>> => Len(stack) > Idle.base /\ Awaits(Top(stack), scc.root)
    BY <1>7, <2>1
  <2>3. PICK x : x = Idle
    OBVIOUS
  <2>4. /\ Scene(ReturnTo(stack, v), running, prov, x)
        /\ Holds(ReturnTo(stack, v)) = Holds(stack)
    BY <1>5, <1>7, <2>2, <2>3, HandedScene
  <2> QED
    BY <2>3, <2>4
<1>9. Scene(stack', running', prov', scc')
  BY <1>6, <1>8
<1>10. TypeOK'
  <2>1. stack' \in Seq(Frame)
    BY <1>6, <1>8, SceneParts
  <2>2. answer' \in [q : Queries \cup {None}, val : Results \cup {None}]
    BY <1>3, <1>5, <1>6, AnswerType DEF XInv
  <2> QED
    BY <1>6, <2>1, <2>2 DEF XInv, TypeOK
<1>11. RunOK(state', stack', running', cancel', prov')
  BY <1>6, <1>8 DEF XInv, RunOK
<1>12. Rest(req', state', stack', scc')
  BY <1>2, <1>6 DEF Rest
<1>13. SccRecord(Idle)
  BY DEF SccRecord, Drives, Idle, Phases
<1>14. prov' \subseteq Fixpoint /\ SccRecord(scc')
  BY <1>6, <1>13 DEF XInv
<1> QED
  BY <1>9, <1>10, <1>11, <1>12, <1>14, CorePrime

-----------------------------------------------------------------------------
(* Enrolment.                                                                *)

\* Whoever waits, directly or not, for a query of a FIXPOINT kind is of such a
\* kind: the frames of a cycle are members all.
LEMMA AllMembers ==
    ASSUME OnlyMembersRead, XInv, EngineRuns, NEW q \in Fixpoint, Calls(q),
           q \in Queries, stack # <<>>, scc.base = 0
    PROVE  \A k \in 1 .. Len(stack) : stack[k].q \in Fixpoint
<1>1. /\ Scene(Caller(q), running, prov, scc)
      /\ Caller(q) # <<>> => Awaits(Top(Caller(q)), q)
      /\ stack = <<>> <=> Caller(q) = <<>>
      /\ Len(Caller(q)) = Len(stack)
  BY CallerScene
<1>2. PICK u, n : u = Caller(q) /\ n = Len(stack)
  OBVIOUS
<1>3. /\ u \in Seq(Frame) /\ n \in Nat /\ Len(u) = n /\ u # <<>>
      /\ \A k \in 1 .. n : u[k] \in Frame
  BY <1>1, <1>2, SceneParts
<1>4. n \in Nat \ {0}
  BY <1>3, TopIsFrame
<1>5. /\ \A k \in 1 .. n - 1 : k # 0 => Awaits(u[k], u[k + 1].q)
      /\ \A k \in 1 .. n : FrameOK(u[k], prov)
      /\ Awaits(u[n], q)
  BY <1>1, <1>2, <1>3 DEF Scene, StackOK, Top
<1>6. \A k \in 1 .. n : \A p \in Fixpoint : Awaits(u[k], p) => u[k].q \in Fixpoint
  BY <1>3, <1>5, AwaitsMember
<1> DEFINE T == {d \in 0 .. n - 1 : u[n - d].q \in Fixpoint}
<1>7. 0 \in T
  <2>1. n \in 1 .. n /\ n - 0 = n /\ 0 \in 0 .. n - 1
    BY <1>4
  <2>2. u[n].q \in Fixpoint
    BY <1>5, <1>6, <2>1
  <2> QED
    BY <2>1, <2>2
<1>8. ASSUME NEW d \in 0 .. n - 1 - 1, d \in T
      PROVE  d + 1 \in T
  <2>1. PICK k : k = n - (d + 1)
    OBVIOUS
  <2>2. /\ k \in 1 .. n - 1 /\ k # 0 /\ k \in 1 .. n /\ k + 1 = n - d
        /\ d + 1 \in 0 .. n - 1
    BY <1>4, <2>1
  <2>3. u[k + 1].q \in Fixpoint
    BY <1>8, <2>2
  <2>4. Awaits(u[k], u[k + 1].q)
    BY <1>5, <2>2
  <2>5. u[k].q \in Fixpoint
    BY <1>6, <2>2, <2>3, <2>4
  <2> QED
    BY <2>1, <2>2, <2>5
<1> HIDE DEF T
<1>9. 0 .. n - 1 \subseteq T
  <2>1. n - 1 \in Nat
    BY <1>4
  <2> QED
    BY <1>7, <1>8, <2>1, IntervalInduction
<1>10. \A k \in 1 .. n : u[k].q \in Fixpoint
  <2> TAKE k \in 1 .. n
  <2>1. PICK d : d = n - k
    OBVIOUS
  <2>2. d \in 0 .. n - 1 /\ n - d = k
    BY <1>4, <2>1
  <2>3. u[n - d].q \in Fixpoint
    BY <1>9, <2>2 DEF T
  <2> QED
    BY <2>2, <2>3
<1>11. \A k \in 1 .. n : u[k].q = stack[k].q
  <2>1. \A k \in 1 .. n : u[k] = IF k = n THEN Calling(Top(stack), q) ELSE stack[k]
    BY <1>2, CallerTop DEF XInv
  <2>2. Calling(Top(stack), q).q = Top(stack).q
    BY CallingOK
  <2> QED
    BY <1>2, <2>1, <2>2 DEF Top
<1> QED
  BY <1>2, <1>10, <1>11

\* The members: the frames from the re-entered one up.
LEMMA CycleIs ==
    ASSUME stack \in Seq(Frame), Simple(stack), NEW q, NEW h \in 1 .. Len(stack),
           stack[h].q = q, \A k \in 1 .. Len(stack) : stack[k].q \in Fixpoint
    PROVE  Cycle(q) = [j \in 1 .. Len(stack) - h + 1 |-> stack[h + j - 1].q]
<1> DEFINE N == Len(stack)
           st(k) == stack[k].q
           H == HeadFrame(q)
           Eq(f) == f = [k \in 0 .. Len(stack) |->
                           IF k < HeadFrame(q) THEN <<>>
                           ELSE IF stack[k].q \notin Fixpoint THEN f[k - 1]
                           ELSE Append(f[k - 1], stack[k].q)]
           seg(k) == [j \in 1 .. k - h + 1 |-> stack[h + j - 1].q]
           g == [k \in 0 .. N |-> IF k < h THEN <<>> ELSE seg(k)]
<1>1. N \in Nat \ {0} /\ DOMAIN stack = 1 .. N /\ h \in 1 .. N /\ h \in Nat
  <2>1. Len(stack) \in Nat /\ DOMAIN stack = 1 .. Len(stack)
    BY LenProperties
  <2> QED
    BY <2>1
<1>2. HeadFrame(q) = h
  <2> DEFINE heads == {k \in DOMAIN stack : stack[k].q = q}
  <2>1. heads = {h}
    BY <1>1 DEF Simple
  <2>2. h <= h
    BY <1>1
  <2>3. HeadFrame(q) = IF heads = {} THEN 1
                       ELSE CHOOSE k \in heads : \A j \in heads : k <= j
    BY DEF HeadFrame
  <2> HIDE DEF heads
  <2>4. (CHOOSE k \in heads : \A j \in heads : k <= j) \in heads
    BY <2>1, <2>2
  <2> QED
    BY <2>1, <2>3, <2>4
<1>3. \A k \in 1 .. N : stack[k].q \in Fixpoint
  OBVIOUS
<1>4. ASSUME NEW k \in h .. N
      PROVE  /\ seg(k) \in Seq(Fixpoint)
             /\ k = h => seg(k) = Append(<<>>, stack[k].q)
             /\ k # h => seg(k) = Append(seg(k - 1), stack[k].q)
  <2>0. k \in Nat /\ N \in Nat /\ h \in Nat \ {0} /\ k >= h /\ k <= N
    BY <1>1
  <2>1. \A j \in 1 .. k - h + 1 : h + j - 1 \in 1 .. N
    BY <2>0
  <2>2. \A j \in 1 .. k - h + 1 : stack[h + j - 1].q \in Fixpoint
    BY <1>3, <2>1
  <2>3. k - h + 1 \in Nat
    BY <2>0
  <2>4. seg(k) \in [1 .. k - h + 1 -> Fixpoint]
    BY <2>2
  <2>5. seg(k) \in Seq(Fixpoint) /\ Len(seg(k)) = k - h + 1
    BY <2>3, <2>4
  <2>6. ASSUME k = h
        PROVE  seg(k) = Append(<<>>, stack[k].q)
    <3>1. k - h + 1 = 1 /\ h + 1 - 1 = k
      BY <2>0, <2>6
    <3>2. seg(k) = [j \in 1 .. 1 |-> stack[h + j - 1].q]
      BY <3>1
    <3>3. PICK x : x = stack[k].q
      OBVIOUS
    <3>4. /\ <<x>> \in Seq({x}) /\ Len(<<x>>) = 1 /\ <<x>>[1] = x
          /\ <<x>> = Append(<<>>, x)
      OBVIOUS
    <3>5. PICK e : e = <<x>>
      OBVIOUS
    <3>6. DOMAIN e = 1 .. 1 /\ e = [j \in DOMAIN e |-> e[j]]
      BY <3>4, <3>5, LenProperties
    <3>7. \A j \in 1 .. 1 : e[j] = stack[h + j - 1].q
      BY <3>1, <3>3, <3>4, <3>5
    <3>8. e = [j \in 1 .. 1 |-> stack[h + j - 1].q]
      BY <3>6, <3>7
    <3> QED
      BY <3>2, <3>3, <3>4, <3>5, <3>8
  <2>7. ASSUME k # h
        PROVE  seg(k) = Append(seg(k - 1), stack[k].q)
    <3> DEFINE a == seg(k - 1)
               m == k - h
               b == Append(a, stack[k].q)
    <3>1. /\ (k - 1) - h + 1 = m /\ m \in Nat /\ k - h + 1 = m + 1
          /\ h + (m + 1) - 1 = k
      BY <2>0
    <3>2. a = [j \in 1 .. m |-> stack[h + j - 1].q]
      BY <3>1
    <3>3. \A j \in 1 .. m : j \in 1 .. k - h + 1
      BY <3>1
    <3> HIDE DEF m
    <3>4. a \in [1 .. m -> Fixpoint]
      BY <2>2, <3>2, <3>3
    <3>5. a \in Seq(Fixpoint) /\ Len(a) = m
      BY <3>1, <3>4
    <3>6. stack[k].q \in Fixpoint
      <4>1. k \in 1 .. N
        BY <2>0
      <4> QED
        BY <1>3, <4>1
    <3>7. \A j \in 1 .. m : a[j] = stack[h + j - 1].q
      BY <3>2
    <3> HIDE DEF a
    <3>8. /\ b \in Seq(Fixpoint) /\ Len(b) = m + 1
          /\ \A j \in 1 .. m : b[j] = a[j]
          /\ b[m + 1] = stack[k].q
      BY <3>1, <3>5, <3>6
    <3> HIDE DEF b
    <3>9. \A j \in 1 .. m + 1 : j \in 1 .. m \/ j = m + 1
      BY <3>1
    <3>10. \A j \in 1 .. m + 1 : b[j] = stack[h + j - 1].q
      BY <3>1, <3>7, <3>8, <3>9
    <3>11. DOMAIN b = 1 .. m + 1 /\ b = [j \in DOMAIN b |-> b[j]]
      BY <3>8, LenProperties
    <3>12. b = [j \in 1 .. m + 1 |-> stack[h + j - 1].q]
      BY <3>10, <3>11
    <3>13. b = seg(k)
      BY <3>1, <3>12
    <3> QED
      BY <3>13 DEF b, a
  <2> QED
    BY <2>5, <2>6, <2>7
<1> HIDE DEF seg
<1>5. \A k \in 0 .. N : g[k] = IF k < h THEN <<>> ELSE seg(k)
  OBVIOUS
<1> HIDE DEF g
<1>6. /\ \A k \in 0 .. N : k < h => g[k] = <<>>
      /\ \A k \in h .. N : g[k] = Append(g[k - 1], stack[k].q)
  <2>1. \A k \in 0 .. N : k < h => g[k] = <<>>
    BY <1>5
  <2>2. ASSUME NEW k \in h .. N
        PROVE  g[k] = Append(g[k - 1], stack[k].q)
    <3>1. k \in 0 .. N /\ ~ (k < h) /\ k - 1 \in 0 .. N
      BY <1>1
    <3>2. g[k] = seg(k)
      BY <1>5, <3>1
    <3>3. CASE k = h
      <4>1. k - 1 < h
        BY <1>1, <3>3
      <4>2. g[k - 1] = <<>>
        BY <2>1, <3>1, <4>1
      <4> QED
        BY <1>4, <3>2, <3>3, <4>2
    <3>4. CASE k # h
      <4>1. ~ (k - 1 < h)
        BY <1>1, <3>4
      <4>2. g[k - 1] = seg(k - 1)
        BY <1>5, <3>1, <4>1
      <4> QED
        BY <1>4, <3>2, <3>4, <4>2
    <3> QED
      BY <3>3, <3>4
  <2> QED
    BY <2>1, <2>2
<1>7. Eq(g)
  <2> DEFINE r == [k \in 0 .. N |-> IF k < HeadFrame(q) THEN <<>>
                                    ELSE IF stack[k].q \notin Fixpoint THEN g[k - 1]
                                    ELSE Append(g[k - 1], stack[k].q)]
  <2>1. \A k \in 0 .. N : r[k] = g[k]
    <3> TAKE k \in 0 .. N
    <3>1. CASE k < h
      BY <1>2, <1>6, <3>1
    <3>2. CASE ~ (k < h)
      <4>1. k \in h .. N /\ k \in 1 .. N
        BY <1>1, <3>2
      <4>2. stack[k].q \in Fixpoint /\ g[k] = Append(g[k - 1], stack[k].q)
        BY <1>3, <1>6, <4>1
      <4> QED
        BY <1>2, <3>2, <4>2
    <3> QED
      BY <3>1, <3>2
  <2>2. DOMAIN r = 0 .. N /\ r = [k \in DOMAIN r |-> r[k]]
    OBVIOUS
  <2>3. DOMAIN g = 0 .. N /\ g = [k \in DOMAIN g |-> g[k]]
    BY DEF g
  <2> HIDE DEF r
  <2>4. r = g
    BY <2>1, <2>2, <2>3
  <2> QED
    BY <2>4 DEF r
<1> DEFINE up == CHOOSE f : Eq(f)
<1>8. Eq(up)
  BY <1>7
<1>9. Cycle(q) = up[Len(stack)]
  BY DEF Cycle
<1> HIDE DEF up
<1>10. \A k \in 0 .. N :
         up[k] = IF k < HeadFrame(q) THEN <<>>
                 ELSE IF stack[k].q \notin Fixpoint THEN up[k - 1]
                 ELSE Append(up[k - 1], stack[k].q)
  BY <1>8
<1> HIDE DEF Eq
<1> DEFINE T == {k \in 0 .. N : up[k] = g[k]}
<1>11. 0 \in T
  <2>1. 0 \in 0 .. N /\ 0 < h
    BY <1>1
  <2> QED
    BY <1>2, <1>6, <1>10, <2>1
<1>12. ASSUME NEW n \in 0 .. N - 1, n \in T
       PROVE  n + 1 \in T
  <2>1. n + 1 \in 0 .. N /\ n + 1 \in 1 .. N /\ n + 1 - 1 = n
    BY <1>1
  <2>2. up[n] = g[n]
    BY <1>12
  <2>3. CASE n + 1 < h
    BY <1>2, <1>6, <1>10, <2>1, <2>3
  <2>4. CASE ~ (n + 1 < h)
    <3>1. n + 1 \in h .. N
      BY <1>1, <2>4
    <3>2. /\ stack[n + 1].q \in Fixpoint
          /\ g[n + 1] = Append(g[n + 1 - 1], stack[n + 1].q)
      BY <1>3, <1>6, <2>1, <3>1
    <3>3. up[n + 1] = Append(up[n + 1 - 1], stack[n + 1].q)
      <4>1. PICK m : m = n + 1
        OBVIOUS
      <4>2. m \in 0 .. N /\ ~ (m < HeadFrame(q)) /\ stack[m].q \in Fixpoint
        BY <1>2, <2>1, <2>4, <3>2, <4>1
      <4>3. up[m] = Append(up[m - 1], stack[m].q)
        BY <1>10, <4>2
      <4> QED
        BY <4>1, <4>3
    <3> QED
      BY <2>1, <2>2, <3>2, <3>3
  <2> QED
    BY <2>3, <2>4
<1> HIDE DEF T
<1>13. 0 .. N \subseteq T
  <2>1. N \in Nat
    BY <1>1
  <2> HIDE DEF N
  <2> QED
    BY <1>11, <1>12, <2>1, IntervalInduction
<1>14. up[N] = seg(N)
  <2>1. N \in 0 .. N /\ ~ (N < h)
    BY <1>1
  <2>2. up[N] = g[N]
    BY <1>13, <2>1 DEF T
  <2> QED
    BY <1>5, <2>1, <2>2
<1> QED
  BY <1>9, <1>14 DEF seg

\* A frame stays well formed when its query and the one it awaits are enrolled.
LEMMA FrameEnrolled ==
    ASSUME NEW f \in Frame, NEW P, FrameOK(f, P), NEW Q,
           f.q \in Q /\ f.mode = "walk" => \E p \in Q : Awaits(f, p)
    PROVE  FrameOK(f, Q)
BY DEF FrameOK, Awaits

\* The first re-entry enrols the frames of the cycle.
LEMMA EnrollX ==
    ASSUME OnlyMembersRead, XInv, NEW q \in Queries, Enroll(q)
    PROVE  Core'
<1> USE DEF slotVars, revVars
<1>1. /\ EngineRuns /\ Calls(q) /\ ~cancel /\ state[q] = "RUNNING"
      /\ q \in Fixpoint /\ scc.phase = "idle" /\ HandBack(q, Held(q))
  BY DEF Enroll
<1>2. scc = Idle /\ prov = {} /\ scc.base = 0
  BY <1>1 DEF XInv, Scene, PhaseOK, Collecting, Rerunning, Finalizing, Idle
<1>3. Scene(stack, running, prov, scc) /\ stack \in Seq(Frame)
  BY SceneParts DEF XInv
<1>4. q \in Holds(stack)
  BY <1>1, <1>2 DEF XInv, RunOK
<1>5. PICK h \in DOMAIN stack : stack[h].q = q
  BY <1>4 DEF Holds
<1>6. PICK n, v : n = Len(stack) /\ v = Held(q)
  OBVIOUS
<1>7. n \in Nat \ {0} /\ DOMAIN stack = 1 .. n /\ h \in 1 .. n /\ stack # <<>>
  <2>1. Len(stack) \in Nat /\ DOMAIN stack = 1 .. Len(stack)
    BY <1>3, LenProperties
  <2>2. h \in 1 .. n /\ n \in Nat
    BY <1>5, <1>6, <2>1
  <2>3. n \in Nat \ {0}
    BY <2>2
  <2>4. stack # <<>>
    BY <1>5
  <2> QED
    BY <1>6, <2>1, <2>2, <2>3, <2>4
<1>8. \A k \in 1 .. n : stack[k].q \in Fixpoint
  BY <1>1, <1>2, <1>6, <1>7, AllMembers
<1>9. Simple(stack)
  BY <1>3 DEF Scene, StackOK
<1>10. PICK c, m : m = n - h + 1 /\ c = [j \in 1 .. m |-> stack[h + j - 1].q]
  OBVIOUS
<1>11. Cycle(q) = c
  BY <1>3, <1>5, <1>6, <1>7, <1>8, <1>9, <1>10, CycleIs
<1>12. /\ m \in Nat \ {0} /\ DOMAIN c = 1 .. m
       /\ \A j \in 1 .. m : h + j - 1 \in h .. n /\ h + j - 1 \in 1 .. n
       /\ \A k \in h .. n : k - h + 1 \in 1 .. m /\ h + (k - h + 1) - 1 = k
       /\ \A k \in h .. n : k \in 1 .. n
  BY <1>7, <1>10
<1> DEFINE P == {stack[k].q : k \in h .. n}
<1>13. {c[k] : k \in DOMAIN c} = P
  <2>1. \A j \in 1 .. m : c[j] = stack[h + j - 1].q
    BY <1>10
  <2>2. \A j \in 1 .. m : c[j] \in P
    BY <1>12, <2>1
  <2>3. \A k \in h .. n : c[k - h + 1] = stack[k].q
    BY <1>12, <2>1
  <2>4. \A k \in h .. n : stack[k].q \in {c[i] : i \in DOMAIN c}
    BY <1>12, <2>3
  <2> QED
    BY <1>12, <2>2, <2>4
<1> HIDE DEF P
<1>14. P \subseteq Fixpoint /\ P \subseteq Holds(stack) /\ q \in P
  BY <1>5, <1>7, <1>8, <1>12 DEF P, Holds
<1> DEFINE ms == [k \in 1 .. m |-> [q |-> c[k], fp |-> None]]
<1>15. PICK y : y = scc'
  OBVIOUS
<1>16. /\ prov' = P
       /\ y = [Idle EXCEPT !.phase = "collect", !.root = q, !.members = ms]
  BY <1>2, <1>11, <1>12, <1>13, <1>15 DEF Enroll
<1>17. /\ ms \in Seq(Member) /\ Len(ms) = m /\ Enrolled(ms, 1) = P
  <2>1. \A k \in 1 .. m : c[k] \in P
    BY <1>12, <1>13
  <2>2. \A k \in 1 .. m : [q |-> c[k], fp |-> None] \in Member
    BY <1>14, <2>1 DEF Member
  <2>3. ms \in [1 .. m -> Member] /\ DOMAIN ms = 1 .. m
    BY <2>2
  <2>4. \A k \in 1 .. m : ms[k].q = c[k]
    OBVIOUS
  <2>5. m \in Nat
    BY <1>12
  <2> HIDE DEF ms
  <2>6. ms \in Seq(Member)
    BY <2>3, <2>5
  <2>7. Len(ms) = m
    BY <2>3, <2>5, <2>6, LenProperties
  <2>8. Enrolled(ms, 1) = {c[k] : k \in 1 .. m}
    BY <2>4, <2>7 DEF Enrolled
  <2> QED
    BY <1>12, <1>13, <2>6, <2>7, <2>8
<1> HIDE DEF ms
<1>18. /\ y.phase = "collect" /\ y.root = q /\ y.members = ms /\ y.base = 0
       /\ y.i = 1 /\ y.iter = 0 /\ y \in Drives
  <2>1. /\ Idle \in Drives /\ "collect" \in Phases
        /\ Idle.base = 0 /\ Idle.i = 1 /\ Idle.iter = 0
    BY DEF Idle, Drives, Phases
  <2> QED
    BY <1>1, <1>16, <1>17, <2>1 DEF Drives
<1>19. SccRecord(y)
  BY <1>12, <1>17, <1>18 DEF SccRecord
<1>20. v \in Results
  BY <1>6 DEF Held, XInv, TypeOK, Results, Queries
<1>21. PICK u, w : u = Caller(q) /\ w = ReturnTo(u, v)
  OBVIOUS
<1>22. /\ stack' = w /\ answer' = AnswerOf(stack, q, v)
       /\ UNCHANGED <<slotVars, revVars, cancel, running>>
  BY <1>1, <1>6, <1>21 DEF HandBack
<1>23. /\ Scene(u, running, prov, scc) /\ Holds(u) = Holds(stack)
       /\ u # <<>> /\ Awaits(Top(u), q) /\ Len(u) = n
  BY <1>1, <1>6, <1>7, <1>21, CallerScene
<1>24. Scene(w, running, prov, scc) /\ Holds(w) = Holds(stack)
  <2>1. u # <<>> => Len(u) > scc.base /\ Awaits(Top(u), q)
    BY <1>2, <1>7, <1>23
  <2> QED
    BY <1>20, <1>21, <1>23, <2>1, HandedScene
<1>25. /\ w \in Seq(Frame) /\ Len(w) = n /\ u \in Seq(Frame)
       /\ \A k \in 1 .. n : w[k] = IF k = n THEN Handed(Top(u), v) ELSE u[k]
  BY <1>21, <1>23, <1>24, SceneParts, ReturnedTop
<1>26. /\ \A k \in 1 .. n : w[k].q = stack[k].q
       /\ \A k \in 1 .. n : w[k] \in Frame
  <2>1. \A k \in 1 .. n : u[k] = IF k = n THEN Calling(Top(stack), q) ELSE stack[k]
    BY <1>1, <1>6, <1>7, <1>21, CallerTop DEF XInv
  <2>2. Calling(Top(stack), q).q = Top(stack).q
    BY <1>1, <1>7, CallingOK
  <2>3. \A k \in 1 .. n : u[k].q = stack[k].q
    BY <1>6, <2>1, <2>2 DEF Top
  <2>4. Handed(Top(u), v).q = Top(u).q
    BY <1>23, <1>25, TopIsFrame, HandedFields
  <2>5. Top(u) = u[n]
    BY <1>23 DEF Top
  <2>6. \A k \in 1 .. n : w[k].q = u[k].q
    BY <1>25, <2>4, <2>5
  <2>7. \A k \in 1 .. n : w[k] \in Frame
    BY <1>25, ElementOfSeq
  <2> QED
    BY <2>3, <2>6, <2>7
<1>27. \A k \in 1 .. n - 1 : Awaits(w[k], w[k + 1].q)
  <2>1. \A k \in 1 .. n - 1 : k # 0
    BY <1>7
  <2> QED
    BY <1>2, <1>24, <1>25, <2>1 DEF Scene, StackOK
<1>28. w[n].mode = "walk" => Awaits(w[n], q)
  <2>1. w[n] = Handed(Top(u), v) /\ Top(u) \in Frame
    <3>1. n \in 1 .. n
      BY <1>7
    <3> QED
      BY <1>23, <1>25, <3>1, TopIsFrame
  <2>2. Handed(Top(u), v).mode = Top(u).mode
    BY <2>1, HandedFields
  <2>3. Top(u).mode = "walk" => Handed(Top(u), v) = Top(u)
    BY DEF Handed
  <2> QED
    BY <1>23, <2>1, <2>2, <2>3
<1>29. \A k \in 1 .. h - 1 : w[k].q \notin P
  <2> TAKE k \in 1 .. h - 1
  <2>1. k \in 1 .. n /\ \A j \in h .. n : j \in 1 .. n /\ j # k
    BY <1>7
  <2>2. \A j \in h .. n : stack[k].q # stack[j].q
    BY <1>7, <1>9, <2>1 DEF Simple
  <2> QED
    BY <1>26, <2>1, <2>2 DEF P
<1>30. \A k \in 1 .. n : FrameOK(w[k], P)
  <2> TAKE k \in 1 .. n
  <2>1. FrameOK(w[k], prov) /\ w[k] \in Frame
    BY <1>24, <1>25, <1>26 DEF Scene, StackOK
  <2>2. CASE k < h
    <3>1. k \in 1 .. h - 1
      BY <1>7, <2>2
    <3>2. w[k].q \notin P
      BY <1>29, <3>1
    <3> QED
      BY <2>1, <3>2, FrameEnrolled
  <2>3. CASE k = n
    <3>1. w[k].mode = "walk" => Awaits(w[k], q)
      BY <1>28, <2>3
    <3> QED
      BY <1>14, <2>1, <3>1, FrameEnrolled
  <2>4. CASE ~ (k < h) /\ k # n
    <3>1. k \in 1 .. n - 1 /\ k + 1 \in h .. n /\ k + 1 \in 1 .. n
      BY <1>7, <2>4
    <3>2. Awaits(w[k], w[k + 1].q)
      BY <1>27, <3>1
    <3>3. w[k + 1].q \in P
      BY <1>26, <3>1 DEF P
    <3> QED
      BY <2>1, <3>2, <3>3, FrameEnrolled
  <2> QED
    BY <2>2, <2>3, <2>4
<1>31. StackOK(w, running, P, 0, q)
  <2>1. Simple(w) /\ BodiesIn(w, running)
    BY <1>24 DEF Scene, StackOK
  <2>2. 0 \in 0 .. n
    BY <1>7
  <2> QED
    BY <1>25, <1>27, <1>30, <2>1, <2>2 DEF StackOK
<1>32. Collecting(y, P, w)
  <2>1. w[h].q = q /\ h \in 1 .. Len(w)
    BY <1>5, <1>7, <1>25, <1>26
  <2> QED
    BY <1>14, <1>17, <1>18, <1>29, <2>1 DEF Collecting
<1>33. Scene(w, running, P, y)
  BY <1>18, <1>31, <1>32 DEF Scene, PhaseOK
<1>34. Scene(stack', running', prov', scc')
  BY <1>15, <1>16, <1>22, <1>33
<1>35. TypeOK'
  <2>1. answer' \in [q : Queries \cup {None}, val : Results \cup {None}]
    BY <1>20, <1>22, AnswerType DEF XInv
  <2> QED
    BY <1>22, <1>25, <2>1 DEF XInv, TypeOK
<1>36. RunOK(state', stack', running', cancel', prov')
  <2>1. RunOK(state, stack, running, cancel, prov)
    BY DEF XInv
  <2>2. \A p \in Holds(w) \cup P : state[p] = "RUNNING"
    BY <1>14, <1>24, <2>1 DEF RunOK
  <2>3. \A p \in Queries : state[p] = "RUNNING" => p \in Holds(w)
    BY <1>1, <1>2, <1>24, <2>1 DEF RunOK
  <2> QED
    BY <1>16, <1>22, <2>2, <2>3 DEF RunOK
<1>37. Rest(req', state', stack', scc')
  BY <1>1, <1>22, CalledWithin DEF Rest
<1>38. prov' \subseteq Fixpoint /\ SccRecord(scc')
  BY <1>14, <1>15, <1>16, <1>19
<1> QED
  BY <1>34, <1>35, <1>36, <1>37, <1>38, CorePrime

\* Every way a call ends without a computation.
LEMMA ReentryX ==
    ASSUME OnlyMembersRead, XInv, NEW q \in Queries, Reentry(q)
    PROVE  Core'
<1>1. Held(q) \in Results
  BY DEF Held, XInv, TypeOK, Results, Queries
<1>2. Provisional(q) \in Results
  BY <1>1 DEF Provisional, XInv, TypeOK
<1>3. CASE Enroll(q)
  BY <1>3, EnrollX
<1>4. CASE Canceled(q)
  BY <1>1, <1>4, HandBackStep DEF Canceled
<1>5. CASE ReEnter(q)
  BY <1>2, <1>5, HandBackStep DEF ReEnter
<1>6. CASE FallBack(q)
  BY <1>1, <1>6, HandBackStep DEF FallBack
<1> QED
  BY <1>3, <1>4, <1>5, <1>6 DEF Reentry

-----------------------------------------------------------------------------
(* Between queries.                                                          *)

\* Without an SCC the invariant is that of QueryEngineProofs.
LEMMA ShellWhenIdle ==
    ASSUME XInv, scc = Idle
    PROVE  Shell /\ prov = {}
<1>1. prov = {} /\ scc.base = 0
  BY DEF XInv, Scene, PhaseOK, Collecting, Rerunning, Finalizing, Idle
<1>2. StackOK(stack, running, prov, 0, scc.root)
  BY <1>1 DEF XInv, Scene
<1>3. StackInv(stack, running)
  <2>1. Len(stack) \in Nat
    BY <1>2, LenProperties DEF StackOK
  <2>2. \A k \in 1 .. Len(stack) - 1 : k # 0
    BY <2>1
  <2> QED
    BY <1>2, <2>2 DEF StackOK, StackInv, Chain
<1>4. RunningInv(state, stack, running, cancel)
  BY <1>1 DEF XInv, RunOK, RunningInv
<1>5. NoRunningBetweenRequests /\ TypeOK
  BY DEF XInv, Rest, NoRunningBetweenRequests
<1> QED
  BY <1>1, <1>3, <1>4, <1>5, ShellShape

\* And back, when no query is running.
LEMMA IdleFromShell ==
    ASSUME Shell', stack' = <<>>, scc' = Idle, prov' = {}
    PROVE  Core'
<1>1. /\ TypeOK' /\ StackInv(stack', running')
      /\ RunningInv(state', stack', running', cancel')
      /\ NoRunningBetweenRequests'
  BY DEF Shell, TypeOK, StackIsSimple, CallChain, RunningIsAccounted, OnStack,
         StackInv, RunningInv, Simple, Chain, BodiesIn, Holds
<1>2. Scene(stack', running', prov', scc')
  <2>1. Idle.base = 0 /\ Len(<<>>) = 0
    BY DEF Idle
  <2>2. Simple(<<>>) /\ BodiesIn(<<>>, running') /\ <<>> \in Seq(Frame)
    BY DEF Simple, BodiesIn
  <2>3. 1 .. 0 - 1 = {} /\ 1 .. 0 = {} /\ 0 \in 0 .. 0
    OBVIOUS
  <2>4. StackOK(<<>>, running', {}, 0, Idle.root)
    BY <2>1, <2>2, <2>3 DEF StackOK
  <2> QED
    BY <2>1, <2>4 DEF Scene, PhaseOK
<1>3. RunOK(state', stack', running', cancel', prov')
  BY <1>1 DEF RunningInv, RunOK
<1>4. Rest(req', state', stack', scc')
  BY <1>1 DEF NoRunningBetweenRequests, Rest
<1>5. SccRecord(Idle)
  BY DEF SccRecord, Drives, Idle, Phases
<1> QED
  BY <1>1, <1>2, <1>3, <1>4, <1>5, CorePrime

\* Requests and edits.
LEMMA OutsideX ==
    ASSUME XInv, Outside
    PROVE  Core' /\ DepsOK(deps') /\ InputsAreAuthoritative'
<1> USE DEF slotVars, revVars
<1>1. UNCHANGED <<prov, scc>> /\ scc.phase \in {"idle", "collect"}
  BY DEF Outside
<1>2. /\ deps \in [Queries -> Seq(Dep)] /\ DepsOK(deps)
      /\ InputsAreAuthoritative /\ column \in [Queries -> Results]
      /\ fp \in [Queries -> Results \cup {None}]
  BY DEF XInv, TypeOK
<1>3. req = 0 => scc = Idle /\ stack = <<>>
  BY DEF XInv, Rest
<1>4. ASSUME NEW r \in 1 .. MaxRev, RequestBegin(r)
      PROVE  Core' /\ DepsOK(deps') /\ InputsAreAuthoritative'
  <2>1. /\ scc = Idle /\ stack' = <<>>
        /\ UNCHANGED <<state, fp, deps, column>>
    BY <1>3, <1>4 DEF RequestBegin
  <2>2. Shell /\ prov = {}
    BY <2>1, ShellWhenIdle
  <2>3. Shell'
    BY <1>4, <2>2, RequestBeginStep
  <2>4. Core'
    BY <1>1, <2>1, <2>2, <2>3, IdleFromShell
  <2>5. DepsOK(deps') /\ InputsAreAuthoritative'
    BY <1>2, <2>1 DEF InputsAreAuthoritative
  <2> QED
    BY <2>4, <2>5
<1>5. CASE RequestEnd
  <2>1. stack = <<>> /\ stack' = <<>>
    BY <1>5 DEF RequestEnd
  <2>2. scc = Idle
    <3>1. PhaseOK(scc, prov, stack)
      BY DEF XInv, Scene
    <3>2. ~ Collecting(scc, prov, stack)
      <4>1. 1 .. Len(stack) = {}
        BY <2>1
      <4> QED
        BY <4>1 DEF Collecting
    <3> QED
      BY <1>1, <3>1, <3>2 DEF PhaseOK, Rerunning, Finalizing
  <2>3. Shell /\ prov = {}
    BY <2>2, ShellWhenIdle
  <2>4. Shell'
    BY <1>5, <2>3, RequestEndStep
  <2>5. Core'
    BY <1>1, <2>1, <2>2, <2>3, <2>4, IdleFromShell
  <2>6. \A q \in Queries : deps'[q] = <<>> \/ deps'[q] = deps[q]
    BY <1>5 DEF RequestEnd
  <2>7. DepsOK(deps')
    <3>1. \A q \in Derived : q \in Queries
      BY DEF Queries
    <3>2. 1 .. Len(<<>>) = {}
      OBVIOUS
    <3> QED
      BY <1>2, <2>6, <3>1, <3>2 DEF DepsOK
  <2>8. InputsAreAuthoritative'
    BY <1>2, <1>5, <2>3, InputUntouched DEF Machinery, InputsAreAuthoritative
  <2> QED
    BY <2>5, <2>7, <2>8
<1>6. ASSUME NEW i \in Inputs, NEW v \in TextsOf[i], InputEdit(i, v)
      PROVE  Core' /\ DepsOK(deps') /\ InputsAreAuthoritative'
  <2>1. v \in Values
    BY FixpointAssumption
  <2>2. req = 0 /\ stack' = stack /\ deps' = deps
    BY <1>6 DEF InputEdit, Changed
  <2>3. scc = Idle /\ stack' = <<>>
    BY <1>3, <2>2
  <2>4. Shell /\ prov = {}
    BY <2>3, ShellWhenIdle
  <2>5. Shell'
    BY <1>6, <2>1, <2>4, InputEditStep
  <2>6. Core'
    BY <1>1, <2>3, <2>4, <2>5, IdleFromShell
  <2>7. DepsOK(deps')
    BY <1>2, <2>2
  <2>8. InputsAreAuthoritative'
    BY <1>2, <1>6 DEF InputEdit, InputsAreAuthoritative, Queries
  <2> QED
    BY <2>6, <2>7, <2>8
<1> QED
  BY <1>4, <1>5, <1>6 DEF Outside

\* A cancel, and a step that changes nothing.
LEMMA CancelX ==
    ASSUME XInv, (RequestCancel /\ UNCHANGED <<prov, scc>>) \/ UNCHANGED sccVars
    PROVE  XInv'
<1> USE DEF slotVars, revVars
<1>1. /\ UNCHANGED <<state, fp, vrev, dur, deps, column, stack, cur, req,
                     lastChanged, running, answer, prov, scc>>
      /\ cancel' = cancel \/ cancel' = TRUE
  BY DEF RequestCancel, sccVars, vars
<1>2. TypeOK'
  BY <1>1 DEF XInv, TypeOK
<1>3. Scene(stack', running', prov', scc') /\ Rest(req', state', stack', scc')
  BY <1>1 DEF XInv
<1>4. RunOK(state', stack', running', cancel', prov')
  BY <1>1 DEF XInv, RunOK
<1>5. prov' \subseteq Fixpoint /\ SccRecord(scc')
  BY <1>1 DEF XInv
<1>6. Core'
  BY <1>2, <1>3, <1>4, <1>5, CorePrime
<1>7. DepsOK(deps') /\ InputsAreAuthoritative'
  BY <1>1 DEF XInv, InputsAreAuthoritative
<1> QED
  BY <1>6, <1>7, XInvPrime

-----------------------------------------------------------------------------
(* Memos and inputs.                                                         *)

\* A step that writes the slot of one derived query.
LEMMA OneSlot ==
    ASSUME XInv, NEW q \in Derived,
           \A p \in Queries : p # q =>
             /\ state'[p] = state[p] /\ fp'[p] = fp[p]
             /\ column'[p] = column[p] /\ deps'[p] = deps[p],
           q \notin Fixpoint =>
             \A k \in 1 .. Len(deps'[q]) : deps'[q][k].q \notin Fixpoint
    PROVE  DepsOK(deps') /\ InputsAreAuthoritative'
<1>1. DepsOK(deps) /\ InputsAreAuthoritative
  BY DEF XInv
<1>2. DepsOK(deps')
  BY <1>1 DEF DepsOK, Queries
<1>3. \A i \in Inputs : i # q /\ i \in Queries
  BY ConstantsAssumption DEF Queries
<1>4. InputsAreAuthoritative'
  BY <1>1, <1>3 DEF InputsAreAuthoritative
<1> QED
  BY <1>2, <1>4

\* A step that writes none.
LEMMA NoSlot ==
    ASSUME XInv, UNCHANGED <<state, fp, column, deps>>
    PROVE  DepsOK(deps') /\ InputsAreAuthoritative'
BY DEF XInv, DepsOK, InputsAreAuthoritative

\* What the frame on top recorded.
LEMMA TopDeps ==
    ASSUME XInv, stack # <<>>
    PROVE  /\ Top(stack).q \in Derived
           /\ Top(stack).q \notin Fixpoint =>
                \A k \in 1 .. Len(Top(stack).deps) :
                    Top(stack).deps[k].q \notin Fixpoint
BY TopKnown DEF FrameOK

\* The steps of the engine.
LEMMA OrdinaryMemos ==
    ASSUME XInv, Ordinary
    PROVE  DepsOK(deps') /\ InputsAreAuthoritative'
<1> USE DEF slotVars
<1> DEFINE t == Top(stack)
<1>1. /\ state \in [Queries -> SlotStates]
      /\ fp \in [Queries -> Results \cup {None}]
      /\ deps \in [Queries -> Seq(Dep)]
      /\ column \in [Queries -> Results]
      /\ DepsOK(deps)
  BY DEF XInv, TypeOK
<1>2. ASSUME NEW q \in Queries, BeginEmpty(q) \/ BeginWalk(q)
      PROVE  DepsOK(deps') /\ InputsAreAuthoritative'
  <2>1. q \in Derived
    BY <1>2, FrameIsDerived DEF XInv, BeginEmpty, BeginWalk
  <2>2. /\ deps' = deps /\ fp' = fp /\ state' = [state EXCEPT ![q] = "RUNNING"]
        /\ column' = column \/ column' = [column EXCEPT ![q] = Bottom]
    BY <1>2 DEF BeginEmpty, BeginWalk
  <2>3. \A p \in Queries : p # q =>
          /\ state'[p] = state[p] /\ fp'[p] = fp[p]
          /\ column'[p] = column[p] /\ deps'[p] = deps[p]
    BY <1>1, <2>2
  <2>4. q \notin Fixpoint =>
          \A k \in 1 .. Len(deps'[q]) : deps'[q][k].q \notin Fixpoint
    BY <1>1, <2>1, <2>2 DEF DepsOK
  <2> QED
    BY <2>1, <2>3, <2>4, OneSlot
<1>3. CASE (\E q \in Queries : BeginHit(q)) \/ WalkNext
  BY <1>3, NoSlot DEF BeginHit, WalkNext
<1>4. CASE WalkFail
  <2>1. stack # <<>> /\ deps' = deps /\ state' = state /\ column' = column
        /\ fp' = [fp EXCEPT ![t.q] = None]
    BY <1>4 DEF WalkFail, AtDep, Walking
  <2>2. t.q \in Derived
    BY <2>1, TopDeps
  <2> HIDE DEF t
  <2>3. \A p \in Queries : p # t.q =>
          /\ state'[p] = state[p] /\ fp'[p] = fp[p]
          /\ column'[p] = column[p] /\ deps'[p] = deps[p]
    BY <1>1, <2>1
  <2>4. t.q \notin Fixpoint =>
          \A k \in 1 .. Len(deps'[t.q]) : deps'[t.q][k].q \notin Fixpoint
    BY <1>1, <2>1, <2>2 DEF DepsOK
  <2> QED
    BY <2>2, <2>3, <2>4, OneSlot
<1>5. CASE WalkEnd \/ (stack # <<>> /\ (Succeed \/ BailOut))
  <2> DEFINE v == Upcoming(t).val
  <2>1. /\ stack # <<>> /\ deps' = [deps EXCEPT ![t.q] = t.deps]
        /\ \/ state' = state \/ state' = [state EXCEPT ![t.q] = t.prev]
           \/ state' = [state EXCEPT ![t.q] = "DONE"]
        /\ fp' = fp \/ fp' = [fp EXCEPT ![t.q] = v]
        /\ column' = column \/ column' = [column EXCEPT ![t.q] = v]
    BY <1>5 DEF WalkEnd, Walking, Succeed, BailOut
  <2>2. /\ t.q \in Derived /\ t.q \in Queries
        /\ t.q \notin Fixpoint =>
             \A k \in 1 .. Len(t.deps) : t.deps[k].q \notin Fixpoint
    BY <2>1, TopDeps DEF Queries
  <2> HIDE DEF t, v
  <2>3. \A p \in Queries : p # t.q =>
          /\ state'[p] = state[p] /\ fp'[p] = fp[p]
          /\ column'[p] = column[p] /\ deps'[p] = deps[p]
    BY <1>1, <2>1
  <2>4. deps'[t.q] = t.deps
    BY <1>1, <2>1, <2>2
  <2> QED
    BY <2>2, <2>3, <2>4, OneSlot
<1> QED
  BY <1>2, <1>3, <1>4, <1>5 DEF Ordinary

\* The steps of the drive.
LEMMA DriveMemos ==
    ASSUME XInv, Drive
    PROVE  DepsOK(deps') /\ InputsAreAuthoritative'
<1> USE DEF slotVars
<1> DEFINE t == Top(stack)
<1>1. /\ state \in [Queries -> SlotStates]
      /\ fp \in [Queries -> Results \cup {None}]
      /\ deps \in [Queries -> Seq(Dep)]
      /\ column \in [Queries -> Results]
      /\ DepsOK(deps)
  BY DEF XInv, TypeOK
<1>2. CASE MemberReturns \/ RootReturns \/ RerunReturns
  <2> DEFINE v == Upcoming(t).val
  <2>1. /\ stack # <<>> /\ deps' = [deps EXCEPT ![t.q] = t.deps]
        /\ state' = state /\ fp' = fp /\ column' = [column EXCEPT ![t.q] = v]
    BY <1>2 DEF MemberReturns, RootReturns, RerunReturns, EnrolledReturn,
                Finishing, Iterate
  <2>2. /\ t.q \in Derived /\ t.q \in Queries
        /\ t.q \notin Fixpoint =>
             \A k \in 1 .. Len(t.deps) : t.deps[k].q \notin Fixpoint
    BY <2>1, TopDeps DEF Queries
  <2> HIDE DEF t, v
  <2>3. \A p \in Queries : p # t.q =>
          /\ state'[p] = state[p] /\ fp'[p] = fp[p]
          /\ column'[p] = column[p] /\ deps'[p] = deps[p]
    BY <1>1, <2>1
  <2>4. deps'[t.q] = t.deps
    BY <1>1, <2>1, <2>2
  <2> QED
    BY <2>2, <2>3, <2>4, OneSlot
<1>3. CASE PassEnds \/ DriveEnds
  BY <1>3, NoSlot DEF PassEnds, DriveEnds, vars
<1>4. CASE Rerun \/ Finalize
  <2>1. /\ InDrive("rerun") \/ InDrive("finalize")
        /\ scc.i <= Len(scc.members)
    BY <1>4 DEF Rerun, Finalize
  <2>2. PICK m : m = scc.members[scc.i]
    OBVIOUS
  <2>3. m.q \in Fixpoint /\ m.q \in Derived
    <3>1. /\ Len(scc.members) \in Nat /\ scc.i \in Nat \ {0}
          /\ \A k \in 1 .. Len(scc.members) : scc.members[k] \in Member
      BY <2>1, DriveKnown
    <3>2. scc.i \in 1 .. Len(scc.members)
      BY <2>1, <3>1
    <3> QED
      BY <2>2, <3>1, <3>2, FixpointAssumption DEF Member
  <2>4. \A p \in Queries : p # m.q =>
          /\ state'[p] = state[p] /\ fp'[p] = fp[p]
          /\ column'[p] = column[p] /\ deps'[p] = deps[p]
    <3>1. CASE Rerun
      BY <1>1, <2>2, <3>1 DEF Rerun
    <3>2. CASE Finalize
      <4>1. /\ state' = state \/ state' = [state EXCEPT ![m.q] = "DONE"]
            /\ fp' = fp \/ fp' = [fp EXCEPT ![m.q] = m.fp]
            /\ column' = column /\ deps' = deps
        BY <2>2, <3>2 DEF Finalize
      <4> QED
        BY <1>1, <4>1
    <3> QED
      BY <1>4, <3>1, <3>2
  <2> QED
    BY <2>3, <2>4, OneSlot
<1> QED
  BY <1>2, <1>3, <1>4 DEF Drive

-----------------------------------------------------------------------------
(* The theorems.                                                             *)

\* Every step of the engine and of the drive preserves the invariant.
THEOREM SccInductive == OnlyMembersRead /\ XInv /\ [SccNext]_sccVars => XInv'
<1> SUFFICES ASSUME OnlyMembersRead, XInv, [SccNext]_sccVars
             PROVE  XInv'
  OBVIOUS
<1>1. ASSUME NEW q \in Queries, Reentry(q)
      PROVE  XInv'
  <2>1. Core'
    BY <1>1, ReentryX
  <2>2. UNCHANGED <<state, fp, column, deps>>
    BY <1>1 DEF Reentry, Canceled, Enroll, ReEnter, FallBack, HandBack, slotVars
  <2> QED
    BY <2>1, <2>2, NoSlot, XInvPrime
<1>2. CASE Ordinary
  <2>1. EngineRuns /\ UNCHANGED <<prov, scc>>
    BY <1>2 DEF Ordinary
  <2>2. Core'
    BY <1>2, <2>1, BeginStep, HitStep, WalkStep, WalkEndX, BodyEndX DEF Ordinary
  <2> QED
    BY <1>2, <2>2, OrdinaryMemos, XInvPrime
<1>3. CASE Drive
  <2>1. Core'
    BY <1>3, MemberReturnsX, ToTheDrive, RerunX, PassEndsX, FinalizeX, DriveEndsX
       DEF Drive
  <2> QED
    BY <1>3, <2>1, DriveMemos, XInvPrime
<1>4. CASE Outside
  BY <1>4, OutsideX, XInvPrime
<1>5. CASE (RequestCancel /\ UNCHANGED <<prov, scc>>) \/ UNCHANGED sccVars
  BY <1>5, CancelX
<1> QED
  BY <1>1, <1>2, <1>3, <1>4, <1>5 DEF SccNext

\* XInv holds in every reachable state.
THEOREM SccInvariance == OnlyMembersRead => (SccSpec => []XInv)
<1>1. SccInit => XInv
  <2> SUFFICES ASSUME SccInit
               PROVE  XInv
    OBVIOUS
  <2>1. Init /\ prov = {} /\ scc = Idle /\ stack = <<>> /\ req = 0
    BY DEF SccInit, Init
  <2>2. Shell
    BY <2>1, InitStep
  <2>3. /\ TypeOK /\ StackInv(stack, running)
        /\ RunningInv(state, stack, running, cancel)
        /\ NoRunningBetweenRequests
    BY <2>2, ShellShape
  <2>4. Scene(stack, running, prov, scc)
    <3>1. Idle.base = 0 /\ Len(<<>>) = 0
      BY DEF Idle
    <3>2. Simple(<<>>) /\ BodiesIn(<<>>, running) /\ <<>> \in Seq(Frame)
      BY DEF Simple, BodiesIn
    <3>3. 1 .. 0 - 1 = {} /\ 1 .. 0 = {} /\ 0 \in 0 .. 0
      OBVIOUS
    <3>4. StackOK(<<>>, running, {}, 0, Idle.root)
      BY <3>1, <3>2, <3>3 DEF StackOK
    <3> QED
      BY <2>1, <3>1, <3>4 DEF Scene, PhaseOK
  <2>5. RunOK(state, stack, running, cancel, prov)
    BY <2>1, <2>3 DEF RunningInv, RunOK
  <2>6. Rest(req, state, stack, scc)
    BY <2>1, <2>3 DEF NoRunningBetweenRequests, Rest
  <2>7. SccRecord(scc)
    BY <2>1 DEF SccRecord, Drives, Idle, Phases
  <2>8. DepsOK(deps)
    <3>1. \A q \in Derived : deps[q] = <<>>
      BY <2>1 DEF Init, Queries
    <3>2. 1 .. Len(<<>>) = {}
      OBVIOUS
    <3> QED
      BY <3>1, <3>2 DEF DepsOK
  <2>9. InputsAreAuthoritative
    BY <2>1 DEF Init, InputsAreAuthoritative, Queries
  <2> QED
    BY <2>1, <2>3, <2>4, <2>5, <2>6, <2>7, <2>8, <2>9 DEF XInv
<1> SUFFICES ASSUME OnlyMembersRead
             PROVE  SccSpec => []XInv
  OBVIOUS
<1>2. XInv /\ [SccNext]_sccVars => XInv'
  BY SccInductive
<1> QED
  BY <1>1, <1>2, PTL DEF SccSpec

\* Type correctness of the fixpoint engine: scc_store holds members of the
\* FIXPOINT kinds, the loops of the drive stay within it, and the drive never
\* runs above more frames than there are.
THEOREM SccTypeCorrect == OnlyMembersRead => (SccSpec => []SccTypeOK)
<1>1. XInv => SccTypeOK
  <2> SUFFICES ASSUME XInv
               PROVE  SccTypeOK
    OBVIOUS
  <2>1. /\ TypeOK /\ prov \subseteq Fixpoint /\ scc \in Drives
        /\ scc.i <= Len(scc.members) + 1
        /\ scc.iter <= Len(scc.members) * 64 + 32
    BY DEF XInv, SccRecord
  <2>2. /\ scc.phase \in {"idle", "collect", "rerun", "finalize"}
        /\ scc.members \in Seq(Member) /\ scc.i \in Nat \ {0}
        /\ scc.iter \in Nat
    BY <2>1 DEF Drives, Phases
  <2>3. Len(scc.members) \in Nat
    BY <2>2, LenProperties
  <2>4. /\ scc.i \in 1 .. Len(scc.members) + 1 /\ scc.iter \in 0 .. Cap
    BY <2>1, <2>2, <2>3 DEF Cap
  <2>5. scc.base \in 0 .. Len(stack)
    BY SceneParts DEF XInv
  <2> QED
    BY <2>1, <2>2, <2>4, <2>5 DEF SccTypeOK
<1> QED
  BY <1>1, SccInvariance, PTL

\* The slot of a member stays RUNNING until db_query_fixpoint_drive finalizes
\* it: no walk, no memo hit and no db_query_succeed ends it earlier, in
\* whatever order members return, are re-entered, run again or are cancelled.
THEOREM ProvisionalAreRunning ==
    OnlyMembersRead => (SccSpec => []ProvisionalIsRunning)
<1>1. XInv => ProvisionalIsRunning
  BY DEF XInv, RunOK, ProvisionalIsRunning
<1> QED
  BY <1>1, SccInvariance, PTL

\* When the query that was called returns, its SCC is gone: scc_store is NULL
\* and no slot is left provisional.
THEOREM SccEnds == OnlyMembersRead => (SccSpec => []SccEndsWithItsCall)
<1>1. XInv => SccEndsWithItsCall
  <2> SUFFICES ASSUME XInv, ~Busy
               PROVE  scc = Idle /\ prov = {}
    BY DEF SccEndsWithItsCall
  <2>1. stack = <<>> /\ scc.phase \notin {"rerun", "finalize"}
    BY DEF Busy
  <2>2. ~ Collecting(scc, prov, stack)
    <3>1. 1 .. Len(stack) = {}
      BY <2>1
    <3> QED
      BY <3>1 DEF Collecting
  <2> QED
    BY <2>1, <2>2 DEF XInv, Scene, PhaseOK, Rerunning, Finalizing
<1> QED
  BY <1>1, SccInvariance, PTL
=============================================================================
