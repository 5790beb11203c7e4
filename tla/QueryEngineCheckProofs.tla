----------------------- MODULE QueryEngineCheckProofs -----------------------
(***************************************************************************)
(* What the engine's memos hold, in two parts.  First, for every set of    *)
(* queries and every Body: a memo holds what its body returns for the      *)
(* fingerprints recorded in its dependency list, whatever was verified,    *)
(* refreshed, cancelled, reclaimed or recomputed since.  Then, for every   *)
(* program whose queries do not read each other in a circle, keep their    *)
(* durability tier and hand a failure on, in requests that are not         *)
(* cancelled: the engine answers as if it computed everything from scratch. *)
(***************************************************************************)
EXTENDS QueryEngineCheck, QueryEngineProofs, Induction, FiniteSetTheorems

Entries(ds) == {ds[k] : k \in DOMAIN ds}

\* A list that says one thing of each query.
OneFp(E) == \A a, b \in E : a.q = b.q => a.fp = b.fp

\* A body of q that has read us reads y, which the entries E hold; the Bottom of
\* a query that may fail is a sentinel, of which nothing is recorded.
ReadsNext(q, us, y, E) ==
    LET b == Body(q, us)
    IN  /\ b.op = "read"
        /\ \/ y = Bottom /\ b.q \in MayFail
           \/ [q |-> b.q, fp |-> y] \in E

\* The values vs are what a body of q reads of the entries E, one by one.
Story(q, vs, E) ==
    \A k \in 1 .. Len(vs) : ReadsNext(q, SubSeq(vs, 1, k - 1), vs[k], E)

\* A body that reads E returns y.
Told(q, y, E) ==
    \E vs \in ValueSeqs :
        /\ Story(q, vs, E)
        /\ Body(q, vs).op = "return" /\ Body(q, vs).val = y

(***************************************************************************)
(* The invariant.  c, x and cn are the columns, the fingerprints and the   *)
(* cancel flag; S is the set of queries that are answered at once for the  *)
(* rest of the request.  A body has recorded such queries only, so what it *)
(* has read cannot change under it.  A walk holds the entries of its memo, *)
(* but a pull refreshes the entry it is about to compare: Restored undoes  *)
(* that, and Refreshed says that nothing else happened.                    *)
(***************************************************************************)
Restored(t) ==
    IF t.pulled
    THEN {IF e.q = t.deps[t.i].q THEN [q |-> e.q, fp |-> t.want] ELSE e :
            e \in Entries(t.deps)}
    ELSE Entries(t.deps)

\* A list of q is about queries that its body can read.
Readable(q, E) == \A e \in E : CanRead(q, e.q)

WalkTold(t, c, x) ==
    /\ t.pulled => t.i <= t.n /\ t.deps[t.i].q \notin Inputs
    /\ t.vals = <<>> /\ t.prev \in {"DONE", "ERROR"}
    /\ OneFp(Restored(t))
    /\ t.prev = "DONE" => c[t.q] = x[t.q] /\ Told(t.q, x[t.q], Restored(t))
    /\ t.prev = "ERROR" => t.q \in MayFail

BodyTold(t, x, S, cn) ==
    /\ ~t.pulled
    /\ \A e \in Entries(t.deps) : e.fp = x[e.q] /\ e.q \in S
    /\ ~cn => Story(t.q, t.vals, Entries(t.deps))

Kept(t, c, x, S, cn) ==
    /\ Readable(t.q, Entries(t.deps))
    /\ IF t.mode = "walk" THEN WalkTold(t, c, x) ELSE BodyTold(t, x, S, cn)

\* The entries a pull is about hold what they held, or a member of Y.
Refreshed(t, Y) ==
    t.pulled => \A e \in Entries(t.deps) :
                  e.q = t.deps[t.i].q => e.fp \in {t.want} \cup Y

\* The frames below a callee, and all of them once it has returned.
Waiting(s, c, x, S, cn) ==
    \A k \in 1 .. Len(s) : Kept(s[k], c, x, S, cn) /\ Refreshed(s[k], {})

FramesTold(s, c, x, S, cn) ==
    /\ \A k \in 1 .. Len(s) : Kept(s[k], c, x, S, cn)
    /\ \A k \in 1 .. Len(s) - 1 : Refreshed(s[k], {})
    /\ s # <<>> => Refreshed(Top(s), {x[Top(s).deps[Top(s).i].q]})

Settled ==
    {q \in Queries : state[q] \in {"DONE", "ERROR"} /\ VerifiedAtOnce(q)}

MemoTold(q, s, ds, c, y) ==
    /\ s \in {"DONE", "ERROR"} => OneFp(Entries(ds))
    /\ s = "DONE" => c = y /\ Told(q, y, Entries(ds))
    /\ s \in {"EMPTY", "ABSENT"} => ds = <<>>
    /\ s = "ERROR" => q \in MayFail
    /\ Readable(q, Entries(ds))

MemosTold == \A q \in Derived : MemoTold(q, state[q], deps[q], column[q], fp[q])

MInv == IInv /\ MemosTold /\ FramesTold(stack, column, fp, Settled, cancel)

-----------------------------------------------------------------------------
(* Stories.                                                                  *)

\* More entries tell the same story.
LEMMA StoryGrows ==
    ASSUME NEW q, NEW vs, NEW E, NEW F, E \subseteq F, Story(q, vs, E)
    PROVE  Story(q, vs, F)
BY DEF Story, ReadsNext

\* What comes before each value of a sequence that is appended to.
LEMMA Prefixes ==
    ASSUME NEW S, NEW vs \in Seq(S), NEW v \in S
    PROVE  LET ws == Append(vs, v)
               n == Len(vs)
           IN  /\ n \in Nat /\ Len(ws) = n + 1 /\ ws \in Seq(S)
               /\ \A k \in 1 .. n : ws[k] = vs[k]
               /\ ws[n + 1] = v
               /\ \A k \in 1 .. n + 1 : SubSeq(ws, 1, k - 1) = SubSeq(vs, 1, k - 1)
               /\ SubSeq(ws, 1, n) = vs
<1> DEFINE ws == Append(vs, v)
           n == Len(vs)
<1>1. n \in Nat /\ Len(ws) = n + 1 /\ ws \in Seq(S)
  BY LenProperties
<1>2. \A k \in 1 .. n : ws[k] = vs[k]
  BY <1>1
<1>3. ws[n + 1] = v
  BY <1>1
<1>4. \A k \in 1 .. n + 1 : SubSeq(ws, 1, k - 1) = SubSeq(vs, 1, k - 1)
  <2> TAKE k \in 1 .. n + 1
  <2>1. k - 1 \in Nat /\ k - 1 <= n
    BY <1>1
  <2>2. \A i \in 1 .. k - 1 : ws[i] = vs[i]
    BY <1>1, <1>2, <2>1
  <2> QED
    BY <2>1, <2>2
<1>5. SubSeq(vs, 1, n) = vs
  BY SubSeqFull
<1>6. SubSeq(ws, 1, n) = vs
  <2>1. n + 1 \in 1 .. n + 1 /\ (n + 1) - 1 = n
    BY <1>1
  <2> QED
    BY <1>4, <1>5, <2>1
<1> HIDE DEF ws, n
<1>7. /\ n \in Nat /\ Len(ws) = n + 1 /\ ws \in Seq(S)
      /\ \A k \in 1 .. n : ws[k] = vs[k]
      /\ ws[n + 1] = v
      /\ \A k \in 1 .. n + 1 : SubSeq(ws, 1, k - 1) = SubSeq(vs, 1, k - 1)
      /\ SubSeq(ws, 1, n) = vs
  BY <1>1, <1>2, <1>3, <1>4, <1>6
<1> QED
  BY <1>7 DEF ws, n

\* One more value read, recorded or a sentinel.
LEMMA StoryGoesOn ==
    ASSUME NEW q, NEW vs \in Seq(Results), NEW E, Story(q, vs, E),
           Body(q, vs).op = "read", NEW v \in Results,
           \/ v = Bottom /\ Body(q, vs).q \in MayFail
           \/ [q |-> Body(q, vs).q, fp |-> v] \in E
    PROVE  Story(q, Append(vs, v), E)
<1> DEFINE ws == Append(vs, v)
           n == Len(vs)
<1>1. /\ n \in Nat /\ Len(ws) = n + 1
      /\ \A k \in 1 .. n : ws[k] = vs[k]
      /\ ws[n + 1] = v
      /\ \A k \in 1 .. n + 1 : SubSeq(ws, 1, k - 1) = SubSeq(vs, 1, k - 1)
      /\ SubSeq(ws, 1, n) = vs
  BY Prefixes
<1>2. \A k \in 1 .. n : ReadsNext(q, SubSeq(vs, 1, k - 1), ws[k], E)
  BY <1>1 DEF Story
<1>3. ReadsNext(q, vs, v, E)
  BY DEF ReadsNext
<1> HIDE DEF ws, n
<1>4. ASSUME NEW k \in 1 .. n + 1
      PROVE  ReadsNext(q, SubSeq(ws, 1, k - 1), ws[k], E)
  <2>1. CASE k \in 1 .. n
    BY <1>1, <1>2, <2>1
  <2>2. CASE k = n + 1
    <3>1. k - 1 = n
      BY <1>1, <2>2
    <3> QED
      BY <1>1, <1>3, <2>2, <3>1
  <2> QED
    BY <1>1, <2>1, <2>2
<1> QED
  BY <1>1, <1>4 DEF Story, ws

\* The values a body can have read, as sequences and as functions.
LEMMA StoriesAre ==
    \A vs : vs \in ValueSeqs <=> vs \in Stories
<1> TAKE vs
<1>1. ASSUME vs \in ValueSeqs
      PROVE  vs \in Stories
  <2>1. vs \in Seq(Results) /\ Len(vs) \in Nat /\ Len(vs) <= MaxReads
    BY <1>1, LenProperties DEF ValueSeqs
  <2>2. Len(vs) \in 0 .. MaxReads /\ vs \in [1 .. Len(vs) -> Results]
    BY <2>1, ConstantsAssumption
  <2> QED
    BY <2>2 DEF Stories
<1>2. ASSUME vs \in Stories
      PROVE  vs \in ValueSeqs
  <2>1. PICK n \in 0 .. MaxReads : vs \in [1 .. n -> Results]
    BY <1>2 DEF Stories
  <2>2. n \in Nat /\ n <= MaxReads
    BY ConstantsAssumption
  <2>3. vs \in Seq(Results) /\ Len(vs) = n
    BY <2>1, <2>2
  <2> QED
    BY <2>2, <2>3 DEF ValueSeqs
<1> QED
  BY <1>1, <1>2

-----------------------------------------------------------------------------
(* Entries.                                                                  *)

LEMMA EntriesOf ==
    ASSUME NEW ds \in Seq(Dep)
    PROVE  /\ Entries(ds) = {ds[k] : k \in 1 .. Len(ds)}
           /\ Entries(ds) \subseteq Dep
           /\ Len(ds) \in Nat
<1>1. DOMAIN ds = 1 .. Len(ds) /\ Len(ds) \in Nat
  BY LenProperties
<1>2. \A k \in 1 .. Len(ds) : ds[k] \in Dep
  BY ElementOfSeq
<1> QED
  BY <1>1, <1>2 DEF Entries

\* record_dep_on_parent: the new entry is there, the others are as they were,
\* and only entries about the same query have gone.
LEMMA RecordedEntries ==
    ASSUME NEW t \in Frame, NEW q \in Queries,
           NEW y \in Results \cup {None}, NEW d \in Tiers
    PROVE  LET g == RecordDep(t, q, y, d)
               dep == [q |-> q, fp |-> y]
           IN  /\ dep \in Entries(g.deps)
               /\ \A e \in Entries(g.deps) : e = dep \/ e \in Entries(t.deps)
               /\ \A e \in Entries(t.deps) : e \in Entries(g.deps) \/ e.q = q
               /\ \A k \in 1 .. Len(t.deps) : g.deps[k].q = t.deps[k].q
<1> DEFINE g == RecordDep(t, q, y, d)
           dep == [q |-> q, fp |-> y]
<1>1. /\ g \in Frame
      /\ Indexed(t, q) = {} => g.deps = Append(t.deps, dep)
      /\ Indexed(t, q) # {} =>
           /\ Len(g.deps) = Len(t.deps)
           /\ \A k \in 1 .. Len(t.deps) :
                g.deps[k] = IF k \in Indexed(t, q) THEN dep ELSE t.deps[k]
  BY RecordedFields
<1> HIDE DEF g
<1>2. t.deps \in Seq(Dep) /\ g.deps \in Seq(Dep)
  BY <1>1 DEF Frame, FrameFields
<1>3. /\ Entries(t.deps) = {t.deps[k] : k \in 1 .. Len(t.deps)}
      /\ Entries(g.deps) = {g.deps[k] : k \in 1 .. Len(g.deps)}
      /\ Len(t.deps) \in Nat /\ DOMAIN t.deps = 1 .. Len(t.deps)
  BY <1>2, EntriesOf, LenProperties
<1>4. dep.q = q
  OBVIOUS
<1>5. CASE Indexed(t, q) = {}
  <2>1. /\ Len(g.deps) = Len(t.deps) + 1
        /\ \A k \in 1 .. Len(t.deps) : g.deps[k] = t.deps[k]
        /\ g.deps[Len(t.deps) + 1] = dep
    BY <1>1, <1>2, <1>5, AppendProperties
  <2>2. /\ \A k \in 1 .. Len(t.deps) + 1 : k \in 1 .. Len(t.deps) \/ k = Len(t.deps) + 1
        /\ \A k \in 1 .. Len(t.deps) : k \in 1 .. Len(t.deps) + 1
        /\ Len(t.deps) + 1 \in 1 .. Len(t.deps) + 1
    BY <1>3
  <2> HIDE DEF dep
  <2>3. Entries(g.deps) = {g.deps[k] : k \in 1 .. Len(t.deps) + 1}
    BY <1>3, <2>1
  <2>4. dep \in Entries(g.deps)
    BY <2>1, <2>2, <2>3
  <2>5. \A e \in Entries(g.deps) : e = dep \/ e \in Entries(t.deps)
    BY <1>3, <2>1, <2>2, <2>3
  <2>6. \A e \in Entries(t.deps) : e \in Entries(g.deps)
    BY <1>3, <2>1, <2>2, <2>3
  <2> QED
    BY <2>1, <2>4, <2>5, <2>6 DEF g, dep
<1>6. CASE Indexed(t, q) # {}
  <2>1. /\ Len(g.deps) = Len(t.deps)
        /\ \A k \in 1 .. Len(t.deps) :
             g.deps[k] = IF k \in Indexed(t, q) THEN dep ELSE t.deps[k]
    BY <1>1, <1>6
  <2>2. \A k \in Indexed(t, q) : k \in 1 .. Len(t.deps) /\ t.deps[k].q = q
    BY <1>3 DEF Indexed
  <2>3. PICK j \in 1 .. Len(t.deps) : j \in Indexed(t, q)
    BY <1>6, <2>2
  <2>4. dep \in Entries(g.deps)
    BY <1>3, <2>1, <2>3
  <2>5. \A e \in Entries(g.deps) : e = dep \/ e \in Entries(t.deps)
    BY <1>3, <2>1
  <2>6. \A e \in Entries(t.deps) : e \in Entries(g.deps) \/ e.q = q
    BY <1>3, <2>1, <2>2
  <2>7. \A k \in 1 .. Len(t.deps) : g.deps[k].q = t.deps[k].q
    BY <1>4, <2>1, <2>2
  <2> QED
    BY <2>4, <2>5, <2>6, <2>7 DEF g
<1> QED
  BY <1>5, <1>6

-----------------------------------------------------------------------------
(* One frame.                                                                *)

\* What a frame is made of, for the proofs below.
LEMMA FrameParts ==
    ASSUME NEW t \in Frame
    PROVE  /\ t.mode \in {"walk", "body"} /\ t.q \in Derived
           /\ t.deps \in Seq(Dep) /\ t.vals \in Seq(Results)
           /\ t.pulled \in BOOLEAN /\ t.i \in Nat \ {0} /\ t.n \in Nat
           /\ t.want \in Results \cup {None}
           /\ t.mode = "walk" => t.n <= Len(t.deps)
           /\ Entries(t.deps) \subseteq Dep
<1>1. /\ t.mode \in {"walk", "body"} /\ t.q \in Derived
      /\ t.deps \in Seq(Dep) /\ t.vals \in Seq(Results)
      /\ t.pulled \in BOOLEAN /\ t.i \in Nat \ {0} /\ t.n \in Nat
      /\ t.want \in Results \cup {None}
      /\ t.mode = "walk" => t.n <= Len(t.deps)
  BY DEF Frame, FrameFields, ValueSeqs
<1> QED
  BY <1>1, EntriesOf

\* The entry a walk is at.
LEMMA EntryAt ==
    ASSUME NEW t \in Frame, t.mode = "walk", t.i <= t.n
    PROVE  t.deps[t.i] \in Entries(t.deps) /\ t.i \in 1 .. Len(t.deps)
<1>1. t.i \in Nat \ {0} /\ t.n \in Nat /\ t.n <= Len(t.deps) /\ t.deps \in Seq(Dep)
  BY FrameParts
<1>2. Len(t.deps) \in Nat /\ Entries(t.deps) = {t.deps[k] : k \in 1 .. Len(t.deps)}
  BY <1>1, EntriesOf
<1>3. t.i \in 1 .. Len(t.deps)
  BY <1>1, <1>2
<1> QED
  BY <1>2, <1>3

\* A slot that is not the frame's own may change as long as it is not settled.
LEMMA KeptStays ==
    ASSUME NEW t \in Frame, NEW c, NEW x, NEW S, NEW cn \in BOOLEAN,
           NEW c2, NEW x2, NEW S2, NEW cn2 \in BOOLEAN,
           Kept(t, c, x, S, cn), c2[t.q] = c[t.q], x2[t.q] = x[t.q],
           \A d \in S : d \in S2 /\ x2[d] = x[d],
           cn => cn2
    PROVE  Kept(t, c2, x2, S2, cn2)
<1>1. CASE t.mode = "walk"
  BY <1>1 DEF Kept, WalkTold
<1>2. CASE t.mode # "walk"
  BY <1>2 DEF Kept, BodyTold
<1> QED
  BY <1>1, <1>2

\* A walk that is about to pull has its entries unchanged.
LEMMA KeptCalling ==
    ASSUME NEW t \in Frame, NEW q, NEW c, NEW x, NEW S, NEW cn \in BOOLEAN,
           Kept(t, c, x, S, cn),
           t.mode = "walk" =>
             ~t.pulled /\ t.i <= t.n /\ t.deps[t.i].q \notin Inputs
    PROVE  Kept(Calling(t, q), c, x, S, cn) /\ Refreshed(Calling(t, q), {})
<1> DEFINE g == Calling(t, q)
<1>1. /\ g.q = t.q /\ g.mode = t.mode /\ g.deps = t.deps
      /\ g.prev = t.prev /\ g.i = t.i /\ g.n = t.n /\ g.vals = t.vals
      /\ IF t.mode = "walk" THEN g.pulled /\ g.want = t.deps[t.i].fp
         ELSE g.pulled = t.pulled /\ g.want = t.want
  BY CallingFields
<1> HIDE DEF g
<1>2. CASE t.mode = "walk"
  <2>1. t.deps[t.i] \in Entries(t.deps) /\ Entries(t.deps) \subseteq Dep
    BY <1>2, EntryAt, FrameParts
  <2>2. WalkTold(t, c, x) /\ Restored(t) = Entries(t.deps)
    BY <1>2 DEF Kept, Restored
  <2>3. \A e \in Entries(t.deps) : e.q = t.deps[t.i].q => e.fp = t.deps[t.i].fp
    BY <2>1, <2>2 DEF WalkTold, OneFp
  <2>4. \A e \in Entries(t.deps) :
          e.q = t.deps[t.i].q => [q |-> e.q, fp |-> t.deps[t.i].fp] = e
    <3> SUFFICES ASSUME NEW e \in Entries(t.deps), e.q = t.deps[t.i].q
                 PROVE  [q |-> e.q, fp |-> t.deps[t.i].fp] = e
      OBVIOUS
    <3>1. e.fp = t.deps[t.i].fp /\ e \in Dep
      BY <2>1, <2>3
    <3> QED
      BY <3>1 DEF Dep
  <2>5. Restored(g) = Entries(t.deps)
    <3>1. Restored(g) = {IF e.q = t.deps[t.i].q
                         THEN [q |-> e.q, fp |-> t.deps[t.i].fp] ELSE e :
                           e \in Entries(t.deps)}
      BY <1>1, <1>2 DEF Restored
    <3>2. \A e \in Entries(t.deps) :
            (IF e.q = t.deps[t.i].q
             THEN [q |-> e.q, fp |-> t.deps[t.i].fp] ELSE e) = e
      BY <2>4
    <3> QED
      BY <3>1, <3>2
  <2>6. WalkTold(g, c, x)
    BY <1>1, <1>2, <2>2, <2>5 DEF WalkTold
  <2>7. Refreshed(g, {})
    BY <1>1, <1>2, <2>3 DEF Refreshed
  <2> QED
    BY <1>1, <1>2, <2>6, <2>7 DEF Kept, g
<1>3. CASE t.mode # "walk"
  <2>1. BodyTold(g, x, S, cn) /\ ~g.pulled
    BY <1>1, <1>3 DEF Kept, BodyTold
  <2> QED
    BY <1>1, <1>3, <2>1 DEF Kept, Refreshed, g
<1> QED
  BY <1>2, <1>3

\* A value handed over that nothing is recorded of is a sentinel, or the result
\* of a callee that was cancelled.
LEMMA KeptHanded ==
    ASSUME NEW t \in Frame, NEW q, NEW c, NEW x, NEW S, NEW cn \in BOOLEAN,
           Kept(t, c, x, S, cn), Awaits(t, q), NEW v \in Results,
           \/ cn
           \/ v = Bottom /\ q \in MayFail
           \/ t.mode = "body" => [q |-> q, fp |-> v] \in Entries(t.deps)
    PROVE  Kept(Handed(t, v), c, x, S, cn)
<1> DEFINE g == Handed(t, v)
<1>1. /\ g.q = t.q /\ g.mode = t.mode /\ g.deps = t.deps
      /\ g.pulled = t.pulled
      /\ g.vals = IF t.mode = "walk" THEN t.vals ELSE Append(t.vals, v)
  BY HandedFields
<1>2. t.mode = "walk" => g = t
  BY DEF Handed
<1> HIDE DEF g
<1>3. CASE t.mode = "walk"
  BY <1>2, <1>3 DEF g
<1>4. CASE t.mode # "walk"
  <2>1. t.mode = "body" /\ t.vals \in Seq(Results)
    BY <1>4, FrameParts
  <2>2. BodyTold(t, x, S, cn)
    BY <1>4 DEF Kept
  <2>3. Body(t.q, t.vals).op = "read" /\ Body(t.q, t.vals).q = q
    BY <2>1 DEF Awaits, Upcoming
  <2>4. ASSUME ~cn
        PROVE  Story(g.q, g.vals, Entries(g.deps))
    <3>1. Story(t.q, t.vals, Entries(t.deps))
      BY <2>2, <2>4 DEF BodyTold
    <3>2. \/ v = Bottom /\ Body(t.q, t.vals).q \in MayFail
          \/ [q |-> Body(t.q, t.vals).q, fp |-> v] \in Entries(t.deps)
      BY <2>1, <2>3, <2>4
    <3>3. Story(t.q, Append(t.vals, v), Entries(t.deps))
      BY <2>1, <2>3, <3>1, <3>2, StoryGoesOn
    <3> QED
      BY <1>1, <1>4, <3>3
  <2>5. BodyTold(g, x, S, cn)
    BY <1>1, <2>2, <2>4 DEF BodyTold
  <2> QED
    BY <1>1, <1>4, <2>5 DEF Kept, g
<1> QED
  BY <1>3, <1>4

\* record_dep_on_parent changes the entries and the durability only.
LEMMA RecordedRest ==
    ASSUME NEW t \in Frame, NEW q \in Queries,
           NEW y \in Results \cup {None}, NEW d \in Tiers
    PROVE  LET g == RecordDep(t, q, y, d)
           IN  /\ g \in Frame /\ g.q = t.q /\ g.mode = t.mode
               /\ g.prev = t.prev /\ g.i = t.i /\ g.n = t.n
               /\ g.pulled = t.pulled /\ g.want = t.want /\ g.vals = t.vals
<1> DEFINE g == RecordDep(t, q, y, d)
           dep == [q |-> q, fp |-> y]
<1>1. /\ g \in Frame /\ g.q = t.q /\ g.mode = t.mode
      /\ g.prev = t.prev /\ g.i = t.i /\ g.n = t.n
      /\ g.pulled = t.pulled /\ g.want = t.want /\ g.vals = t.vals
      /\ Indexed(t, q) = {} => g.deps = Append(t.deps, dep)
  BY RecordedFields
<1> QED
  BY <1>1

\* What a frame waits for is a query that its body can read.
LEMMA AwaitsReads ==
    ASSUME NEW t \in Frame, Readable(t.q, Entries(t.deps)),
           NEW q, Awaits(t, q)
    PROVE  CanRead(t.q, q)
<1>1. CASE t.mode = "walk"
  <2>1. t.i <= t.n /\ t.deps[t.i].q = q
    BY <1>1 DEF Awaits
  <2>2. t.deps[t.i] \in Entries(t.deps)
    BY <1>1, <2>1, EntryAt
  <2> QED
    BY <2>1, <2>2 DEF Readable
<1>2. CASE t.mode # "walk"
  <2>1. Body(t.q, t.vals).op = "read" /\ Body(t.q, t.vals).q = q
    BY <1>2, FrameParts DEF Awaits, Upcoming
  <2>2. t.vals \in Stories
    BY StoriesAre DEF Frame, FrameFields
  <2> QED
    BY <2>1, <2>2 DEF CanRead
<1> QED
  BY <1>1, <1>2

\* A dependency recorded: a body gains a settled entry, and a walk only the
\* entry it is about to compare.
LEMMA KeptRecorded ==
    ASSUME NEW t \in Frame, NEW q \in Queries, NEW c, NEW x, NEW S,
           NEW cn \in BOOLEAN, Kept(t, c, x, S, cn), Awaits(t, q),
           Refreshed(t, {}), q \in S, x[q] \in Results \cup {None},
           NEW d \in Tiers
    PROVE  LET g == RecordDep(t, q, x[q], d)
           IN  /\ g \in Frame /\ g.mode = t.mode /\ Awaits(g, q)
               /\ Kept(g, c, x, S, cn)
               /\ g.mode = "walk" => Refreshed(g, {x[g.deps[g.i].q]})
               /\ [q |-> q, fp |-> x[q]] \in Entries(g.deps)
<1> DEFINE g == RecordDep(t, q, x[q], d)
           dep == [q |-> q, fp |-> x[q]]
<1>1. /\ g \in Frame /\ g.q = t.q /\ g.mode = t.mode
      /\ g.prev = t.prev /\ g.i = t.i /\ g.n = t.n
      /\ g.pulled = t.pulled /\ g.want = t.want /\ g.vals = t.vals
  BY RecordedRest
<1>2. /\ dep \in Entries(g.deps)
      /\ \A e \in Entries(g.deps) : e = dep \/ e \in Entries(t.deps)
      /\ \A e \in Entries(t.deps) : e \in Entries(g.deps) \/ e.q = q
      /\ \A k \in 1 .. Len(t.deps) : g.deps[k].q = t.deps[k].q
  BY RecordedEntries
<1> HIDE DEF g
<1>3. dep.q = q /\ dep.fp = x[q]
  OBVIOUS
<1>6. Readable(g.q, Entries(g.deps))
  <2>1. Readable(t.q, Entries(t.deps))
    BY DEF Kept
  <2>2. CanRead(t.q, q)
    BY <2>1, AwaitsReads
  <2> QED
    BY <1>1, <1>2, <1>3, <2>1, <2>2 DEF Readable
<1>4. CASE t.mode = "walk"
  <2>1. t.pulled /\ t.i <= t.n /\ t.deps[t.i].q = q
    BY <1>4 DEF Awaits
  <2>2. t.deps[t.i] \in Entries(t.deps) /\ t.i \in 1 .. Len(t.deps)
    BY <1>4, <2>1, EntryAt
  <2>3. g.deps[g.i].q = q
    BY <1>1, <1>2, <2>1, <2>2
  <2>4. Awaits(g, q)
    BY <1>1, <1>4, <2>1, <2>3 DEF Awaits
  <2>5. Refreshed(g, {x[q]})
    <3> SUFFICES ASSUME NEW e \in Entries(g.deps), e.q = q
                 PROVE  e.fp \in {g.want, x[q]}
      BY <2>3 DEF Refreshed
    <3>1. CASE e = dep
      BY <1>3, <3>1
    <3>2. CASE e \in Entries(t.deps)
      BY <1>1, <2>1, <3>2 DEF Refreshed
    <3> QED
      BY <1>2, <3>1, <3>2
  <2>6. Restored(g) = Restored(t)
    <3> DEFINE Fix(e) == IF e.q = q THEN [q |-> q, fp |-> t.want] ELSE e
    <3>1. Restored(g) = {Fix(e) : e \in Entries(g.deps)}
      <4>1. Restored(g) = {IF e.q = q THEN [q |-> e.q, fp |-> t.want] ELSE e :
                             e \in Entries(g.deps)}
        BY <1>1, <2>1, <2>3 DEF Restored
      <4>2. \A e \in Entries(g.deps) :
              (IF e.q = q THEN [q |-> e.q, fp |-> t.want] ELSE e) = Fix(e)
        OBVIOUS
      <4> QED
        BY <4>1, <4>2
    <3>2. Restored(t) = {Fix(e) : e \in Entries(t.deps)}
      <4>1. Restored(t) = {IF e.q = q THEN [q |-> e.q, fp |-> t.want] ELSE e :
                             e \in Entries(t.deps)}
        BY <2>1 DEF Restored
      <4>2. \A e \in Entries(t.deps) :
              (IF e.q = q THEN [q |-> e.q, fp |-> t.want] ELSE e) = Fix(e)
        OBVIOUS
      <4> QED
        BY <4>1, <4>2
    <3>3. Fix(dep) = Fix(t.deps[t.i])
      BY <1>3, <2>1
    <3>4. \A e \in Entries(t.deps) : e.q = q => Fix(e) = Fix(dep)
      BY <1>3
    <3> HIDE DEF Fix, dep
    <3>5. Restored(g) \subseteq Restored(t)
      BY <1>2, <2>2, <3>1, <3>2, <3>3
    <3>6. Restored(t) \subseteq Restored(g)
      BY <1>2, <3>1, <3>2, <3>4
    <3> QED
      BY <3>5, <3>6
  <2>7. WalkTold(g, c, x)
    BY <1>1, <1>4, <2>1, <2>3, <2>6 DEF Kept, WalkTold
  <2> QED
    BY <1>1, <1>2, <1>4, <1>6, <2>3, <2>4, <2>5, <2>7 DEF Kept, g
<1>5. CASE t.mode # "walk"
  <2>1. t.mode = "body" /\ BodyTold(t, x, S, cn) /\ Entries(t.deps) \subseteq Dep
    BY <1>5, FrameParts DEF Kept
  <2>2. Awaits(g, q)
    BY <1>1, <2>1 DEF Awaits, Upcoming
  <2>3. \A e \in Entries(g.deps) : e.fp = x[e.q] /\ e.q \in S
    BY <1>2, <1>3, <2>1 DEF BodyTold
  <2>4. Entries(t.deps) \subseteq Entries(g.deps)
    <3> SUFFICES ASSUME NEW e \in Entries(t.deps)
                 PROVE  e \in Entries(g.deps)
      OBVIOUS
    <3>1. CASE e.q = q
      <4>1. e \in Dep /\ e.fp = x[q]
        BY <2>1, <3>1 DEF BodyTold
      <4>2. e = dep
        BY <3>1, <4>1 DEF Dep
      <4> QED
        BY <1>2, <4>2
    <3> QED
      BY <1>2, <3>1
  <2>5. ~cn => Story(g.q, g.vals, Entries(g.deps))
    BY <1>1, <2>1, <2>4, StoryGrows DEF BodyTold
  <2>6. BodyTold(g, x, S, cn)
    BY <1>1, <2>1, <2>3, <2>5 DEF BodyTold
  <2> QED
    BY <1>1, <1>2, <1>5, <1>6, <2>2, <2>6 DEF Kept, g
<1> QED
  BY <1>4, <1>5

-----------------------------------------------------------------------------
(* The stack.                                                                *)

\* Slots that are neither a frame's nor settled may change.
LEMMA WaitingStays ==
    ASSUME NEW s \in Seq(Frame), NEW c, NEW x, NEW S, NEW cn \in BOOLEAN,
           NEW c2, NEW x2, NEW S2, NEW cn2 \in BOOLEAN,
           Waiting(s, c, x, S, cn),
           \A q \in Holds(s) : c2[q] = c[q] /\ x2[q] = x[q],
           \A d \in S : d \in S2 /\ x2[d] = x[d],
           cn => cn2
    PROVE  Waiting(s, c2, x2, S2, cn2)
<1> SUFFICES ASSUME NEW k \in 1 .. Len(s)
             PROVE  Kept(s[k], c2, x2, S2, cn2) /\ Refreshed(s[k], {})
  BY DEF Waiting
<1>1. s[k] \in Frame
  BY ElementOfSeq
<1>2. s[k].q \in Holds(s)
  <2>1. k \in DOMAIN s
    BY LenProperties
  <2> QED
    BY <2>1 DEF Holds
<1>3. Kept(s[k], c, x, S, cn) /\ Refreshed(s[k], {})
  BY DEF Waiting
<1>4. Kept(s[k], c2, x2, S2, cn2)
  BY <1>1, <1>2, <1>3, KeptStays
<1> QED
  BY <1>3, <1>4

\* The stack as a callee finds it.
LEMMA CallerWaits ==
    ASSUME TypeOK, NEW q \in Queries, Calls(q),
           NEW c, NEW x, NEW S, FramesTold(stack, c, x, S, cancel)
    PROVE  Waiting(Caller(q), c, x, S, cancel)
<1>1. CASE stack = <<>>
  <2>1. Caller(q) = <<>>
    BY <1>1 DEF Caller
  <2> QED
    BY <2>1 DEF Waiting
<1>2. CASE stack # <<>>
  <2>1. /\ Len(Caller(q)) = Len(stack) /\ Len(stack) \in Nat \ {0}
        /\ \A k \in 1 .. Len(stack) :
             Caller(q)[k] = IF k = Len(stack) THEN Calling(Top(stack), q)
                            ELSE stack[k]
    BY <1>2, CallerTop
  <2>2. Top(stack) \in Frame /\ cancel \in BOOLEAN
    BY <1>2, TopIsFrame DEF TypeOK
  <2>3. Kept(Top(stack), c, x, S, cancel)
    BY <2>1 DEF FramesTold, Top
  <2>4. Top(stack).mode = "walk" =>
          /\ ~Top(stack).pulled /\ Top(stack).i <= Top(stack).n
          /\ Top(stack).deps[Top(stack).i].q \notin Inputs
    BY <1>2 DEF Calls, ConsumerCalls, BodyCalls, WalkCalls
  <2>5. /\ Kept(Calling(Top(stack), q), c, x, S, cancel)
        /\ Refreshed(Calling(Top(stack), q), {})
    BY <2>2, <2>3, <2>4, KeptCalling
  <2>6. ASSUME NEW k \in 1 .. Len(stack), k # Len(stack)
        PROVE  Kept(stack[k], c, x, S, cancel) /\ Refreshed(stack[k], {})
    <3>1. k \in 1 .. Len(stack) - 1
      BY <2>1, <2>6
    <3> QED
      BY <3>1 DEF FramesTold
  <2> QED
    BY <2>1, <2>5, <2>6 DEF Waiting
<1> QED
  BY <1>1, <1>2

\* The stack without the callee.
LEMMA PoppedWaits ==
    ASSUME NEW s \in Seq(Frame), s # <<>>, NEW c, NEW x, NEW S, NEW cn,
           FramesTold(s, c, x, S, cn)
    PROVE  Waiting(Popped(s), c, x, S, cn)
<1>1. /\ Len(Popped(s)) = Len(s) - 1 /\ Len(s) \in Nat \ {0}
      /\ \A k \in 1 .. Len(s) - 1 : Popped(s)[k] = s[k]
  BY PoppedFrames
<1>2. \A k \in 1 .. Len(s) - 1 : k \in 1 .. Len(s)
  BY <1>1
<1> QED
  BY <1>1, <1>2 DEF FramesTold, Waiting

\* A new frame on top.
LEMMA PushedTold ==
    ASSUME NEW s \in Seq(Frame), NEW f \in Frame, ~f.pulled,
           NEW c, NEW x, NEW S, NEW cn,
           Waiting(s, c, x, S, cn), Kept(f, c, x, S, cn)
    PROVE  FramesTold(Append(s, f), c, x, S, cn)
<1> DEFINE u == Append(s, f)
<1>1. /\ Len(s) \in Nat /\ Len(u) = Len(s) + 1
      /\ \A k \in 1 .. Len(s) : u[k] = s[k]
      /\ u[Len(s) + 1] = f
  BY AppendProperties, LenProperties
<1> HIDE DEF u
<1>2. Len(u) - 1 = Len(s) /\ Top(u) = f
  BY <1>1 DEF Top
<1>3. ASSUME NEW k \in 1 .. Len(u)
      PROVE  Kept(u[k], c, x, S, cn)
  <2>1. k \in 1 .. Len(s) \/ k = Len(s) + 1
    BY <1>1
  <2> QED
    BY <1>1, <2>1 DEF Waiting
<1>4. \A k \in 1 .. Len(u) - 1 : Refreshed(u[k], {})
  BY <1>1, <1>2 DEF Waiting
<1>5. Refreshed(Top(u), {x[Top(u).deps[Top(u).i].q]})
  BY <1>2 DEF Refreshed
<1> QED
  BY <1>3, <1>4, <1>5 DEF FramesTold, u

\* The top frame replaced.
LEMMA ReplacedTold ==
    ASSUME NEW s \in Seq(Frame), s # <<>>, NEW u, Len(u) = Len(s),
           NEW f, \A k \in 1 .. Len(s) : u[k] = IF k = Len(s) THEN f ELSE s[k],
           NEW c, NEW x, NEW S, NEW cn,
           \A k \in 1 .. Len(s) - 1 :
             Kept(s[k], c, x, S, cn) /\ Refreshed(s[k], {}),
           Kept(f, c, x, S, cn), Refreshed(f, {x[f.deps[f.i].q]})
    PROVE  FramesTold(u, c, x, S, cn)
<1>1. Len(s) \in Nat \ {0}
  BY TopIsFrame
<1>2. Top(u) = f
  BY <1>1 DEF Top
<1>3. \A k \in 1 .. Len(s) - 1 : k \in 1 .. Len(s) /\ k # Len(s)
  BY <1>1
<1>4. \A k \in 1 .. Len(s) : k = Len(s) \/ k \in 1 .. Len(s) - 1
  BY <1>1
<1>5. \A k \in 1 .. Len(u) : Kept(u[k], c, x, S, cn)
  BY <1>3, <1>4
<1>6. \A k \in 1 .. Len(u) - 1 : Refreshed(u[k], {})
  BY <1>3
<1> QED
  BY <1>2, <1>5, <1>6 DEF FramesTold

LEMMA RefreshedGrows ==
    ASSUME NEW t, NEW Y, Refreshed(t, {})
    PROVE  Refreshed(t, Y)
BY DEF Refreshed

\* The callee returns and has recorded nothing.
LEMMA ReturnTold ==
    ASSUME NEW s \in Seq(Frame), NEW q, s # <<>> => Awaits(Top(s), q),
           NEW c, NEW x, NEW S, NEW cn \in BOOLEAN, Waiting(s, c, x, S, cn),
           NEW v \in Results, cn \/ (v = Bottom /\ q \in MayFail)
    PROVE  FramesTold(ReturnTo(s, v), c, x, S, cn)
<1>1. CASE s = <<>>
  BY <1>1 DEF ReturnTo, FramesTold
<1>2. CASE s # <<>>
  <2>1. Top(s) \in Frame /\ Len(s) \in Nat \ {0}
    BY <1>2, TopIsFrame
  <2>2. Kept(Top(s), c, x, S, cn) /\ Refreshed(Top(s), {})
    BY <2>1 DEF Waiting, Top
  <2> DEFINE f == Handed(Top(s), v)
  <2>3. Kept(f, c, x, S, cn)
    BY <1>2, <2>1, <2>2, KeptHanded
  <2>4. f.pulled = Top(s).pulled /\ f.deps = Top(s).deps /\ f.want = Top(s).want
        /\ f.i = Top(s).i
    BY <2>1, HandedFields
  <2>5. /\ Len(ReturnTo(s, v)) = Len(s)
        /\ \A k \in 1 .. Len(s) :
             ReturnTo(s, v)[k] = IF k = Len(s) THEN f ELSE s[k]
    BY <1>2, ReturnedTop
  <2>6. \A k \in 1 .. Len(s) - 1 : k \in 1 .. Len(s)
    BY <2>1
  <2> HIDE DEF f
  <2>7. Refreshed(f, {})
    BY <2>2, <2>4 DEF Refreshed
  <2>8. Refreshed(f, {x[f.deps[f.i].q]})
    BY <2>7, RefreshedGrows
  <2>9. \A k \in 1 .. Len(s) - 1 :
          Kept(s[k], c, x, S, cn) /\ Refreshed(s[k], {})
    BY <2>6 DEF Waiting
  <2> QED
    BY <1>2, <2>3, <2>5, <2>8, <2>9, ReplacedTold
<1> QED
  BY <1>1, <1>2

\* The callee is recorded with the fingerprint it has now, and returns the
\* value it is the fingerprint of, or a sentinel.
LEMMA ReceiveTold ==
    ASSUME NEW s \in Seq(Frame), NEW q \in Queries,
           s # <<>> => Awaits(Top(s), q),
           NEW c, NEW x, NEW S, NEW cn \in BOOLEAN, Waiting(s, c, x, S, cn),
           q \in S, x[q] \in Results \cup {None}, NEW d \in Tiers,
           NEW v \in Results, (v = Bottom /\ q \in MayFail) \/ v = x[q]
    PROVE  FramesTold(ReturnTo(RecordOnParent(s, q, x[q], d), v), c, x, S, cn)
<1> DEFINE u == ReturnTo(RecordOnParent(s, q, x[q], d), v)
<1>0. Receptive(s)
  BY AwaitsReceptive
<1>1. /\ s = <<>> => u = <<>>
      /\ s # <<>> =>
           /\ Len(u) = Len(s) /\ Len(s) \in Nat \ {0}
           /\ \A k \in 1 .. Len(s) :
                u[k] = IF k = Len(s)
                       THEN Handed(RecordDep(Top(s), q, x[q], d), v)
                       ELSE s[k]
  BY <1>0, ReceivedTop
<1> HIDE DEF u
<1>2. CASE s = <<>>
  BY <1>1, <1>2 DEF FramesTold, u
<1>3. CASE s # <<>>
  <2> DEFINE g == RecordDep(Top(s), q, x[q], d)
             f == Handed(g, v)
  <2>1. Top(s) \in Frame /\ Len(s) \in Nat \ {0}
    BY <1>3, TopIsFrame
  <2>2. Kept(Top(s), c, x, S, cn) /\ Refreshed(Top(s), {})
    BY <2>1 DEF Waiting, Top
  <2>3. /\ g \in Frame /\ g.mode = Top(s).mode /\ Awaits(g, q)
        /\ Kept(g, c, x, S, cn)
        /\ g.mode = "walk" => Refreshed(g, {x[g.deps[g.i].q]})
        /\ [q |-> q, fp |-> x[q]] \in Entries(g.deps)
    BY <1>3, <2>1, <2>2, KeptRecorded
  <2> HIDE DEF g
  <2>4. Kept(f, c, x, S, cn)
    BY <2>3, KeptHanded
  <2>5. Refreshed(f, {x[f.deps[f.i].q]})
    <3>1. CASE g.mode = "walk"
      <4>1. f = g
        BY <3>1 DEF Handed
      <4> QED
        BY <2>3, <3>1, <4>1
    <3>2. CASE g.mode # "walk"
      <4>1. ~g.pulled
        BY <2>3, <3>2 DEF Kept, BodyTold
      <4>2. f.pulled = g.pulled
        BY <2>3, HandedFields
      <4> QED
        BY <4>1, <4>2 DEF Refreshed
    <3> QED
      BY <3>1, <3>2
  <2>6. \A k \in 1 .. Len(s) - 1 : k \in 1 .. Len(s)
    BY <2>1
  <2>7. \A k \in 1 .. Len(s) - 1 :
          Kept(s[k], c, x, S, cn) /\ Refreshed(s[k], {})
    BY <2>6 DEF Waiting
  <2>8. /\ Len(u) = Len(s)
        /\ \A k \in 1 .. Len(s) : u[k] = IF k = Len(s) THEN f ELSE s[k]
    BY <1>1, <1>3 DEF g
  <2> HIDE DEF f
  <2>9. FramesTold(u, c, x, S, cn)
    BY <1>3, <2>4, <2>5, <2>7, <2>8, ReplacedTold
  <2> QED
    BY <2>9 DEF u
<1> QED
  BY <1>2, <1>3

-----------------------------------------------------------------------------
(* The slots.                                                                *)

\* A step of the query thread leaves a settled slot settled, unless it writes
\* more of it than the revision of this request.
LEMMA SettledStays ==
    ASSUME UNCHANGED revVars,
           \A d \in Settled :
             /\ state'[d] = state[d] /\ dur'[d] = dur[d] /\ deps'[d] = deps[d]
             /\ vrev'[d] \in {vrev[d], Effective} /\ fp'[d] = fp[d]
    PROVE  \A d \in Settled : d \in Settled' /\ fp'[d] = fp[d]
BY DEF Settled, VerifiedAtOnce, Effective, revVars

\* A step that writes one slot.
LEMMA OneMemo ==
    ASSUME MemosTold, NEW q,
           \A d \in Derived \ {q} :
             /\ state'[d] = state[d] /\ deps'[d] = deps[d]
             /\ column'[d] = column[d] /\ fp'[d] = fp[d],
           q \in Derived =>
             MemoTold(q, state'[q], deps'[q], column'[q], fp'[q])
    PROVE  MemosTold'
<1> SUFFICES ASSUME NEW d \in Derived
             PROVE  MemoTold(d, state'[d], deps'[d], column'[d], fp'[d])
  BY DEF MemosTold
<1>1. CASE d = q
  BY <1>1
<1>2. CASE d # q
  <2>1. MemoTold(d, state[d], deps[d], column[d], fp[d])
    BY DEF MemosTold
  <2> QED
    BY <1>2, <2>1
<1> QED
  BY <1>1, <1>2

\* A query on the stack is RUNNING.
LEMMA HeldIsRunning ==
    ASSUME Shell
    PROVE  \A q \in Holds(stack) : state[q] = "RUNNING"
BY ShellShape DEF RunningInv

\* The slot of a running query holds its old list.
LEMMA RunningMemo ==
    ASSUME MInv, NEW q \in Derived, NEW s, s = "RUNNING",
           NEW ds, ds = deps[q], NEW c, NEW y
    PROVE  MemoTold(q, s, ds, c, y)
<1>1. MemoTold(q, state[q], deps[q], column[q], fp[q])
  BY DEF MInv, MemosTold
<1> QED
  BY <1>1 DEF MemoTold

-----------------------------------------------------------------------------
(* Ranks.                                                                    *)

\* The query of a frame is of a lower rank than those of the frames below.
LEMMA RanksFall ==
    ASSUME MInv, NEW rank \in [Derived -> Nat], Ranking(rank)
    PROVE  \A j \in 1 .. Len(stack) : \A k \in j .. Len(stack) :
             rank[stack[k].q] <= rank[stack[j].q]
<1>1. stack \in Seq(Frame) /\ StackInv(stack, running)
  BY ShellShape DEF MInv, IInv, StackInv
<1>2. PICK n \in Nat : n = Len(stack)
  BY <1>1, LenProperties
<1>3. \A k \in 1 .. n : stack[k] \in Frame /\ stack[k].q \in Derived
  BY <1>1, <1>2, ElementOfSeq, FrameParts
<1>4. ASSUME NEW k \in 1 .. n - 1
      PROVE  rank[stack[k + 1].q] < rank[stack[k].q]
  <2>1. k \in 1 .. n /\ k + 1 \in 1 .. n
    BY <1>2
  <2>2. Awaits(stack[k], stack[k + 1].q)
    BY <1>1, <1>2 DEF StackInv, Chain
  <2>3. Readable(stack[k].q, Entries(stack[k].deps))
    BY <1>2, <2>1 DEF MInv, FramesTold, Kept
  <2>4. CanRead(stack[k].q, stack[k + 1].q)
    BY <1>3, <2>1, <2>2, <2>3, AwaitsReads
  <2> QED
    BY <1>3, <2>1, <2>4 DEF Ranking
<1> SUFFICES ASSUME NEW j \in 1 .. n
             PROVE  \A k \in j .. n : rank[stack[k].q] <= rank[stack[j].q]
  BY <1>2
<1> DEFINE T == {m \in 0 .. n - j : rank[stack[j + m].q] <= rank[stack[j].q]}
<1>5. n - j \in Nat /\ j \in Nat /\ j + 0 = j
  BY <1>2
<1>6. \A k \in 1 .. n : rank[stack[k].q] \in Nat
  BY <1>3
<1>7. 0 \in T
  BY <1>5, <1>6
<1>8. ASSUME NEW m \in 0 .. n - j - 1, m \in T
      PROVE  m + 1 \in T
  <2>1. j + m \in 1 .. n - 1 /\ j + m \in 1 .. n /\ j + m + 1 \in 1 .. n
        /\ j + (m + 1) = j + m + 1 /\ m + 1 \in 0 .. n - j
    BY <1>2, <1>5
  <2>2. rank[stack[j + m + 1].q] < rank[stack[j + m].q]
    BY <1>4, <2>1
  <2>3. rank[stack[j + m].q] <= rank[stack[j].q]
    BY <1>8
  <2>4. rank[stack[j + m + 1].q] <= rank[stack[j].q]
    BY <1>6, <2>1, <2>2, <2>3
  <2> QED
    BY <2>1, <2>4
<1> HIDE DEF T
<1>9. 0 .. n - j \subseteq T
  BY <1>5, <1>7, <1>8, IntervalInduction
<1>10. ASSUME NEW k \in j .. n
       PROVE  rank[stack[k].q] <= rank[stack[j].q]
  <2>1. k - j \in 0 .. n - j /\ j + (k - j) = k
    BY <1>2, <1>5
  <2>2. k - j \in T
    BY <1>9, <2>1
  <2> QED
    BY <2>1, <2>2 DEF T
<1> QED
  BY <1>10

\* The top frame calls what its body can read.
LEMMA CalleeReadable ==
    ASSUME MInv, NEW q \in Queries, Calls(q), stack # <<>>
    PROVE  CanRead(Top(stack).q, q)
<1>1. PICK t : t = Top(stack)
  OBVIOUS
<1>2. stack \in Seq(Frame)
  BY DEF MInv, IInv, Shell, TypeOK
<1>3. Len(stack) \in Nat \ {0} /\ t \in Frame
  BY <1>1, <1>2, TopIsFrame
<1>4. Readable(t.q, Entries(t.deps)) /\ t.q \in Derived
  BY <1>1, <1>3, FrameParts DEF Top, MInv, FramesTold, Kept
<1>5. CASE t.mode = "walk"
  <2>1. t.i <= t.n /\ t.deps[t.i].q = q
    BY <1>1, <1>5 DEF Calls, ConsumerCalls, BodyCalls, WalkCalls
  <2>2. t.deps[t.i] \in Entries(t.deps)
    BY <1>3, <1>5, <2>1, EntryAt
  <2> QED
    BY <1>1, <1>4, <2>1, <2>2 DEF Readable
<1>6. CASE t.mode # "walk"
  <2>1. Awaits(t, q)
    BY <1>1, <1>6 DEF Calls, ConsumerCalls, BodyCalls, WalkCalls, Awaits
  <2> QED
    BY <1>1, <1>3, <1>4, <2>1, AwaitsReads
<1> QED
  BY <1>5, <1>6

\* The queries of a program without cycles never meet one.
LEMMA NoCycle ==
    ASSUME MInv, Acyclic, NEW q \in Queries, Calls(q), ~cancel
    PROVE  state[q] # "RUNNING"
<1> SUFFICES ASSUME state[q] = "RUNNING"
             PROVE  FALSE
  OBVIOUS
<1>1. PICK rank \in [Derived -> 1 .. Cardinality(Derived)] : Ranking(rank)
  BY DEF Acyclic
<1>2. rank \in [Derived -> Nat]
  <2>1. Cardinality(Derived) \in Nat
    BY FS_CardinalityType DEF Acyclic
  <2>2. 1 .. Cardinality(Derived) \subseteq Nat
    BY <2>1
  <2> QED
    BY <1>1, <2>2
<1>3. Shell /\ TypeOK /\ stack \in Seq(Frame)
  BY DEF MInv, IInv, Shell, TypeOK
<1>4. q \in Holds(stack)
  BY <1>3, ShellShape DEF RunningInv
<1>5. PICK j \in DOMAIN stack : q = stack[j].q
  BY <1>4 DEF Holds
<1>6. stack # <<>>
  BY <1>5
<1>7. Len(stack) \in Nat \ {0} /\ DOMAIN stack = 1 .. Len(stack)
  BY <1>3, <1>6, TopIsFrame, LenProperties
<1>8. \A k \in 1 .. Len(stack) : stack[k] \in Frame /\ stack[k].q \in Derived
  BY <1>3, ElementOfSeq, FrameParts
<1>9. PICK t : t = Top(stack)
  OBVIOUS
<1>10. t = stack[Len(stack)] /\ t.q \in Derived
  BY <1>7, <1>8, <1>9 DEF Top
<1>11. CanRead(t.q, q)
  BY <1>6, <1>9, CalleeReadable
<1>12. q \in Derived /\ rank[q] < rank[t.q]
  BY <1>1, <1>5, <1>7, <1>8, <1>10, <1>11 DEF Ranking
<1>13. rank[t.q] <= rank[q]
  <2>1. Len(stack) \in j .. Len(stack) /\ j \in 1 .. Len(stack)
    BY <1>5, <1>7
  <2> QED
    BY <1>1, <1>2, <1>5, <1>10, <2>1, RanksFall
<1>14. rank[q] \in Nat /\ rank[t.q] \in Nat
  BY <1>2, <1>10, <1>12
<1> QED
  BY <1>12, <1>13, <1>14

\* A cycle is reported of a query that may fail.
LEMMA CycleMayFail ==
    ASSUME MInv, NEW q \in Queries, BeginCycle(q)
    PROVE  q \in MayFail
<1>1. Calls(q) /\ ~cancel /\ state[q] = "RUNNING"
  BY DEF BeginCycle
<1>2. ~ Acyclic
  BY <1>1, NoCycle
<1>3. q \in Derived
  BY <1>1 DEF MInv, IInv, InputsAreAuthoritative, Queries
<1> QED
  BY <1>2, <1>3 DEF MayFail

\* A body that fails is one of a query that may.
LEMMA FailureMayFail ==
    ASSUME NEW t \in Frame, Upcoming(t).op = "fail"
    PROVE  t.q \in MayFail
<1>1. t.q \in Derived
  BY FrameParts
<1>2. t.vals \in Stories
  BY StoriesAre DEF Frame, FrameFields
<1>3. \E vs \in Stories : Body(t.q, vs).op = "fail"
  BY <1>2 DEF Upcoming
<1> QED
  BY <1>1, <1>3 DEF MayFail

-----------------------------------------------------------------------------
(* db_query_begin.                                                           *)

LEMMA SentinelTold ==
    ASSUME MInv, NEW q \in Queries, BeginCanceled(q) \/ BeginCycle(q)
    PROVE  MemosTold' /\ FramesTold(stack', column', fp', Settled', cancel')
<1>1. /\ Calls(q) /\ stack' = ReturnTo(Caller(q), Bottom)
      /\ UNCHANGED <<slotVars, revVars, cancel>>
      /\ cancel \/ state[q] = "RUNNING"
  BY DEF BeginCanceled, BeginCycle
<1>2. Shell /\ TypeOK /\ cancel \in BOOLEAN
  BY DEF MInv, IInv, Shell, TypeOK
<1>3. Settled' = Settled
  BY <1>1 DEF slotVars, revVars, Settled, VerifiedAtOnce, Effective
<1>4. MemosTold'
  BY <1>1 DEF MInv, MemosTold, slotVars
<1>5. Waiting(Caller(q), column, fp, Settled, cancel)
  BY <1>1, <1>2, CallerWaits DEF MInv
<1>6. Caller(q) \in Seq(Frame) /\ (Caller(q) # <<>> => Awaits(Top(Caller(q)), q))
  BY <1>1, <1>2, CallerShape
<1>7. FramesTold(ReturnTo(Caller(q), Bottom), column, fp, Settled, cancel)
  <2>1. Bottom \in Results
    BY DEF Results
  <2>2. cancel \/ (Bottom = Bottom /\ q \in MayFail)
    BY CycleMayFail DEF BeginCanceled
  <2> QED
    BY <1>2, <1>5, <1>6, <2>1, <2>2, ReturnTold
<1> QED
  BY <1>1, <1>3, <1>4, <1>7 DEF slotVars

\* A memo that is answered at once hands over the value it is known by.
LEMMA BeginHitTold ==
    ASSUME MInv, NEW q \in Queries, BeginHit(q)
    PROVE  MemosTold' /\ FramesTold(stack', column', fp', Settled', cancel')
<1> DEFINE v == CachedValue(q)
<1>1. /\ Calls(q) /\ state[q] \in {"DONE", "ERROR"} /\ VerifiedAtOnce(q)
      /\ vrev' = [vrev EXCEPT ![q] = Effective]
      /\ stack' = ReturnTo(RecordOnParent(Caller(q), q, fp[q], dur[q]), v)
      /\ UNCHANGED <<state, fp, dur, deps, column, revVars, cancel>>
  BY DEF BeginHit
<1>2. Shell /\ TypeOK /\ cancel \in BOOLEAN
  BY DEF MInv, IInv, Shell, TypeOK
<1>3. /\ fp[q] \in Results \cup {None} /\ dur[q] \in Tiers /\ v \in Results
      /\ vrev'[q] = Effective /\ \A d \in Queries : vrev'[d] \in {vrev[d], Effective}
  BY <1>1, <1>2 DEF TypeOK, CachedValue, Results
<1>4. (v = Bottom /\ q \in MayFail) \/ v = fp[q]
  <2>1. CASE q \in Inputs
    BY <2>1 DEF MInv, IInv, InputsAreAuthoritative, CachedValue
  <2>2. CASE q \in Derived
    BY <1>1, <2>2 DEF MInv, MemosTold, MemoTold, CachedValue
  <2> QED
    BY <2>1, <2>2 DEF Queries
<1> HIDE DEF v
<1>5. MemosTold'
  BY <1>1 DEF MInv, MemosTold
<1>6. \A d \in Settled : d \in Settled' /\ fp'[d] = fp[d]
  <2>1. Settled \subseteq Queries
    BY DEF Settled
  <2> QED
    BY <1>1, <1>3, <2>1, SettledStays
<1>7. q \in Settled'
  BY <1>1, <1>3 DEF Settled, VerifiedAtOnce, Effective, revVars
<1>8. Caller(q) \in Seq(Frame) /\ (Caller(q) # <<>> => Awaits(Top(Caller(q)), q))
  BY <1>1, <1>2, CallerShape
<1>9. Waiting(Caller(q), column, fp, Settled', cancel)
  <2>1. Waiting(Caller(q), column, fp, Settled, cancel)
    BY <1>1, <1>2, CallerWaits DEF MInv
  <2>2. \A d \in Settled : d \in Settled' /\ fp[d] = fp[d]
    BY <1>6
  <2> QED
    BY <1>2, <1>8, <2>1, <2>2, WaitingStays
<1>10. FramesTold(ReturnTo(RecordOnParent(Caller(q), q, fp[q], dur[q]), v),
                  column, fp, Settled', cancel)
  BY <1>2, <1>3, <1>4, <1>7, <1>8, <1>9, ReceiveTold
<1> QED
  BY <1>1, <1>5, <1>10

\* The frames a new one is pushed on.
LEMMA PushWaits ==
    ASSUME MInv, NEW q \in Derived, Calls(q), state[q] # "RUNNING",
           q \notin Settled, UNCHANGED <<revVars, cancel, fp>>,
           \A d \in Queries \ {q} :
             /\ state'[d] = state[d] /\ dur'[d] = dur[d] /\ deps'[d] = deps[d]
             /\ vrev'[d] = vrev[d] /\ column'[d] = column[d]
    PROVE  Waiting(Caller(q), column', fp', Settled', cancel')
<1>1. Shell /\ TypeOK /\ cancel \in BOOLEAN /\ q \in Queries
  BY DEF MInv, IInv, Shell, TypeOK, Queries
<1>2. Caller(q) \in Seq(Frame) /\ Holds(Caller(q)) = Holds(stack)
  BY <1>1, CallerShape, CalledInRequest
<1>3. Waiting(Caller(q), column, fp, Settled, cancel)
  BY <1>1, CallerWaits DEF MInv
<1>4. \A d \in Settled : d \in Settled' /\ fp'[d] = fp[d]
  <2>1. Settled \subseteq Queries
    BY DEF Settled
  <2> QED
    BY <2>1, SettledStays
<1>5. \A d \in Holds(Caller(q)) : column'[d] = column[d] /\ fp'[d] = fp[d]
  <2>1. \A d \in Holds(stack) : d # q /\ d \in Queries
    <3>1. q \notin Holds(stack)
      BY <1>1, HeldIsRunning
    <3>2. stack \in Seq(Frame)
      BY <1>1 DEF TypeOK
    <3>3. \A k \in DOMAIN stack : stack[k] \in Frame
      BY <3>2, ElementOfSeq, LenProperties
    <3>4. \A k \in DOMAIN stack : stack[k].q \in Queries
      BY <3>3, FrameParts DEF Queries
    <3> QED
      BY <3>1, <3>4 DEF Holds
  <2> QED
    BY <1>2, <2>1
<1>6. cancel' = cancel
  OBVIOUS
<1> QED
  BY <1>1, <1>2, <1>3, <1>4, <1>5, <1>6, WaitingStays

LEMMA NewFrameParts ==
    ASSUME TypeOK, NEW q \in Derived, NEW mode \in {"walk", "body"},
           NEW prev \in {"DONE", "ERROR", "EMPTY"}
    PROVE  LET f == NewFrame(q, mode, prev)
           IN  /\ f \in Frame /\ f.q = q /\ f.mode = mode /\ f.prev = prev
               /\ f.pulled = FALSE /\ f.vals = <<>> /\ f.deps = deps[q]
<1>1. <<>> \in ValueSeqs
  BY ConstantsAssumption DEF ValueSeqs
<1>2. deps[q] \in Seq(Dep)
  BY DEF TypeOK, Queries
<1> QED
  BY <1>1, <1>2 DEF NewFrame, Frame, FrameFields, Tiers, DUR_LOW, DUR_HIGH

\* A body starts with nothing read and nothing recorded.
LEMMA BeginEmptyTold ==
    ASSUME MInv, NEW q \in Derived, BeginEmpty(q)
    PROVE  MemosTold' /\ FramesTold(stack', column', fp', Settled', cancel')
<1> DEFINE f == NewFrame(q, "body", "EMPTY")
<1>1. /\ Calls(q) /\ state[q] \in {"EMPTY", "ABSENT"}
      /\ state' = [state EXCEPT ![q] = "RUNNING"]
      /\ vrev' \in {vrev, [vrev EXCEPT ![q] = 0]}
      /\ column' \in {column, [column EXCEPT ![q] = Bottom]}
      /\ stack' = Append(Caller(q), f)
      /\ UNCHANGED <<fp, dur, deps, revVars, cancel>>
  BY DEF BeginEmpty
<1>2. Shell /\ TypeOK /\ q \in Queries
  BY DEF MInv, IInv, Shell, Queries
<1>3. /\ f \in Frame /\ f.mode = "body" /\ ~f.pulled /\ f.vals = <<>>
      /\ f.deps = deps[q]
  BY <1>2, NewFrameParts
<1>4. deps[q] = <<>>
  BY <1>1 DEF MInv, MemosTold, MemoTold
<1> HIDE DEF f
<1>5. \A d \in Queries \ {q} :
        /\ state'[d] = state[d] /\ vrev'[d] = vrev[d] /\ column'[d] = column[d]
        /\ dur'[d] = dur[d] /\ deps'[d] = deps[d] /\ fp'[d] = fp[d]
  BY <1>1, <1>2 DEF TypeOK
<1>6. state'[q] = "RUNNING"
  BY <1>1, <1>2 DEF TypeOK
<1>7. MemosTold'
  <2>1. MemoTold(q, state'[q], deps'[q], column'[q], fp'[q])
    BY <1>1, <1>6, RunningMemo
  <2>2. Derived \ {q} \subseteq Queries \ {q}
    BY DEF Queries
  <2> QED
    BY <1>5, <2>1, <2>2, OneMemo DEF MInv
<1>8. Waiting(Caller(q), column', fp', Settled', cancel')
  <2>1. state[q] # "RUNNING" /\ q \notin Settled
    BY <1>1 DEF Settled
  <2> QED
    BY <1>1, <1>5, <2>1, PushWaits
<1>9. Kept(f, column', fp', Settled', cancel')
  <2>1. Entries(f.deps) = {}
    BY <1>3, <1>4 DEF Entries
  <2>2. Story(f.q, f.vals, Entries(f.deps))
    BY <1>3 DEF Story
  <2> QED
    BY <1>3, <2>1, <2>2 DEF Kept, BodyTold, Readable
<1>10. Caller(q) \in Seq(Frame)
  BY <1>1, <1>2, CallerShape
<1>11. FramesTold(Append(Caller(q), f), column', fp', Settled', cancel')
  BY <1>3, <1>8, <1>9, <1>10, PushedTold
<1> QED
  BY <1>1, <1>7, <1>11

\* A walk starts with the entries of the memo.
LEMMA BeginWalkTold ==
    ASSUME MInv, NEW q \in Derived, BeginWalk(q)
    PROVE  MemosTold' /\ FramesTold(stack', column', fp', Settled', cancel')
<1>0. PICK p : p = state[q]
  OBVIOUS
<1> DEFINE f == NewFrame(q, "walk", p)
<1>1. /\ Calls(q) /\ p \in {"DONE", "ERROR"} /\ ~VerifiedAtOnce(q)
      /\ state' = [state EXCEPT ![q] = "RUNNING"]
      /\ stack' = Append(Caller(q), f)
      /\ UNCHANGED <<fp, vrev, column, dur, deps, revVars, cancel>>
  BY <1>0 DEF BeginWalk
<1>2. Shell /\ TypeOK /\ q \in Queries
  BY DEF MInv, IInv, Shell, Queries
<1>3. /\ f \in Frame /\ f.q = q /\ f.mode = "walk" /\ ~f.pulled /\ f.vals = <<>>
      /\ f.prev = p /\ f.deps = deps[q]
  <2>1. p \in {"DONE", "ERROR", "EMPTY"} /\ "walk" \in {"walk", "body"}
    BY <1>1
  <2>2. \A m \in {"walk", "body"}, r \in {"DONE", "ERROR", "EMPTY"} :
          LET g == NewFrame(q, m, r)
          IN  /\ g \in Frame /\ g.q = q /\ g.mode = m /\ g.prev = r
              /\ g.pulled = FALSE /\ g.vals = <<>> /\ g.deps = deps[q]
    BY <1>2, NewFrameParts
  <2> QED
    BY <2>1, <2>2
<1> HIDE DEF f
<1>5. \A d \in Queries \ {q} :
        /\ state'[d] = state[d] /\ vrev'[d] = vrev[d] /\ column'[d] = column[d]
        /\ dur'[d] = dur[d] /\ deps'[d] = deps[d] /\ fp'[d] = fp[d]
  BY <1>1, <1>2 DEF TypeOK
<1>6. state'[q] = "RUNNING"
  BY <1>1, <1>2 DEF TypeOK
<1>7. MemosTold'
  <2>1. MemoTold(q, state'[q], deps'[q], column'[q], fp'[q])
    BY <1>1, <1>6, RunningMemo
  <2>2. Derived \ {q} \subseteq Queries \ {q}
    BY DEF Queries
  <2> QED
    BY <1>5, <2>1, <2>2, OneMemo DEF MInv
<1>8. Waiting(Caller(q), column', fp', Settled', cancel')
  <2>1. state[q] # "RUNNING" /\ q \notin Settled
    BY <1>0, <1>1 DEF Settled
  <2> QED
    BY <1>1, <1>5, <2>1, PushWaits
<1>9. Kept(f, column', fp', Settled', cancel')
  <2>1. MemoTold(q, state[q], deps[q], column[q], fp[q])
    BY DEF MInv, MemosTold
  <2>2. Restored(f) = Entries(deps[q])
    BY <1>3 DEF Restored
  <2>3. WalkTold(f, column', fp')
    BY <1>0, <1>1, <1>3, <2>1, <2>2 DEF WalkTold, MemoTold
  <2> QED
    BY <1>3, <2>1, <2>3 DEF Kept, MemoTold
<1>10. Caller(q) \in Seq(Frame)
  BY <1>1, <1>2, CallerShape
<1>11. FramesTold(Append(Caller(q), f), column', fp', Settled', cancel')
  BY <1>3, <1>8, <1>9, <1>10, PushedTold
<1> QED
  BY <1>1, <1>7, <1>11

-----------------------------------------------------------------------------
(* The dependency walk.                                                      *)

\* The top frame is replaced and at most the fingerprint of its slot, which is
\* RUNNING, is written.
LEMMA TopReplaced ==
    ASSUME MInv, stack # <<>>, NEW f \in Frame, f.q = Top(stack).q,
           f.mode = Top(stack).mode \/ f.mode = "body",
           stack' = OnTop(stack, f),
           UNCHANGED <<state, vrev, dur, deps, column, revVars, cancel>>,
           \A d \in Queries : d # f.q => fp'[d] = fp[d],
           Kept(f, column', fp', Settled', cancel'), ~f.pulled
    PROVE  MemosTold' /\ FramesTold(stack', column', fp', Settled', cancel')
<1>1. Shell /\ TypeOK /\ stack \in Seq(Frame) /\ cancel \in BOOLEAN
  BY DEF MInv, IInv, Shell, TypeOK
<1>2. /\ f.q \in Derived /\ f.q \in Queries /\ state[f.q] = "RUNNING"
      /\ Len(stack) \in Nat \ {0}
  BY <1>1, TopFrame, TopIsFrame
<1>3. MemosTold'
  <2>1. MemoTold(f.q, state'[f.q], deps'[f.q], column'[f.q], fp'[f.q])
    BY <1>2, RunningMemo
  <2>2. Derived \subseteq Queries
    BY DEF Queries
  <2> QED
    BY <2>1, <2>2, OneMemo DEF MInv
<1>4. \A d \in Settled : d \in Settled' /\ fp'[d] = fp[d]
  <2>1. \A d \in Settled : d \in Queries /\ d # f.q
    BY <1>2 DEF Settled
  <2> QED
    BY <2>1, SettledStays
<1>5. ASSUME NEW k \in 1 .. Len(stack) - 1
      PROVE  Kept(stack[k], column', fp', Settled', cancel') /\ Refreshed(stack[k], {})
  <2>1. k \in 1 .. Len(stack) /\ k # Len(stack) /\ Len(stack) \in 1 .. Len(stack)
    BY <1>2
  <2>2. stack[k] \in Frame /\ DOMAIN stack = 1 .. Len(stack)
    BY <1>1, <2>1, ElementOfSeq, LenProperties
  <2>3. stack[k].q # f.q /\ stack[k].q \in Queries
    BY <2>1, <2>2, <1>1, FrameParts DEF Shell, StackIsSimple, Top, Queries
  <2>4. Kept(stack[k], column, fp, Settled, cancel) /\ Refreshed(stack[k], {})
    BY <2>1 DEF MInv, FramesTold
  <2>5. column'[stack[k].q] = column[stack[k].q] /\ fp'[stack[k].q] = fp[stack[k].q]
    BY <2>3
  <2> QED
    BY <1>1, <1>4, <2>2, <2>4, <2>5, KeptStays
<1>6. Refreshed(f, {fp'[f.deps[f.i].q]})
  BY DEF Refreshed
<1>7. /\ Len(stack') = Len(stack)
      /\ \A k \in 1 .. Len(stack) : stack'[k] = IF k = Len(stack) THEN f ELSE stack[k]
  <2>1. DOMAIN stack = 1 .. Len(stack) /\ DOMAIN stack' = 1 .. Len(stack)
    BY <1>1, LenProperties DEF OnTop
  <2>2. \A k \in 1 .. Len(stack) : stack'[k] = IF k = Len(stack) THEN f ELSE stack[k]
    BY <2>1 DEF OnTop
  <2>3. \A k \in 1 .. Len(stack) : stack'[k] \in Frame
    BY <1>1, <2>2, ElementOfSeq
  <2>4. stack' \in [1 .. Len(stack) -> Frame]
    <3>1. stack' = [k \in 1 .. Len(stack) |-> stack'[k]]
      BY <2>1 DEF OnTop
    <3> QED
      BY <2>3, <3>1
  <2>5. stack' \in Seq(Frame)
    BY <1>2, <2>4
  <2>6. Len(stack') = Len(stack)
    BY <1>2, <2>1, <2>5, LenProperties
  <2> QED
    BY <2>2, <2>6
<1>8. FramesTold(stack', column', fp', Settled', cancel')
  <2>1. PICK u : u = stack'
    OBVIOUS
  <2>2. PICK c, x, S, cn : c = column' /\ x = fp' /\ S = Settled' /\ cn = cancel'
    OBVIOUS
  <2>3. FramesTold(u, c, x, S, cn)
    BY <1>1, <1>5, <1>6, <1>7, <2>1, <2>2, ReplacedTold
  <2> QED
    BY <2>1, <2>2, <2>3
<1> QED
  BY <1>3, <1>8

\* The dependency held: what the pull has refreshed is what it was.
LEMMA WalkNextTold ==
    ASSUME MInv, WalkNext
    PROVE  MemosTold' /\ FramesTold(stack', column', fp', Settled', cancel')
<1>1. PICK t : t = Top(stack)
  OBVIOUS
<1> DEFINE f == [t EXCEPT !.i = @ + 1, !.pulled = FALSE]
<1>2. /\ stack # <<>> /\ t.mode = "walk" /\ t.i <= t.n /\ DepHolds
      /\ t.pulled \/ t.deps[t.i].q \in Inputs
      /\ stack' = OnTop(stack, f)
      /\ UNCHANGED <<slotVars, revVars, cancel>>
  BY <1>1 DEF WalkNext, AtDep, Walking
<1>3. Shell /\ TypeOK /\ stack \in Seq(Frame) /\ Len(stack) \in Nat \ {0} /\ t \in Frame
  BY <1>1, <1>2, TopIsFrame DEF MInv, IInv, Shell, TypeOK
<1>4. f \in Frame
  <2>1. t.i + 1 \in Nat \ {0}
    BY <1>3, FrameParts
  <2> QED
    BY <1>2, <1>3, <2>1 DEF Frame, FrameFields
<1>5. /\ f.q = t.q /\ f.mode = t.mode /\ f.deps = t.deps /\ f.prev = t.prev
      /\ f.vals = t.vals
  BY <1>3 DEF Frame, FrameFields
<1>6. ~f.pulled
  BY <1>3 DEF Frame, FrameFields
<1> HIDE DEF f
<1>7. /\ Kept(t, column, fp, Settled, cancel)
      /\ Refreshed(t, {fp[t.deps[t.i].q]})
  <2>1. Len(stack) \in 1 .. Len(stack)
    BY <1>3
  <2> QED
    BY <1>1, <1>2, <2>1 DEF MInv, FramesTold, Top
<1>8. t.deps \in Seq(Dep) /\ Entries(t.deps) \subseteq Dep
      /\ t.deps[t.i] \in Entries(t.deps)
  BY <1>2, <1>3, FrameParts, EntryAt
<1>9. Restored(f) = Restored(t)
  <2>1. Restored(f) = Entries(t.deps)
    BY <1>5, <1>6 DEF Restored
  <2>2. CASE ~t.pulled
    BY <2>1, <2>2 DEF Restored
  <2>3. CASE t.pulled
    <3>1. PICK p : p = t.deps[t.i].q
      OBVIOUS
    <3>2. \A e \in Entries(t.deps) : e.q = p => e.fp \in {t.want, fp[p]}
      BY <1>7, <2>3, <3>1 DEF Refreshed
    <3>3. p \notin Inputs
      BY <1>2, <1>7, <2>3, <3>1 DEF Kept, WalkTold
    <3>4. fp[p] = t.want
      BY <1>1, <1>2, <3>1, <3>3 DEF DepHolds
    <3>5. \A e \in Entries(t.deps) :
            (IF e.q = p THEN [q |-> e.q, fp |-> t.want] ELSE e) = e
      <4> SUFFICES ASSUME NEW e \in Entries(t.deps), e.q = p
                   PROVE  [q |-> e.q, fp |-> t.want] = e
        OBVIOUS
      <4>1. e \in Dep /\ e.fp = t.want
        BY <1>8, <3>2, <3>4
      <4> QED
        BY <4>1 DEF Dep
    <3>6. Restored(t) = {IF e.q = p THEN [q |-> e.q, fp |-> t.want] ELSE e :
                           e \in Entries(t.deps)}
      BY <2>3, <3>1 DEF Restored
    <3> QED
      BY <2>1, <3>5, <3>6
  <2> QED
    BY <2>2, <2>3
<1>10. Kept(f, column', fp', Settled', cancel')
  <2>1. WalkTold(t, column, fp) /\ column' = column /\ fp' = fp
    BY <1>2, <1>7 DEF Kept, slotVars
  <2>2. WalkTold(f, column, fp)
    BY <1>5, <1>6, <1>9, <2>1 DEF WalkTold
  <2> QED
    BY <1>2, <1>5, <1>7, <2>1, <2>2 DEF Kept
<1> QED
  BY <1>1, <1>2, <1>4, <1>5, <1>6, <1>10, TopReplaced DEF slotVars

\* A dependency did not hold: the body starts over with nothing recorded.
LEMMA WalkFailTold ==
    ASSUME MInv, WalkFail
    PROVE  MemosTold' /\ FramesTold(stack', column', fp', Settled', cancel')
<1>1. PICK t : t = Top(stack)
  OBVIOUS
<1> DEFINE f == [t EXCEPT !.mode = "body", !.deps = <<>>, !.pulled = FALSE]
<1>2. /\ stack # <<>> /\ t.mode = "walk"
      /\ fp' = [fp EXCEPT ![t.q] = None]
      /\ stack' = OnTop(stack, f)
      /\ UNCHANGED <<state, vrev, dur, deps, column, revVars, cancel>>
  BY <1>1 DEF WalkFail, AtDep, Walking
<1>3. Shell /\ TypeOK /\ stack \in Seq(Frame) /\ Len(stack) \in Nat \ {0} /\ t \in Frame
  BY <1>1, <1>2, TopIsFrame DEF MInv, IInv, Shell, TypeOK
<1>4. f \in Frame
  <2>1. <<>> \in Seq(Dep)
    OBVIOUS
  <2> QED
    BY <1>3, <2>1 DEF Frame, FrameFields
<1>5. f.q = t.q /\ f.mode = "body" /\ f.deps = <<>> /\ f.vals = t.vals
  BY <1>3 DEF Frame, FrameFields
<1>6. ~f.pulled
  BY <1>3 DEF Frame, FrameFields
<1> HIDE DEF f
<1>7. t.vals = <<>>
  <2>1. Len(stack) \in 1 .. Len(stack)
    BY <1>3
  <2> QED
    BY <1>1, <1>2, <2>1 DEF MInv, FramesTold, Top, Kept, WalkTold
<1>8. Kept(f, column', fp', Settled', cancel')
  <2>1. Entries(f.deps) = {}
    BY <1>5 DEF Entries
  <2>2. Story(f.q, f.vals, Entries(f.deps))
    BY <1>5, <1>7 DEF Story
  <2> QED
    BY <1>5, <1>6, <2>1, <2>2 DEF Kept, BodyTold, Readable
<1>9. \A d \in Queries : d # f.q => fp'[d] = fp[d]
  BY <1>2, <1>3, <1>5 DEF TypeOK
<1> QED
  BY <1>1, <1>2, <1>4, <1>5, <1>6, <1>8, <1>9, TopReplaced

\* The caller that the top frame returns to, when the step writes no slot but
\* that of the top frame.
LEMMA PopWaits ==
    ASSUME MInv, stack # <<>>, NEW q, q = Top(stack).q,
           UNCHANGED <<revVars, cancel>>,
           \A d \in Queries \ {q} :
             /\ state'[d] = state[d] /\ dur'[d] = dur[d] /\ deps'[d] = deps[d]
             /\ vrev'[d] = vrev[d] /\ column'[d] = column[d] /\ fp'[d] = fp[d]
    PROVE  /\ Popped(stack) \in Seq(Frame)
           /\ Popped(stack) # <<>> => Awaits(Top(Popped(stack)), q)
           /\ Waiting(Popped(stack), column', fp', Settled', cancel')
<1>1. Shell /\ TypeOK /\ cancel \in BOOLEAN /\ stack \in Seq(Frame)
      /\ StackInv(stack, running)
  BY ShellShape DEF MInv, IInv, Shell, TypeOK
<1>2. state[q] = "RUNNING"
  BY <1>1, TopFrame
<1>3. /\ Popped(stack) \in Seq(Frame)
      /\ Holds(Popped(stack)) = Holds(stack) \ {q}
      /\ Popped(stack) # <<>> => Awaits(Top(Popped(stack)), q)
  BY <1>1, ShapePopped DEF StackInv
<1>4. \A d \in Settled : d \in Settled' /\ fp'[d] = fp[d]
  <2>1. \A d \in Settled : d \in Queries /\ d # q
    BY <1>2 DEF Settled
  <2> QED
    BY <2>1, SettledStays
<1>5. \A d \in Holds(Popped(stack)) : column'[d] = column[d] /\ fp'[d] = fp[d]
  <2>1. \A k \in DOMAIN stack : stack[k] \in Frame
    BY <1>1, ElementOfSeq, LenProperties
  <2>2. \A k \in DOMAIN stack : stack[k].q \in Queries
    BY <2>1, FrameParts DEF Queries
  <2>3. Holds(stack) \subseteq Queries
    BY <2>2 DEF Holds
  <2> QED
    BY <1>3, <2>3
<1>6. Waiting(Popped(stack), column, fp, Settled, cancel)
  BY <1>1, PoppedWaits DEF MInv
<1>7. cancel' = cancel
  OBVIOUS
<1>8. Waiting(Popped(stack), column', fp', Settled', cancel')
  BY <1>1, <1>3, <1>4, <1>5, <1>6, <1>7, WaitingStays
<1> QED
  BY <1>3, <1>8

\* What is known of the top frame.
LEMMA TopTold ==
    ASSUME MInv, stack # <<>>, NEW t, t = Top(stack)
    PROVE  /\ Kept(t, column, fp, Settled, cancel)
           /\ t \in Frame /\ t.q \in Derived /\ t.q \in Queries
           /\ state[t.q] = "RUNNING" /\ TypeOK /\ cancel \in BOOLEAN
<1>1. Shell /\ TypeOK /\ cancel \in BOOLEAN /\ stack \in Seq(Frame)
  BY DEF MInv, IInv, Shell, TypeOK
<1>2. Len(stack) \in Nat \ {0}
  BY <1>1, TopIsFrame
<1>3. Len(stack) \in 1 .. Len(stack)
  BY <1>2
<1>4. Kept(t, column, fp, Settled, cancel)
  BY <1>3 DEF MInv, FramesTold, Top
<1> QED
  BY <1>1, <1>4, TopFrame

\* The walk ends with the entries of the memo, which is valid again.
LEMMA WalkEndTold ==
    ASSUME MInv, WalkEnd
    PROVE  MemosTold' /\ FramesTold(stack', column', fp', Settled', cancel')
<1>1. PICK t : t = Top(stack)
  OBVIOUS
<1>2. PICK q, v : q = t.q /\ v = IF t.prev = "DONE" THEN column[t.q] ELSE Bottom
  OBVIOUS
<1>3. /\ stack # <<>> /\ t.mode = "walk" /\ t.i > t.n
      /\ state' = [state EXCEPT ![q] = t.prev]
      /\ vrev' = [vrev EXCEPT ![q] = Effective]
      /\ deps' = [deps EXCEPT ![q] = t.deps]
      /\ stack' = ReturnTo(RecordOnParent(Popped(stack), q, fp[q], dur[q]), v)
      /\ UNCHANGED <<fp, dur, column, revVars, cancel>>
  BY <1>1, <1>2 DEF WalkEnd, Walking
<1>4. /\ Kept(t, column, fp, Settled, cancel) /\ t \in Frame
      /\ q \in Derived /\ q \in Queries /\ TypeOK /\ cancel \in BOOLEAN
  BY <1>1, <1>2, <1>3, TopTold
<1>5. WalkTold(t, column, fp)
  BY <1>3, <1>4 DEF Kept
<1>6. ~t.pulled
  <2>1. t.i \in Nat /\ t.n \in Nat
    BY <1>4, FrameParts
  <2>2. ~(t.i <= t.n)
    BY <1>3, <2>1
  <2> QED
    BY <1>5, <2>2 DEF WalkTold
<1>7. Restored(t) = Entries(t.deps)
  BY <1>6 DEF Restored
<1>8. t.prev \in {"DONE", "ERROR"} /\ OneFp(Entries(t.deps))
      /\ (t.prev = "DONE" => column[q] = fp[q] /\ Told(q, fp[q], Entries(t.deps)))
  BY <1>2, <1>5, <1>7 DEF WalkTold
<1>9. /\ state'[q] = t.prev /\ vrev'[q] = Effective /\ deps'[q] = t.deps
      /\ column'[q] = column[q] /\ fp'[q] = fp[q]
  BY <1>3, <1>4 DEF TypeOK
<1>10. \A d \in Queries \ {q} :
         /\ state'[d] = state[d] /\ dur'[d] = dur[d] /\ deps'[d] = deps[d]
         /\ vrev'[d] = vrev[d] /\ column'[d] = column[d] /\ fp'[d] = fp[d]
  BY <1>3, <1>4 DEF TypeOK
<1>11. MemosTold'
  <2>1. MemoTold(q, state'[q], deps'[q], column'[q], fp'[q])
    BY <1>2, <1>4, <1>5, <1>8, <1>9 DEF MemoTold, Kept, WalkTold
  <2>2. Derived \subseteq Queries
    BY DEF Queries
  <2> QED
    BY <1>10, <2>1, <2>2, OneMemo DEF MInv
<1>12. /\ Popped(stack) \in Seq(Frame)
       /\ Popped(stack) # <<>> => Awaits(Top(Popped(stack)), q)
       /\ Waiting(Popped(stack), column', fp', Settled', cancel')
  BY <1>1, <1>2, <1>3, <1>10, PopWaits
<1>13. q \in Settled'
  BY <1>3, <1>4, <1>8, <1>9 DEF Settled, VerifiedAtOnce, Effective, revVars
<1>14. /\ fp[q] \in Results \cup {None} /\ dur[q] \in Tiers /\ v \in Results
       /\ (v = Bottom /\ q \in MayFail) \/ v = fp[q]
  BY <1>2, <1>4, <1>5, <1>8 DEF TypeOK, Results, WalkTold
<1>15. FramesTold(stack', column', fp', Settled', cancel')
  <2>1. PICK c, x, S, cn : c = column' /\ x = fp' /\ S = Settled' /\ cn = cancel'
    OBVIOUS
  <2>2. cn \in BOOLEAN /\ x = fp
    BY <1>3, <1>4, <2>1
  <2>3. PICK d : d = dur[q]
    OBVIOUS
  <2>4. FramesTold(ReturnTo(RecordOnParent(Popped(stack), q, x[q], d), v),
                   c, x, S, cn)
    BY <1>4, <1>12, <1>13, <1>14, <2>1, <2>2, <2>3, ReceiveTold
  <2> QED
    BY <1>3, <2>1, <2>2, <2>3, <2>4
<1> QED
  BY <1>11, <1>15

-----------------------------------------------------------------------------
(* The end of a body.                                                        *)

\* What a body has recorded says one thing of each query.
LEMMA BodyOneFp ==
    ASSUME NEW t, NEW x, NEW S, NEW cn, BodyTold(t, x, S, cn)
    PROVE  OneFp(Entries(t.deps))
BY DEF BodyTold, OneFp

\* db_query_succeed memoizes what the body has been told.
LEMMA SucceedTold ==
    ASSUME MInv, Succeed
    PROVE  MemosTold' /\ FramesTold(stack', column', fp', Settled', cancel')
<1>1. PICK t : t = Top(stack)
  OBVIOUS
<1>2. PICK q, v, e : q = t.q /\ v = Upcoming(t).val /\ e = FrameDur(t)
  OBVIOUS
<1>3. /\ stack # <<>> /\ t.mode = "body" /\ Upcoming(t).op = "return" /\ ~cancel
      /\ column' = [column EXCEPT ![q] = v]
      /\ deps' = [deps EXCEPT ![q] = t.deps]
      /\ state' = [state EXCEPT ![q] = "DONE"]
      /\ fp' = [fp EXCEPT ![q] = v]
      /\ vrev' = [vrev EXCEPT ![q] = cur]
      /\ dur' = [dur EXCEPT ![q] = e]
      /\ stack' = ReturnTo(RecordOnParent(Popped(stack), q, v, e), v)
      /\ UNCHANGED <<revVars, cancel>>
  BY <1>1, <1>2 DEF Succeed, Finishing
<1>4. /\ Kept(t, column, fp, Settled, cancel) /\ t \in Frame
      /\ q \in Derived /\ q \in Queries /\ TypeOK /\ cancel \in BOOLEAN
  BY <1>1, <1>2, <1>3, TopTold
<1>5. /\ BodyTold(t, fp, Settled, cancel) /\ t.vals \in ValueSeqs
      /\ e \in Tiers /\ v \in Results
  <2>1. Upcoming(t) \in Operations
    BY <1>4, UpcomingIsOperation
  <2>2. v \in Results
    BY <1>2, <2>1 DEF Operations, Results
  <2>3. t.vals \in ValueSeqs
    BY <1>4 DEF Frame, FrameFields
  <2> QED
    BY <1>2, <1>3, <1>4, <2>2, <2>3, FrameDurType DEF Kept
<1>6. Told(q, v, Entries(t.deps)) /\ OneFp(Entries(t.deps))
  <2>1. Story(t.q, t.vals, Entries(t.deps))
    BY <1>3, <1>5 DEF BodyTold
  <2>2. Body(q, t.vals).op = "return" /\ Body(q, t.vals).val = v
    BY <1>2, <1>3 DEF Upcoming
  <2> QED
    BY <1>2, <1>5, <2>1, <2>2, BodyOneFp DEF Told
<1>7. /\ state'[q] = "DONE" /\ vrev'[q] = cur /\ deps'[q] = t.deps
      /\ column'[q] = v /\ fp'[q] = v /\ dur'[q] = e
  BY <1>3, <1>4 DEF TypeOK
<1>8. \A d \in Queries \ {q} :
        /\ state'[d] = state[d] /\ dur'[d] = dur[d] /\ deps'[d] = deps[d]
        /\ vrev'[d] = vrev[d] /\ column'[d] = column[d] /\ fp'[d] = fp[d]
  BY <1>3, <1>4 DEF TypeOK
<1>9. MemosTold'
  <2>1. MemoTold(q, state'[q], deps'[q], column'[q], fp'[q])
    BY <1>2, <1>4, <1>6, <1>7 DEF MemoTold, Kept
  <2>2. Derived \subseteq Queries
    BY DEF Queries
  <2> QED
    BY <1>8, <2>1, <2>2, OneMemo DEF MInv
<1>10. /\ Popped(stack) \in Seq(Frame)
       /\ Popped(stack) # <<>> => Awaits(Top(Popped(stack)), q)
       /\ Waiting(Popped(stack), column', fp', Settled', cancel')
  BY <1>1, <1>2, <1>3, <1>8, PopWaits
<1>11. q \in Settled'
  <2>1. lastChanged'[dur'[q]] <= vrev'[q]
    <3>1. lastChanged[e] \in 1 .. cur /\ cur \in Nat /\ lastChanged' = lastChanged
      BY <1>3, <1>4, <1>5 DEF TypeOK, revVars
    <3> QED
      BY <1>7, <3>1
  <2> QED
    BY <1>4, <1>7, <2>1 DEF Settled, VerifiedAtOnce
<1>12. FramesTold(stack', column', fp', Settled', cancel')
  <2>1. PICK c, x, S, cn : c = column' /\ x = fp' /\ S = Settled' /\ cn = cancel'
    OBVIOUS
  <2>2. cn \in BOOLEAN /\ x[q] = v /\ v \in Results \cup {None}
    BY <1>3, <1>4, <1>5, <1>7, <2>1
  <2>3. FramesTold(ReturnTo(RecordOnParent(Popped(stack), q, x[q], e), v),
                   c, x, S, cn)
    BY <1>4, <1>5, <1>10, <1>11, <2>1, <2>2, ReceiveTold
  <2> QED
    BY <1>3, <2>1, <2>2, <2>3
<1> QED
  BY <1>9, <1>12

\* db_query_fail stores the dependencies of the failure.
LEMMA FailTold ==
    ASSUME MInv, Fail
    PROVE  MemosTold' /\ FramesTold(stack', column', fp', Settled', cancel')
<1>1. PICK t : t = Top(stack)
  OBVIOUS
<1>2. PICK q : q = t.q
  OBVIOUS
<1>3. /\ stack # <<>> /\ t.mode = "body"
      /\ deps' = [deps EXCEPT ![q] = t.deps]
      /\ state' = [state EXCEPT ![q] = "ERROR"]
      /\ fp' = [fp EXCEPT ![q] = None]
      /\ vrev' = [vrev EXCEPT ![q] = cur]
      /\ dur' = [dur EXCEPT ![q] = FrameDur(t)]
      /\ stack' = ReturnTo(Popped(stack), Bottom)
      /\ UNCHANGED <<column, revVars, cancel>>
  BY <1>1, <1>2 DEF Fail, Finishing
<1>4. /\ Kept(t, column, fp, Settled, cancel) /\ t \in Frame
      /\ q \in Derived /\ q \in Queries /\ TypeOK /\ cancel \in BOOLEAN
  BY <1>1, <1>2, <1>3, TopTold
<1>11. q \in MayFail
  BY <1>1, <1>2, <1>4, FailureMayFail DEF Fail, Finishing
<1>5. OneFp(Entries(t.deps))
  BY <1>3, <1>4, BodyOneFp DEF Kept
<1>6. state'[q] = "ERROR" /\ deps'[q] = t.deps
  BY <1>3, <1>4 DEF TypeOK
<1>7. \A d \in Queries \ {q} :
        /\ state'[d] = state[d] /\ dur'[d] = dur[d] /\ deps'[d] = deps[d]
        /\ vrev'[d] = vrev[d] /\ column'[d] = column[d] /\ fp'[d] = fp[d]
  BY <1>3, <1>4 DEF TypeOK
<1>8. MemosTold'
  <2>1. MemoTold(q, state'[q], deps'[q], column'[q], fp'[q])
    BY <1>2, <1>4, <1>5, <1>6, <1>11 DEF MemoTold, Kept
  <2>2. Derived \subseteq Queries
    BY DEF Queries
  <2> QED
    BY <1>7, <2>1, <2>2, OneMemo DEF MInv
<1>9. /\ Popped(stack) \in Seq(Frame)
      /\ Popped(stack) # <<>> => Awaits(Top(Popped(stack)), q)
      /\ Waiting(Popped(stack), column', fp', Settled', cancel')
  BY <1>1, <1>2, <1>3, <1>7, PopWaits
<1>10. FramesTold(stack', column', fp', Settled', cancel')
  <2>1. PICK c, x, S, cn : c = column' /\ x = fp' /\ S = Settled' /\ cn = cancel'
    OBVIOUS
  <2>2. cn \in BOOLEAN /\ Bottom \in Results /\ q \in MayFail
    BY <1>3, <1>4, <1>11, <2>1 DEF Results
  <2>3. FramesTold(ReturnTo(Popped(stack), Bottom), c, x, S, cn)
    BY <1>9, <2>1, <2>2, ReturnTold
  <2> QED
    BY <1>3, <2>1, <2>3
<1> QED
  BY <1>8, <1>10

\* A body that bails out memoizes nothing; its caller is cancelled too.
LEMMA BailOutTold ==
    ASSUME MInv, BailOut
    PROVE  MemosTold' /\ FramesTold(stack', column', fp', Settled', cancel')
<1>1. PICK t : t = Top(stack)
  OBVIOUS
<1>2. PICK q, v : q = t.q /\ v = Upcoming(t).val
  OBVIOUS
<1>3. /\ stack # <<>> /\ cancel
      /\ column' \in {column, [column EXCEPT ![q] = v]}
      /\ deps' = [deps EXCEPT ![q] = t.deps]
      /\ stack' = ReturnTo(Popped(stack), v)
      /\ Upcoming(t).op \in {"return", "fail"}
      /\ UNCHANGED <<state, fp, vrev, dur, revVars, cancel>>
  BY <1>1, <1>2 DEF BailOut, Finishing
<1>4. /\ t \in Frame /\ q \in Derived /\ q \in Queries
      /\ state[q] = "RUNNING" /\ TypeOK /\ cancel \in BOOLEAN
  BY <1>1, <1>2, <1>3, TopTold
<1>5. v \in Results
  BY <1>2, <1>3, <1>4, UpcomingIsOperation DEF Operations, Results
<1>6. \A d \in Queries \ {q} :
        /\ state'[d] = state[d] /\ dur'[d] = dur[d] /\ deps'[d] = deps[d]
        /\ vrev'[d] = vrev[d] /\ column'[d] = column[d] /\ fp'[d] = fp[d]
  BY <1>3, <1>4 DEF TypeOK
<1>7. MemosTold'
  <2>1. MemoTold(q, state'[q], deps'[q], column'[q], fp'[q])
    <3>1. state'[q] = "RUNNING" /\ deps'[q] = t.deps
      BY <1>3, <1>4 DEF TypeOK
    <3>2. Kept(t, column, fp, Settled, cancel)
      BY <1>1, <1>3, TopTold
    <3> QED
      BY <1>2, <3>1, <3>2 DEF MemoTold, Kept
  <2>2. Derived \subseteq Queries
    BY DEF Queries
  <2> QED
    BY <1>6, <2>1, <2>2, OneMemo DEF MInv
<1>8. /\ Popped(stack) \in Seq(Frame)
      /\ Popped(stack) # <<>> => Awaits(Top(Popped(stack)), q)
      /\ Waiting(Popped(stack), column', fp', Settled', cancel')
  BY <1>1, <1>2, <1>3, <1>6, PopWaits
<1>9. FramesTold(stack', column', fp', Settled', cancel')
  <2>1. PICK c, x, S, cn : c = column' /\ x = fp' /\ S = Settled' /\ cn = cancel'
    OBVIOUS
  <2>2. cn \in BOOLEAN /\ cn
    BY <1>3, <1>4, <2>1
  <2>3. FramesTold(ReturnTo(Popped(stack), v), c, x, S, cn)
    BY <1>5, <1>8, <2>1, <2>2, ReturnTold
  <2> QED
    BY <1>3, <2>1, <2>3
<1> QED
  BY <1>7, <1>9

-----------------------------------------------------------------------------
(* Requests, cancellation, inputs.                                           *)

\* With no query on the stack there is nothing to keep.
LEMMA NoFrames ==
    ASSUME NEW s, s = <<>>, NEW c, NEW x, NEW S, NEW cn
    PROVE  FramesTold(s, c, x, S, cn)
BY DEF FramesTold

LEMMA RequestBeginTold ==
    ASSUME MInv, NEW r, RequestBegin(r)
    PROVE  MemosTold' /\ FramesTold(stack', column', fp', Settled', cancel')
<1>1. stack' = <<>> /\ UNCHANGED slotVars
  BY DEF RequestBegin
<1>2. MemosTold'
  BY <1>1 DEF MInv, MemosTold, slotVars
<1> QED
  BY <1>1, <1>2, NoFrames

\* A cancel takes from a running body the duty to remember what it has read.
LEMMA RequestCancelTold ==
    ASSUME MInv, RequestCancel
    PROVE  MemosTold' /\ FramesTold(stack', column', fp', Settled', cancel')
<1>1. cancel' = TRUE /\ UNCHANGED <<slotVars, stack, revVars>>
  BY DEF RequestCancel
<1>2. MemosTold'
  BY <1>1 DEF MInv, MemosTold, slotVars
<1>3. Settled' = Settled
  BY <1>1 DEF Settled, VerifiedAtOnce, Effective, slotVars, revVars
<1>4. stack \in Seq(Frame) /\ cancel \in BOOLEAN
  BY DEF MInv, IInv, Shell, TypeOK
<1>5. ASSUME NEW k \in 1 .. Len(stack)
      PROVE  Kept(stack[k], column, fp, Settled, TRUE)
  <2>1. stack[k] \in Frame
    BY <1>4, ElementOfSeq
  <2>2. Kept(stack[k], column, fp, Settled, cancel)
    BY DEF MInv, FramesTold
  <2> QED
    BY <1>4, <2>1, <2>2, KeptStays
<1>6. FramesTold(stack, column, fp, Settled, TRUE)
  BY <1>5 DEF MInv, FramesTold
<1> QED
  BY <1>1, <1>2, <1>3, <1>6 DEF slotVars

\* The sweep and the reclamation empty the list with the slot.
LEMMA RequestEndTold ==
    ASSUME MInv, RequestEnd
    PROVE  MemosTold' /\ FramesTold(stack', column', fp', Settled', cancel')
<1>1. stack' = <<>>
  BY DEF RequestEnd
<1>2. MemosTold'
  <2> SUFFICES ASSUME NEW q \in Derived
               PROVE  MemoTold(q, state'[q], deps'[q], column'[q], fp'[q])
    BY DEF MemosTold
  <2>1. q \in Queries /\ column' = column
    BY DEF RequestEnd, Queries
  <2>2. MemoTold(q, state[q], deps[q], column[q], fp[q])
    BY DEF MInv, MemosTold
  <2>3. CASE q \in Swept \/ Orphan(q)
    <3>1. state'[q] \in {"EMPTY", "ABSENT"} /\ deps'[q] = <<>>
      BY <2>1, <2>3 DEF RequestEnd
    <3> QED
      BY <3>1 DEF MemoTold, Readable, Entries
  <2>4. CASE ~(q \in Swept \/ Orphan(q))
    <3>1. state'[q] = state[q] /\ deps'[q] = deps[q] /\ fp'[q] = fp[q]
      BY <2>1, <2>4 DEF RequestEnd
    <3> QED
      BY <2>1, <2>2, <3>1
  <2> QED
    BY <2>3, <2>4
<1> QED
  BY <1>1, <1>2, NoFrames

\* A setter writes its input only.
LEMMA SetterTold ==
    ASSUME MInv,
           InputTouch \/ \E i \in Inputs, v \in Values : InputEdit(i, v)
    PROVE  MemosTold' /\ FramesTold(stack', column', fp', Settled', cancel')
<1>1. stack' = <<>>
  BY DEF InputTouch, InputEdit, Changed, MInv, IInv, Shell,
         NoRunningBetweenRequests
<1>2. CASE InputTouch
  <2>1. MemosTold'
    BY <1>2 DEF InputTouch, slotVars, MInv, MemosTold
  <2> QED
    BY <1>1, <2>1, NoFrames
<1>3. ASSUME NEW i \in Inputs, NEW v \in Values, InputEdit(i, v)
      PROVE  MemosTold'
  <2>1. i \notin Derived /\ Derived \subseteq Queries /\ TypeOK
    BY ConstantsAssumption DEF Queries, MInv, IInv, Shell
  <2>2. \A d \in Derived \ {i} :
          /\ state'[d] = state[d] /\ deps'[d] = deps[d]
          /\ column'[d] = column[d] /\ fp'[d] = fp[d]
    BY <1>3, <2>1 DEF InputEdit, TypeOK
  <2> QED
    BY <2>1, <2>2, OneMemo DEF MInv
<1> QED
  BY <1>1, <1>2, <1>3, NoFrames

-----------------------------------------------------------------------------
(* The theorems.                                                             *)

\* MInv is inductive: no interleaving of calls, walks, bodies, cancels,
\* requests, reclamation and edits parts a memo from what it was computed of.
THEOREM MemoInductive == MInv /\ [Next]_vars => MInv'
<1> SUFFICES ASSUME MInv, [Next]_vars
             PROVE  MInv'
  OBVIOUS
<1> DEFINE P == MemosTold' /\ FramesTold(stack', column', fp', Settled', cancel')
<1>1. IInv'
  BY Inductive DEF MInv
<1>2. ASSUME NEW q \in Queries, Begin(q)
      PROVE  P
  <2>1. BeginEmpty(q) \/ BeginWalk(q) => q \in Derived
    BY FrameIsDerived DEF BeginEmpty, BeginWalk, MInv, IInv
  <2> HIDE DEF P
  <2>2. BeginCanceled(q) \/ BeginCycle(q) => P
    BY SentinelTold DEF P
  <2>3. BeginEmpty(q) => P
    BY <2>1, BeginEmptyTold DEF P
  <2>4. BeginHit(q) => P
    BY BeginHitTold DEF P
  <2>5. BeginWalk(q) => P
    BY <2>1, BeginWalkTold DEF P
  <2> QED
    BY <1>2, <2>2, <2>3, <2>4, <2>5 DEF Begin
<1>3. WalkNext => P
  BY WalkNextTold
<1>4. WalkFail => P
  BY WalkFailTold
<1>5. WalkEnd => P
  BY WalkEndTold
<1>6. Succeed => P
  BY SucceedTold
<1>7. Fail => P
  BY FailTold
<1>8. BailOut => P
  BY BailOutTold
<1>9. ASSUME NEW r \in 1 .. MaxRev, RequestBegin(r)
      PROVE  P
  BY <1>9, RequestBeginTold
<1>10. RequestEnd => P
  BY RequestEndTold
<1>11. RequestCancel => P
  BY RequestCancelTold
<1>12. InputTouch \/ (\E i \in Inputs, v \in Values : InputEdit(i, v)) => P
  BY SetterTold
<1>13. UNCHANGED vars => P
  <2> SUFFICES ASSUME UNCHANGED vars
               PROVE  P
    OBVIOUS
  <2>1. Settled' = Settled
    BY DEF vars, slotVars, revVars, Settled, VerifiedAtOnce, Effective
  <2>2. MemosTold'
    BY DEF vars, slotVars, MInv, MemosTold
  <2> QED
    BY <2>1, <2>2 DEF vars, slotVars, MInv
<1>14. P
  <2> HIDE DEF P
  <2> QED
    BY <1>2, <1>3, <1>4, <1>5, <1>6, <1>7, <1>8, <1>9, <1>10, <1>11, <1>12,
       <1>13 DEF Next
<1>15. FramesTold(stack, column, fp, Settled, cancel)'
  BY <1>14
<1> QED
  BY <1>1, <1>14, <1>15 DEF MInv

\* MInv holds in every reachable state of the engine.
THEOREM MemoInvariance == Spec => []MInv
<1>1. Init => MInv
  <2> SUFFICES ASSUME Init
               PROVE  MInv
    OBVIOUS
  <2>1. IInv
    <3>1. InputsAreAuthoritative
      BY DEF Init, InputsAreAuthoritative, Queries
    <3> QED
      BY <3>1, InitStep DEF IInv
  <2>2. \A q \in Derived : state[q] \in {"EMPTY", "ABSENT"} /\ deps[q] = <<>>
    BY ConstantsAssumption DEF Init, Queries
  <2>3. MemosTold
    BY <2>2 DEF MemosTold, MemoTold, Readable, Entries
  <2>4. stack = <<>>
    BY DEF Init
  <2> QED
    BY <2>1, <2>3, <2>4, NoFrames DEF MInv
<1> QED
  BY <1>1, MemoInductive, PTL DEF Spec

\* A program whose queries do not read each other in a circle is never told of
\* a cycle: QUERY_BEGIN_CYCLE means that there is one, and is not produced by a
\* slot that a verify or an earlier request has left RUNNING.
THEOREM NoFalseCycle ==
    Acyclic => (Spec => [][\A q \in Queries : ~ BeginCycle(q)]_vars)
<1> SUFFICES ASSUME Acyclic
             PROVE  Spec => [][\A q \in Queries : ~ BeginCycle(q)]_vars
  OBVIOUS
<1>1. MInv => \A q \in Queries : ~ BeginCycle(q)
  BY NoCycle DEF BeginCycle
<1> QED
  BY <1>1, MemoInvariance, PTL

-----------------------------------------------------------------------------
(* Replay.                                                                   *)

\* ReadsOf yields the values vs when the environment has, for each read, the
\* value read, and the body reads no more.
LEMMA ReadsAre ==
    ASSUME NEW q, NEW env, NEW vs \in ValueSeqs,
           \A k \in 1 .. Len(vs) :
             /\ Body(q, SubSeq(vs, 1, k - 1)).op = "read"
             /\ env[Body(q, SubSeq(vs, 1, k - 1)).q] = vs[k],
           Body(q, vs).op # "read"
    PROVE  Sem!ReadsOf(q, env) = vs
<1> DEFINE N == MaxReads
           L == Len(vs)
           Step(us) == IF Body(q, us).op = "read"
                       THEN Append(us, env[Body(q, us).q]) ELSE us
           Eq(f) == f = [n \in 0 .. N |-> IF n = 0 THEN <<>> ELSE Step(f[n - 1])]
           g == [n \in 0 .. N |-> IF n <= L THEN SubSeq(vs, 1, n) ELSE vs]
<1>1. N \in Nat /\ L \in 0 .. N /\ vs \in Seq(Results)
  BY ConstantsAssumption, LenProperties DEF ValueSeqs
<1>2. /\ SubSeq(vs, 1, 0) = <<>> /\ SubSeq(vs, 1, L) = vs
      /\ \A n \in 1 .. L : SubSeq(vs, 1, n) = Append(SubSeq(vs, 1, n - 1), vs[n])
  <2>1. SubSeq(vs, 1, 0) = <<>>
    BY <1>1
  <2>2. SubSeq(vs, 1, L) = vs
    BY <1>1, SubSeqFull
  <2>3. ASSUME NEW n \in 1 .. L
        PROVE  SubSeq(vs, 1, n) = Append(SubSeq(vs, 1, n - 1), vs[n])
    BY <1>1
  <2> QED
    BY <2>1, <2>2, <2>3
<1>3. \A n \in 1 .. L : Step(SubSeq(vs, 1, n - 1)) = SubSeq(vs, 1, n)
  BY <1>2
<1>4. Step(vs) = vs
  OBVIOUS
<1> HIDE DEF Step
<1>5. g[0] = <<>> /\ \A n \in 1 .. N : g[n] = Step(g[n - 1])
  <2>1. g[0] = <<>>
    BY <1>1, <1>2
  <2>2. ASSUME NEW n \in 1 .. N
        PROVE  g[n] = Step(g[n - 1])
    <3>1. n \in 0 .. N /\ n - 1 \in 0 .. N
      BY <1>1
    <3>2. CASE n <= L
      <4>1. n - 1 <= L /\ n \in 1 .. L
        BY <1>1, <3>2
      <4>2. g[n] = SubSeq(vs, 1, n) /\ g[n - 1] = SubSeq(vs, 1, n - 1)
        BY <3>1, <3>2, <4>1
      <4> HIDE DEF g
      <4> QED
        BY <1>3, <4>1, <4>2
    <3>3. CASE ~(n <= L)
      <4>1. n - 1 <= L => n - 1 = L
        BY <1>1, <3>3
      <4>2. g[n] = vs
        BY <3>1, <3>3
      <4>3. g[n - 1] = vs
        BY <1>2, <3>1, <4>1
      <4> HIDE DEF g
      <4> QED
        BY <1>4, <4>2, <4>3
    <3> QED
      BY <3>2, <3>3
  <2> HIDE DEF g
  <2> QED
    BY <2>1, <2>2
<1>6. g[N] = vs
  <2>1. N \in 0 .. N /\ (N <= L => N = L)
    BY <1>1
  <2> QED
    BY <1>2, <2>1
<1>7. DOMAIN g = 0 .. N /\ g = [n \in DOMAIN g |-> g[n]]
  OBVIOUS
<1> HIDE DEF g
<1>8. Eq(g)
  <2> DEFINE h == [n \in 0 .. N |-> IF n = 0 THEN <<>> ELSE Step(g[n - 1])]
  <2>1. \A n \in 0 .. N : h[n] = g[n]
    <3> TAKE n \in 0 .. N
    <3>1. CASE n = 0
      BY <1>5, <3>1
    <3>2. CASE n # 0
      <4>1. n \in 1 .. N
        BY <1>1, <3>2
      <4> QED
        BY <1>5, <3>2, <4>1
    <3> QED
      BY <3>1, <3>2
  <2>2. DOMAIN h = 0 .. N /\ h = [n \in DOMAIN h |-> h[n]]
    OBVIOUS
  <2> HIDE DEF h
  <2>3. h = g
    BY <1>7, <2>1, <2>2
  <2> QED
    BY <2>3 DEF h
<1> DEFINE reads == CHOOSE f : Eq(f)
<1>9. Eq(reads)
  BY <1>8
<1>10. Sem!ReadsOf(q, env) = reads[N]
  BY DEF Sem!ReadsOf, Step
<1> HIDE DEF reads
<1>11. reads[0] = <<>> /\ \A n \in 1 .. N : reads[n] = Step(reads[n - 1])
  <2>1. \A n \in 0 .. N : reads[n] = IF n = 0 THEN <<>> ELSE Step(reads[n - 1])
    BY <1>9
  <2>2. 0 \in 0 .. N /\ \A n \in 1 .. N : n \in 0 .. N /\ n # 0
    BY <1>1
  <2> QED
    BY <2>1, <2>2
<1>12. 0 .. N \subseteq {n \in 0 .. N : reads[n] = g[n]}
  <2> DEFINE T == {n \in 0 .. N : reads[n] = g[n]}
  <2>1. 0 \in T
    BY <1>1, <1>5, <1>11
  <2>2. ASSUME NEW n \in 0 .. N - 1, n \in T
        PROVE  n + 1 \in T
    <3>1. n + 1 \in 1 .. N /\ n + 1 \in 0 .. N /\ (n + 1) - 1 = n
      BY <1>1
    <3>2. reads[n] = g[n]
      BY <2>2
    <3>3. reads[n + 1] = Step(reads[n]) /\ g[n + 1] = Step(g[n])
      BY <1>5, <1>11, <3>1
    <3> QED
      BY <3>1, <3>2, <3>3
  <2> HIDE DEF T
  <2>3. 0 .. N \subseteq T
    BY <1>1, <2>1, <2>2, IntervalInduction
  <2> QED
    BY <2>3 DEF T
<1>13. N \in 0 .. N
  BY <1>1
<1> QED
  BY <1>6, <1>10, <1>12, <1>13

\* What is recorded of a query is what every entry about it says.
LEMMA RecordedIs ==
    ASSUME TypeOK, NEW q \in Derived, OneFp(Entries(deps[q])),
           NEW e \in Entries(deps[q])
    PROVE  Recorded(q)[e.q] = e.fp
<1>1. deps[q] \in Seq(Dep)
  BY DEF TypeOK, Queries
<1>2. e.q \in Queries
  BY <1>1, EntriesOf DEF Dep
<1> DEFINE j == CHOOSE k \in DOMAIN deps[q] : deps[q][k].q = e.q
<1>3. \E k \in DOMAIN deps[q] : deps[q][k].q = e.q
  BY DEF Entries
<1>4. j \in DOMAIN deps[q] /\ deps[q][j].q = e.q
  BY <1>3
<1>5. Recorded(q)[e.q] = deps[q][j].fp
  BY <1>2, <1>3 DEF Recorded
<1> HIDE DEF j
<1>6. deps[q][j] \in Entries(deps[q])
  BY <1>4 DEF Entries
<1> QED
  BY <1>4, <1>5, <1>6 DEF OneFp

\* Dependency completeness, for bodies that fail on a sentinel: whatever was
\* verified, refreshed, cancelled, reclaimed or recomputed, record_dep_on_parent
\* and the walk leave a memo with the fingerprints its body returned it for.
THEOREM MemosReplay == FailsOnBottom => (Spec => []MemoIsReplayable)
<1>1. FailsOnBottom /\ MInv => MemoIsReplayable
  <2> SUFFICES ASSUME FailsOnBottom, MInv, NEW q \in Derived, state[q] = "DONE"
               PROVE  LET rs == Sem!ReadsOf(q, Recorded(q))
                      IN  /\ None \notin {rs[k] : k \in DOMAIN rs}
                          /\ Sem!ResultOf(q, Recorded(q)) = fp[q]
    BY DEF MemoIsReplayable
  <2>1. TypeOK /\ deps[q] \in Seq(Dep)
    BY DEF MInv, IInv, Shell, TypeOK, Queries
  <2>2. OneFp(Entries(deps[q])) /\ Told(q, fp[q], Entries(deps[q]))
    BY DEF MInv, MemosTold, MemoTold
  <2>3. PICK vs \in ValueSeqs :
          /\ Story(q, vs, Entries(deps[q]))
          /\ Body(q, vs).op = "return" /\ Body(q, vs).val = fp[q]
    BY <2>2 DEF Told
  <2>4. /\ vs \in Seq(Results) /\ Len(vs) \in 0 .. MaxReads
        /\ vs \in [1 .. Len(vs) -> Results] /\ DOMAIN vs = 1 .. Len(vs)
    BY ConstantsAssumption, LenProperties DEF ValueSeqs
  <2>5. \A k \in 1 .. Len(vs) : Body(q, SubSeq(vs, 1, k - 1)).op = "read"
    BY <2>3 DEF Story, ReadsNext
  <2>6. ~ \E k \in 1 .. Len(vs) :
            vs[k] = Bottom /\ Body(q, SubSeq(vs, 1, k - 1)).q \in MayFail
    BY <2>3, <2>5, StoriesAre DEF FailsOnBottom, ReadInTurn
  <2>7. ASSUME NEW k \in 1 .. Len(vs)
        PROVE  Recorded(q)[Body(q, SubSeq(vs, 1, k - 1)).q] = vs[k]
    <3>1. PICK d : d = Body(q, SubSeq(vs, 1, k - 1)).q
      OBVIOUS
    <3>2. [q |-> d, fp |-> vs[k]] \in Entries(deps[q])
      BY <2>3, <2>6, <3>1 DEF Story, ReadsNext
    <3>3. PICK e \in Entries(deps[q]) : e = [q |-> d, fp |-> vs[k]]
      BY <3>2
    <3>4. Recorded(q)[e.q] = e.fp
      BY <2>1, <2>2, RecordedIs
    <3> QED
      BY <3>1, <3>3, <3>4
  <2>8. Sem!ReadsOf(q, Recorded(q)) = vs
    <3>1. PICK env : env = Recorded(q)
      OBVIOUS
    <3>2. Sem!ReadsOf(q, env) = vs
      BY <2>3, <2>5, <2>7, <3>1, ReadsAre
    <3> QED
      BY <3>1, <3>2
  <2>9. None \notin {vs[k] : k \in DOMAIN vs}
    BY <2>4, ConstantsAssumption
  <2>10. Sem!ResultOf(q, Recorded(q)) = fp[q]
    BY <2>3, <2>8 DEF Sem!ResultOf
  <2> QED
    BY <2>8, <2>9, <2>10
<1> SUFFICES ASSUME FailsOnBottom
             PROVE  Spec => []MemoIsReplayable
  OBVIOUS
<1>2. MInv => MemoIsReplayable
  BY <1>1
<1> QED
  BY <1>2, MemoInvariance, PTL

-----------------------------------------------------------------------------
(* What a body reads of an environment.                                      *)

Envs == [Queries -> Results]

\* The values vs are what a body of q reads of env, one by one.
ReadingOf(q, vs, env) ==
    \A k \in 1 .. Len(vs) :
        LET b == Body(q, SubSeq(vs, 1, k - 1))
        IN  b.op = "read" /\ env[b.q] = vs[k]

\* ... and they are all it reads.
Run(q, vs, env) ==
    vs \in ValueSeqs /\ ReadingOf(q, vs, env) /\ Body(q, vs).op # "read"

\* A prefix of a story is one.
LEMMA PrefixIsStory ==
    ASSUME NEW vs \in ValueSeqs, NEW k \in 1 .. Len(vs)
    PROVE  SubSeq(vs, 1, k - 1) \in ValueSeqs
<1>1. vs \in Seq(Results) /\ Len(vs) \in Nat /\ Len(vs) <= MaxReads
  BY LenProperties DEF ValueSeqs
<1>2. k - 1 \in Nat /\ k - 1 <= Len(vs) /\ MaxReads \in Nat
  BY <1>1, ConstantsAssumption
<1>3. \A i \in 1 .. k - 1 : vs[i] \in Results
  BY <1>1, <1>2, ElementOfSeq
<1>4. SubSeq(vs, 1, k - 1) \in Seq(Results) /\ Len(SubSeq(vs, 1, k - 1)) = k - 1
  BY <1>1, <1>2, <1>3
<1> QED
  BY <1>1, <1>2, <1>4 DEF ValueSeqs

\* What a body does is an operation.
LEMMA BodyOperates ==
    ASSUME NEW q \in Derived, NEW vs \in ValueSeqs
    PROVE  /\ Body(q, vs).op \in {"read", "return", "fail"}
           /\ Body(q, vs).val \in Results
           /\ Body(q, vs).op = "read" =>
                Body(q, vs).q \in Queries /\ Len(vs) < MaxReads
<1>1. /\ vs \in Seq(Results) /\ Len(vs) \in 0 .. MaxReads
      /\ vs \in [1 .. Len(vs) -> Results] /\ MaxReads \in Nat
  BY ConstantsAssumption, LenProperties DEF ValueSeqs
<1>2. /\ Body(q, vs) \in Operations
      /\ Len(vs) = MaxReads => Body(q, vs).op # "read"
  BY <1>1, BodyAssumption
<1>3. Len(vs) # MaxReads => Len(vs) < MaxReads
  <2>1. PICK n \in 0 .. MaxReads : n = Len(vs)
    BY <1>1
  <2>2. n # MaxReads => n < MaxReads
    BY ConstantsAssumption
  <2> QED
    BY <2>1, <2>2
<1> QED
  BY <1>2, <1>3 DEF Operations, Results

\* A body reads what it can read.
LEMMA ReadIsReadable ==
    ASSUME NEW q \in Derived, NEW vs \in ValueSeqs, NEW k \in 1 .. Len(vs),
           Body(q, SubSeq(vs, 1, k - 1)).op = "read"
    PROVE  /\ Body(q, SubSeq(vs, 1, k - 1)).q \in Queries
           /\ CanRead(q, Body(q, SubSeq(vs, 1, k - 1)).q)
<1>1. PICK us : us = SubSeq(vs, 1, k - 1)
  OBVIOUS
<1>2. us \in ValueSeqs /\ us \in Stories
  BY <1>1, PrefixIsStory, StoriesAre
<1>3. Body(q, us).q \in Queries
  BY <1>1, <1>2, BodyOperates
<1> QED
  BY <1>1, <1>2, <1>3 DEF CanRead

\* Every body runs to its end in every environment.
LEMMA RunExists ==
    ASSUME NEW q \in Derived, NEW env \in Envs
    PROVE  \E vs \in ValueSeqs : Run(q, vs, env)
<1> SUFFICES ASSUME \A vs \in ValueSeqs : ~ Run(q, vs, env)
             PROVE  FALSE
  OBVIOUS
<1>0. MaxReads \in Nat
  BY ConstantsAssumption
<1> DEFINE T == {n \in 0 .. MaxReads :
                   \E vs \in ValueSeqs : Len(vs) = n /\ ReadingOf(q, vs, env)}
<1>1. 0 \in T
  <2>1. <<>> \in ValueSeqs /\ Len(<<>>) = 0 /\ ReadingOf(q, <<>>, env)
    BY <1>0 DEF ValueSeqs, ReadingOf
  <2> QED
    BY <1>0, <2>1
<1>2. ASSUME NEW n \in 0 .. MaxReads - 1, n \in T
      PROVE  n + 1 \in T
  <2>1. PICK vs \in ValueSeqs : Len(vs) = n /\ ReadingOf(q, vs, env)
    BY <1>2
  <2>2. Body(q, vs).op = "read"
    BY <2>1 DEF Run
  <2>3. PICK d \in Queries : d = Body(q, vs).q
    BY <2>2, BodyOperates
  <2>4. PICK v \in Results : v = env[d]
    BY DEF Envs
  <2> DEFINE ws == Append(vs, v)
  <2>5. vs \in Seq(Results)
    BY DEF ValueSeqs
  <2>6. /\ n \in Nat /\ Len(ws) = n + 1 /\ ws \in Seq(Results)
        /\ \A k \in 1 .. n : ws[k] = vs[k]
        /\ ws[n + 1] = v
        /\ \A k \in 1 .. n + 1 : SubSeq(ws, 1, k - 1) = SubSeq(vs, 1, k - 1)
        /\ SubSeq(ws, 1, n) = vs
    BY <2>1, <2>5, Prefixes
  <2> HIDE DEF ws
  <2>7. ws \in ValueSeqs /\ n + 1 \in 0 .. MaxReads
    BY <1>0, <2>6 DEF ValueSeqs
  <2>8. ASSUME NEW k \in 1 .. n + 1
        PROVE  LET b == Body(q, SubSeq(ws, 1, k - 1))
               IN  b.op = "read" /\ env[b.q] = ws[k]
    <3>1. CASE k \in 1 .. n
      BY <2>1, <2>6, <3>1 DEF ReadingOf
    <3>2. CASE k = n + 1
      <4>1. k - 1 = n
        BY <2>6, <3>2
      <4> QED
        BY <2>2, <2>3, <2>4, <2>6, <3>2, <4>1
    <3> QED
      BY <2>6, <3>1, <3>2
  <2>9. ReadingOf(q, ws, env)
    BY <2>6, <2>8 DEF ReadingOf
  <2> QED
    BY <2>6, <2>7, <2>9
<1> HIDE DEF T
<1>3. 0 .. MaxReads \subseteq T
  BY <1>0, <1>1, <1>2, IntervalInduction
<1>4. MaxReads \in T
  BY <1>0, <1>3
<1>5. PICK vs \in ValueSeqs : Len(vs) = MaxReads /\ ReadingOf(q, vs, env)
  BY <1>4 DEF T
<1>6. Body(q, vs).op = "read"
  BY <1>5 DEF Run
<1>7. Len(vs) < MaxReads
  BY <1>6, BodyOperates
<1> QED
  BY <1>0, <1>5, <1>7

\* The result of a run is the result in its environment.
LEMMA RunResult ==
    ASSUME NEW q, NEW vs, NEW env, Run(q, vs, env)
    PROVE  Sem!ResultOf(q, env) = Body(q, vs).val
<1>1. Sem!ReadsOf(q, env) = vs
  BY ReadsAre DEF Run, ReadingOf
<1> QED
  BY <1>1 DEF Sem!ResultOf

\* What a query evaluates to is a result.
LEMMA ResultType ==
    ASSUME NEW q \in Derived, NEW env \in Envs
    PROVE  Sem!ResultOf(q, env) \in Results
<1>1. PICK vs \in ValueSeqs : Run(q, vs, env)
  BY RunExists
<1> QED
  BY <1>1, RunResult, BodyOperates

\* A result depends on what the body can read only.
LEMMA ResultAgrees ==
    ASSUME NEW q \in Derived, NEW e \in Envs, NEW f \in Envs,
           \A d \in Queries : CanRead(q, d) => e[d] = f[d]
    PROVE  Sem!ResultOf(q, e) = Sem!ResultOf(q, f)
<1>1. PICK vs \in ValueSeqs : Run(q, vs, e)
  BY RunExists
<1>2. ASSUME NEW k \in 1 .. Len(vs)
      PROVE  LET b == Body(q, SubSeq(vs, 1, k - 1))
             IN  b.op = "read" /\ f[b.q] = vs[k]
  <2>1. PICK b : b = Body(q, SubSeq(vs, 1, k - 1))
    OBVIOUS
  <2>2. b.op = "read" /\ e[b.q] = vs[k]
    BY <1>1, <2>1 DEF Run, ReadingOf
  <2>3. b.q \in Queries /\ CanRead(q, b.q)
    BY <2>1, <2>2, ReadIsReadable
  <2> QED
    BY <2>1, <2>2, <2>3
<1>3. Run(q, vs, f)
  BY <1>1, <1>2 DEF Run, ReadingOf
<1> QED
  BY <1>1, <1>3, RunResult

-----------------------------------------------------------------------------
(* Evaluation from scratch.                                                  *)

Texts == [Inputs -> Results]

Seed(text) == [q \in Queries |-> IF q \in Inputs THEN text[q] ELSE Bottom]

Round(text, env) ==
    [q \in Queries |-> IF q \in Inputs THEN text[q] ELSE Sem!ResultOf(q, env)]

\* A round of FromScratch gives every query a result.
LEMMA RoundType ==
    ASSUME NEW text \in Texts
    PROVE  Seed(text) \in Envs /\ \A env \in Envs : Round(text, env) \in Envs
<1>1. Bottom \in Results
  BY DEF Results
<1>2. Seed(text) \in Envs
  BY <1>1 DEF Seed, Envs, Texts
<1>3. ASSUME NEW env \in Envs
      PROVE  Round(text, env) \in Envs
  <2>1. \A q \in Queries : q \notin Inputs => Sem!ResultOf(q, env) \in Results
    BY ResultType DEF Queries
  <2> QED
    BY <2>1 DEF Round, Envs, Texts
<1> QED
  BY <1>2, <1>3

\* The instance of QuerySemantics counts as this module does.
LEMMA SameCardinality ==
    \A S : Sem!Cardinality(S) = Cardinality(S)
BY DEF Sem!Cardinality, Cardinality

\* The rounds of FromScratch.
LEMMA RoundsExist ==
    ASSUME NEW text \in Texts, Cardinality(Derived) \in Nat
    PROVE  \E r \in [0 .. Cardinality(Derived) -> Envs] :
             /\ r[0] = Seed(text)
             /\ \A k \in 1 .. Cardinality(Derived) :
                  r[k] = Round(text, r[k - 1])
             /\ Sem!FromScratch(text) = r[Cardinality(Derived)]
<1> DEFINE N == Sem!Cardinality(Derived)
           Eq(f) == f = [k \in 0 .. N |-> IF k = 0 THEN Seed(text)
                                          ELSE Round(text, f[k - 1])]
           G == [x \in Envs \X (1 .. N) |-> Round(text, x[1])]
<1>0. N \in Nat /\ N = Cardinality(Derived)
  BY SameCardinality
<1>7. Sem!FromScratch(text) = (CHOOSE g : Eq(g))[N]
  BY DEF Sem!FromScratch, Seed, Round, Queries
<1> HIDE DEF N
<1>1. Seed(text) \in Envs /\ \A env \in Envs : Round(text, env) \in Envs
  BY RoundType
<1>2. G \in [Envs \X (1 .. N) -> Envs]
  BY <1>1
<1>3. PICK f \in [0 .. N -> Envs] : Runs(f, N, Seed(text), G)
  <2> HIDE DEF G
  <2> QED
    BY <1>1, <1>0, <1>2, RecursionExists
<1>4. f[0] = Seed(text) /\ \A k \in 1 .. N : f[k] = Round(text, f[k - 1])
  <2>1. \A k \in 1 .. N : <<f[k - 1], k>> \in Envs \X (1 .. N)
    BY <1>0, <1>3
  <2>2. \A k \in 1 .. N : G[<<f[k - 1], k>>] = Round(text, f[k - 1])
    BY <2>1
  <2> QED
    BY <1>3, <2>2 DEF Runs
<1>5. Eq(f)
  <2> DEFINE h == [k \in 0 .. N |-> IF k = 0 THEN Seed(text)
                                    ELSE Round(text, f[k - 1])]
  <2>1. \A k \in 0 .. N : h[k] = f[k]
    <3> TAKE k \in 0 .. N
    <3>1. CASE k = 0
      BY <1>4, <3>1
    <3>2. CASE k # 0
      <4>1. k \in 1 .. N
        BY <1>0, <3>2
      <4> QED
        BY <1>4, <3>2, <4>1
    <3> QED
      BY <3>1, <3>2
  <2>2. DOMAIN h = 0 .. N /\ h = [k \in DOMAIN h |-> h[k]]
    OBVIOUS
  <2>3. DOMAIN f = 0 .. N /\ f = [k \in DOMAIN f |-> f[k]]
    BY <1>3
  <2> HIDE DEF h
  <2>4. h = f
    BY <2>1, <2>2, <2>3
  <2> QED
    BY <2>4 DEF h
<1> DEFINE round == CHOOSE g : Eq(g)
<1>6. Eq(round)
  BY <1>5
<1>12. Sem!FromScratch(text) = round[N]
  BY <1>7
<1> HIDE DEF round
<1>8. round[0] = Seed(text) /\ \A k \in 1 .. N : round[k] = Round(text, round[k - 1])
  <2>1. \A k \in 0 .. N : round[k] = IF k = 0 THEN Seed(text)
                                     ELSE Round(text, round[k - 1])
    BY <1>6
  <2>2. 0 \in 0 .. N /\ \A k \in 1 .. N : k \in 0 .. N /\ k # 0
    BY <1>0
  <2> QED
    BY <2>1, <2>2
<1>9. \A k \in 0 .. N : round[k] \in Envs
  <2> DEFINE T == {k \in 0 .. N : round[k] \in Envs}
  <2>1. 0 \in T
    BY <1>0, <1>1, <1>8
  <2>2. ASSUME NEW k \in 0 .. N - 1, k \in T
        PROVE  k + 1 \in T
    <3>1. k + 1 \in 1 .. N /\ k + 1 \in 0 .. N /\ (k + 1) - 1 = k
      BY <1>0
    <3>2. round[k + 1] = Round(text, round[k]) /\ round[k] \in Envs
      BY <1>8, <2>2, <3>1
    <3>3. round[k + 1] \in Envs
      BY <1>1, <3>2
    <3> QED
      BY <3>1, <3>3
  <2> HIDE DEF T
  <2>3. 0 .. N \subseteq T
    BY <1>0, <2>1, <2>2, IntervalInduction
  <2> QED
    BY <2>3 DEF T
<1>10. DOMAIN round = 0 .. N /\ round = [k \in DOMAIN round |-> round[k]]
  BY <1>6
<1>11. round \in [0 .. N -> Envs]
  BY <1>9, <1>10
<1> QED
  BY <1>0, <1>8, <1>11, <1>12

(***************************************************************************)
(* A solution: every query has the value its body returns for the others.  *)
(***************************************************************************)
Solves(W, text) ==
    /\ W \in Envs
    /\ \A i \in Inputs : W[i] = text[i]
    /\ \A q \in Derived : W[q] = Sem!ResultOf(q, W)

\* What a program without cycles has as ranks.
LEMMA RanksOf ==
    ASSUME Acyclic
    PROVE  /\ Cardinality(Derived) \in Nat
           /\ \E rank \in [Derived -> 1 .. Cardinality(Derived)] : Ranking(rank)
BY FS_CardinalityType DEF Acyclic

\* The rounds end in a solution when no query reads itself.
LEMMA ScratchSolves ==
    ASSUME Acyclic, NEW text \in Texts
    PROVE  Solves(Sem!FromScratch(text), text)
<1>1. PICK N \in Nat : N = Cardinality(Derived)
  BY RanksOf
<1>2. PICK rank \in [Derived -> 1 .. N] : Ranking(rank)
  BY <1>1, RanksOf
<1>3. PICK r \in [0 .. N -> Envs] :
        /\ r[0] = Seed(text)
        /\ \A k \in 1 .. N : r[k] = Round(text, r[k - 1])
        /\ Sem!FromScratch(text) = r[N]
  BY <1>1, RoundsExist
<1>4. \A m \in 0 .. N : \A i \in Inputs : r[m][i] = text[i]
  <2> TAKE m \in 0 .. N
  <2>1. \A i \in Inputs : i \in Queries
    BY DEF Queries
  <2>2. CASE m = 0
    BY <1>3, <2>1, <2>2 DEF Seed
  <2>3. CASE m # 0
    <3>1. m \in 1 .. N
      BY <2>3
    <3>2. r[m] = Round(text, r[m - 1])
      BY <1>3, <3>1
    <3> QED
      BY <2>1, <3>2 DEF Round
  <2> QED
    BY <2>2, <2>3
<1>5. \A m \in 1 .. N : \A q \in Derived : r[m][q] = Sem!ResultOf(q, r[m - 1])
  <2> TAKE m \in 1 .. N
  <2> TAKE q \in Derived
  <2>1. q \in Queries /\ q \notin Inputs
    BY ConstantsAssumption DEF Queries
  <2> QED
    BY <1>3, <2>1 DEF Round
<1>6. \A m \in 0 .. N : r[m] \in Envs
  BY <1>3
<1> DEFINE T == {k \in 0 .. N : \A q \in Derived :
                   rank[q] <= k => \A m \in k .. N : r[m][q] = r[N][q]}
<1>7. 0 \in T
  <2>1. \A q \in Derived : ~(rank[q] <= 0)
    BY <1>2
  <2> QED
    BY <2>1
<1>8. ASSUME NEW k \in 0 .. N - 1, k \in T
      PROVE  k + 1 \in T
  <2>1. ASSUME NEW q \in Derived, rank[q] <= k + 1, NEW m \in k + 1 .. N
        PROVE  r[m][q] = r[N][q]
    <3>1. /\ m \in 1 .. N /\ N \in 1 .. N /\ m - 1 \in 0 .. N /\ N - 1 \in 0 .. N
          /\ m - 1 \in k .. N /\ N - 1 \in k .. N
      BY <2>1
    <3>2. ASSUME NEW d \in Queries, CanRead(q, d)
          PROVE  r[m - 1][d] = r[N - 1][d]
      <4>1. CASE d \in Inputs
        BY <1>4, <3>1, <4>1
      <4>2. CASE d \in Derived
        <5>1. rank[d] < rank[q] /\ rank[d] \in 1 .. N /\ rank[q] \in 1 .. N
          BY <1>2, <3>2, <4>2 DEF Ranking
        <5>2. rank[d] <= k
          BY <2>1, <5>1
        <5> QED
          BY <1>8, <3>1, <4>2, <5>2
      <4> QED
        BY <4>1, <4>2 DEF Queries
    <3>3. r[m - 1] \in Envs /\ r[N - 1] \in Envs
      BY <1>6, <3>1
    <3>4. Sem!ResultOf(q, r[m - 1]) = Sem!ResultOf(q, r[N - 1])
      BY <3>2, <3>3, ResultAgrees
    <3> QED
      BY <1>5, <3>1, <3>4
  <2>2. k + 1 \in 0 .. N
    OBVIOUS
  <2> QED
    BY <2>1, <2>2
<1> HIDE DEF T
<1>9. 0 .. N \subseteq T
  BY <1>7, <1>8, IntervalInduction
<1>10. ASSUME NEW q \in Derived
       PROVE  r[N][q] = Sem!ResultOf(q, r[N])
  <2>1. rank[q] \in 1 .. N
    BY <1>2
  <2>2. N \in 1 .. N /\ N - 1 \in 0 .. N /\ N \in 0 .. N /\ N - 1 \in N - 1 .. N
    BY <2>1
  <2>3. ASSUME NEW d \in Queries, CanRead(q, d)
        PROVE  r[N - 1][d] = r[N][d]
    <3>1. CASE d \in Inputs
      BY <1>4, <2>2, <3>1
    <3>2. CASE d \in Derived
      <4>1. rank[d] < rank[q] /\ rank[d] \in 1 .. N
        BY <1>2, <2>3, <3>2 DEF Ranking
      <4>2. rank[d] <= N - 1
        BY <2>1, <4>1
      <4>3. N - 1 \in T
        BY <1>9, <2>2
      <4> QED
        BY <2>2, <3>2, <4>2, <4>3 DEF T
    <3> QED
      BY <3>1, <3>2 DEF Queries
  <2>4. r[N - 1] \in Envs /\ r[N] \in Envs
    BY <1>6, <2>2
  <2>5. Sem!ResultOf(q, r[N - 1]) = Sem!ResultOf(q, r[N])
    BY <2>3, <2>4, ResultAgrees
  <2> QED
    BY <1>5, <2>2, <2>5
<1>11. N \in 0 .. N
  OBVIOUS
<1> QED
  BY <1>3, <1>4, <1>6, <1>10, <1>11 DEF Solves

\* A query of a higher tier than that of every input that differs has the same
\* value in two solutions.
LEMMA SolutionsAgree ==
    ASSUME Acyclic, NEW tier \in [Queries -> Tiers], Tiering(tier),
           NEW V, NEW W, NEW s, NEW t, Solves(V, s), Solves(W, t),
           NEW D \in Tiers, \A i \in Inputs : tier[i] > D => s[i] = t[i]
    PROVE  \A q \in Queries : tier[q] > D => V[q] = W[q]
<1>1. PICK N \in Nat : N = Cardinality(Derived)
  BY RanksOf
<1>2. PICK rank \in [Derived -> 1 .. N] : Ranking(rank)
  BY <1>1, RanksOf
<1>3. \A i \in Inputs : tier[i] > D => V[i] = W[i]
  BY DEF Solves
<1>4. V \in Envs /\ W \in Envs
  BY DEF Solves
<1>5. \A q \in Queries : tier[q] \in Int
  BY DEF Tiers, DUR_LOW, DUR_HIGH
<1>6. D \in Int
  BY DEF Tiers, DUR_LOW, DUR_HIGH
<1> DEFINE T == {k \in 0 .. N : \A q \in Derived :
                   rank[q] <= k /\ tier[q] > D => V[q] = W[q]}
<1>7. 0 \in T
  <2>1. \A q \in Derived : ~(rank[q] <= 0)
    BY <1>2
  <2> QED
    BY <2>1
<1>8. ASSUME NEW k \in 0 .. N - 1, k \in T
      PROVE  k + 1 \in T
  <2>1. ASSUME NEW q \in Derived, rank[q] <= k + 1, tier[q] > D
        PROVE  V[q] = W[q]
    <3>1. ASSUME NEW d \in Queries, CanRead(q, d)
          PROVE  V[d] = W[d]
      <4>1. tier[q] <= tier[d]
        BY <3>1 DEF Tiering
      <4>2. tier[d] > D
        BY <1>5, <1>6, <2>1, <4>1 DEF Queries
      <4>3. CASE d \in Inputs
        BY <1>3, <4>2, <4>3
      <4>4. CASE d \in Derived
        <5>1. rank[d] < rank[q] /\ rank[d] \in 1 .. N /\ rank[q] \in 1 .. N
          BY <1>2, <3>1, <4>4 DEF Ranking
        <5>2. rank[d] <= k
          BY <2>1, <5>1
        <5> QED
          BY <1>8, <4>2, <4>4, <5>2
      <4> QED
        BY <4>3, <4>4 DEF Queries
    <3>2. Sem!ResultOf(q, V) = Sem!ResultOf(q, W)
      BY <1>4, <3>1, ResultAgrees
    <3> QED
      BY <3>2 DEF Solves
  <2>2. k + 1 \in 0 .. N
    OBVIOUS
  <2> QED
    BY <2>1, <2>2
<1> HIDE DEF T
<1>9. 0 .. N \subseteq T
  BY <1>7, <1>8, IntervalInduction
<1>10. ASSUME NEW q \in Derived, tier[q] > D
       PROVE  V[q] = W[q]
  <2>1. rank[q] <= N /\ N \in T
    BY <1>2, <1>9
  <2> QED
    BY <1>10, <2>1 DEF T
<1> QED
  BY <1>3, <1>10 DEF Queries

\* A body that returns was handed no sentinel.
LEMMA NoSentinel ==
    ASSUME FailsOnBottom, NEW q \in Derived, NEW vs \in ValueSeqs, NEW E,
           Story(q, vs, E), Body(q, vs).op = "return"
    PROVE  \A k \in 1 .. Len(vs) :
             LET d == Body(q, SubSeq(vs, 1, k - 1)).q
             IN  /\ Body(q, SubSeq(vs, 1, k - 1)).op = "read"
                 /\ d \in Queries /\ [q |-> d, fp |-> vs[k]] \in E
<1>1. vs \in Stories
  BY StoriesAre
<1>2. ReadInTurn(q, vs)
  BY DEF ReadInTurn, Story, ReadsNext
<1>3. ~ \E k \in 1 .. Len(vs) :
          vs[k] = Bottom /\ Body(q, SubSeq(vs, 1, k - 1)).q \in MayFail
  BY <1>1, <1>2 DEF FailsOnBottom
<1> SUFFICES ASSUME NEW k \in 1 .. Len(vs)
             PROVE  LET d == Body(q, SubSeq(vs, 1, k - 1)).q
                    IN  /\ Body(q, SubSeq(vs, 1, k - 1)).op = "read"
                        /\ d \in Queries /\ [q |-> d, fp |-> vs[k]] \in E
  OBVIOUS
<1>4. Body(q, SubSeq(vs, 1, k - 1)).op = "read"
  BY <1>2 DEF ReadInTurn
<1>5. Body(q, SubSeq(vs, 1, k - 1)).q \in Queries
  BY <1>4, ReadIsReadable
<1>6. ReadsNext(q, SubSeq(vs, 1, k - 1), vs[k], E)
  BY DEF Story
<1> QED
  BY <1>3, <1>4, <1>5, <1>6 DEF ReadsNext

\* A memo told of current values is current.
LEMMA ToldIsCurrent ==
    ASSUME FailsOnBottom, NEW W, NEW text, Solves(W, text), NEW q \in Derived,
           NEW y, NEW E, Told(q, y, E), \A e \in E : e.fp = W[e.q]
    PROVE  y = W[q]
<1>1. PICK vs \in ValueSeqs :
        /\ Story(q, vs, E)
        /\ Body(q, vs).op = "return" /\ Body(q, vs).val = y
  BY DEF Told
<1>2. ASSUME NEW k \in 1 .. Len(vs)
      PROVE  LET b == Body(q, SubSeq(vs, 1, k - 1))
             IN  b.op = "read" /\ W[b.q] = vs[k]
  <2>1. PICK b : b = Body(q, SubSeq(vs, 1, k - 1))
    OBVIOUS
  <2>2. b.op = "read" /\ [q |-> b.q, fp |-> vs[k]] \in E
    BY <1>1, <2>1, NoSentinel
  <2>3. PICK e \in E : e = [q |-> b.q, fp |-> vs[k]]
    BY <2>2
  <2>4. e.fp = W[e.q]
    OBVIOUS
  <2> QED
    BY <2>1, <2>2, <2>3, <2>4
<1>3. Run(q, vs, W)
  BY <1>1, <1>2 DEF Run, ReadingOf
<1> QED
  BY <1>1, <1>3, RunResult DEF Solves

-----------------------------------------------------------------------------
(***************************************************************************)
(* The invariant.  W is what the queries evaluate to now, ds the tiers of  *)
(* the slots.  A body has been handed current values only, and the tier    *)
(* its frame has folded covers each of them; a walk has found the entries  *)
(* behind it, and those appended to the list since, to be current, except  *)
(* for what the pull in progress has refreshed.                            *)
(***************************************************************************)
NowOf(D, W) == {[q |-> d, fp |-> W[d]] : d \in D}

Covered(t, tier) == {d \in Queries : t.durSet /\ t.minDur <= tier[d]}

Passed(t, j) ==
    /\ j < t.i \/ j > t.n
    /\ t.pulled => t.deps[j].q # t.deps[t.i].q

Good(t, W, tier, ds) ==
    IF t.mode = "walk"
    THEN /\ \A j \in 1 .. Len(t.deps) :
              Passed(t, j) => t.deps[j].fp = W[t.deps[j].q]
         /\ t.prev = "DONE" => ds[t.q] <= tier[t.q]
    ELSE Story(t.q, t.vals, NowOf(Covered(t, tier), W))

AllGood(s, W, tier, ds) == \A k \in 1 .. Len(s) : Good(s[k], W, tier, ds)

\* What a walk has just pulled is current, unless it has failed.
PullGood(s, W, st, x) ==
    s # <<>> /\ Top(s).mode = "walk" /\ Top(s).pulled =>
        LET d == Top(s).deps[Top(s).i].q
        IN  st[d] = "DONE" => x[d] = W[d]

\* A memo whose tier has not changed since it was verified is current.
MemoGood(q, s, y, v, d, last, W, tier) ==
    s = "DONE" => d <= tier[q] /\ (last[d] <= v => y = W[q])

MemosGood(W, tier) ==
    \A q \in Derived :
        MemoGood(q, state[q], fp[q], vrev[q], dur[q], lastChanged, W, tier)

InputsKept == \A i \in Inputs : column[i] \in Values /\ dur[i] = InputDur[i]

PinnedIsProfiled ==
    req # 0 /\ req # cur =>
        \A q \in Derived : state[q] = "RUNNING" => q \in Profiled

ValuesGood(W, tier) ==
    /\ MemosGood(W, tier)
    /\ AllGood(stack, W, tier, dur)
    /\ PullGood(stack, W, state, fp)

Setting == MInv /\ ~ cancel /\ InputsKept /\ PinnedIsProfiled

CInv(tier) == Setting /\ ValuesGood(Now, tier)

\* The programs.
Suits(tier) ==
    /\ ~ CanCancel /\ Acyclic /\ FailsOnBottom /\ ProfiledReadInputs
    /\ tier \in [Queries -> Tiers] /\ Tiering(tier)

-----------------------------------------------------------------------------
(* One frame.                                                                *)

\* A frame stays good while its own slot keeps its tier.
LEMMA GoodStays ==
    ASSUME NEW t, NEW W, NEW tier, NEW ds, NEW ds2, Good(t, W, tier, ds),
           ds2[t.q] = ds[t.q]
    PROVE  Good(t, W, tier, ds2)
BY DEF Good

\* A frame stays good while it waits for the call it makes.
LEMMA GoodCalling ==
    ASSUME NEW t \in Frame, NEW q, NEW W, NEW tier, NEW ds, Good(t, W, tier, ds),
           t.mode = "walk" => ~t.pulled
    PROVE  Good(Calling(t, q), W, tier, ds)
<1> DEFINE g == Calling(t, q)
<1>1. /\ g.q = t.q /\ g.mode = t.mode /\ g.deps = t.deps
      /\ g.prev = t.prev /\ g.i = t.i /\ g.n = t.n /\ g.vals = t.vals
      /\ g.durSet = t.durSet /\ g.minDur = t.minDur
  BY CallingFields
<1> HIDE DEF g
<1>2. CASE t.mode = "walk"
  <2>1. \A j \in 1 .. Len(t.deps) : Passed(g, j) => Passed(t, j)
    BY <1>1, <1>2 DEF Passed
  <2> QED
    BY <1>1, <1>2, <2>1 DEF Good, g
<1>3. CASE t.mode # "walk"
  <2>1. Covered(g, tier) = Covered(t, tier)
    BY <1>1 DEF Covered
  <2> QED
    BY <1>1, <1>3, <2>1 DEF Good, g
<1> QED
  BY <1>2, <1>3

\* A value handed over, current and of a tier the frame has folded, or a
\* sentinel.
LEMMA GoodHanded ==
    ASSUME NEW t \in Frame, NEW q \in Queries, Awaits(t, q), NEW v \in Results,
           NEW W, NEW tier, NEW ds, Good(t, W, tier, ds),
           \/ v = Bottom /\ q \in MayFail
           \/ v = W[q] /\ q \in Covered(t, tier)
    PROVE  Good(Handed(t, v), W, tier, ds)
<1> DEFINE g == Handed(t, v)
<1>1. /\ g.q = t.q /\ g.mode = t.mode
      /\ g.durSet = t.durSet /\ g.minDur = t.minDur
      /\ g.vals = IF t.mode = "walk" THEN t.vals ELSE Append(t.vals, v)
  BY HandedFields
<1>2. t.mode = "walk" => g = t
  BY DEF Handed
<1> HIDE DEF g
<1>3. CASE t.mode = "walk"
  BY <1>2, <1>3 DEF g
<1>4. CASE t.mode # "walk"
  <2>1. t.mode = "body" /\ t.vals \in Seq(Results)
    BY <1>4, FrameParts
  <2>2. Body(t.q, t.vals).op = "read" /\ Body(t.q, t.vals).q = q
    BY <2>1 DEF Awaits, Upcoming
  <2>3. PICK E : E = NowOf(Covered(t, tier), W)
    OBVIOUS
  <2>4. Story(t.q, t.vals, E)
    BY <1>4, <2>3 DEF Good
  <2>5. (v = Bottom /\ q \in MayFail) \/ [q |-> q, fp |-> v] \in E
    BY <2>3 DEF NowOf
  <2>6. Story(t.q, Append(t.vals, v), E)
    BY <2>1, <2>2, <2>4, <2>5, StoryGoesOn
  <2>7. Covered(g, tier) = Covered(t, tier)
    BY <1>1 DEF Covered
  <2> QED
    BY <1>1, <1>4, <2>3, <2>6, <2>7 DEF Good, g
<1> QED
  BY <1>3, <1>4

\* A dependency recorded: the tier goes down, and of a walk only entries about
\* what it has pulled change.
LEMMA GoodRecorded ==
    ASSUME NEW t \in Frame, NEW q \in Queries, Awaits(t, q),
           NEW y \in Results \cup {None}, NEW d \in Tiers,
           NEW W, NEW tier \in [Queries -> Tiers], NEW ds, Good(t, W, tier, ds)
    PROVE  LET g == RecordDep(t, q, y, d)
           IN  /\ g \in Frame /\ Awaits(g, q) /\ Good(g, W, tier, ds)
               /\ g.mode = "body" /\ d <= tier[q] => q \in Covered(g, tier)
<1> DEFINE g == RecordDep(t, q, y, d)
           dep == [q |-> q, fp |-> y]
<1>1. /\ g \in Frame /\ g.q = t.q /\ g.mode = t.mode
      /\ g.prev = t.prev /\ g.i = t.i /\ g.n = t.n
      /\ g.pulled = t.pulled /\ g.want = t.want /\ g.vals = t.vals
      /\ g.durSet
      /\ g.minDur = IF ~t.durSet \/ d < t.minDur THEN d ELSE t.minDur
      /\ Indexed(t, q) = {} => g.deps = Append(t.deps, dep)
      /\ Indexed(t, q) # {} =>
           /\ Len(g.deps) = Len(t.deps)
           /\ \A k \in 1 .. Len(t.deps) :
                g.deps[k] = IF k \in Indexed(t, q) THEN dep ELSE t.deps[k]
  BY RecordedFields
<1>2. \A k \in 1 .. Len(t.deps) : g.deps[k].q = t.deps[k].q
  BY RecordedEntries
<1> HIDE DEF g
<1>3. /\ t.deps \in Seq(Dep) /\ t.minDur \in Int /\ t.i \in Nat \ {0}
      /\ t.n \in Nat /\ Len(t.deps) \in Nat /\ d \in Int
      /\ g.deps \in Seq(Dep) /\ Len(g.deps) \in Nat
      /\ \A k \in Queries : tier[k] \in Int
      /\ DOMAIN t.deps = 1 .. Len(t.deps) /\ t.durSet \in BOOLEAN
  BY <1>1, LenProperties DEF Frame, FrameFields, Tiers, DUR_LOW, DUR_HIGH
<1>4. CASE t.mode = "walk"
  <2>1. t.pulled /\ t.i <= t.n /\ t.deps[t.i].q = q
    BY <1>4 DEF Awaits
  <2>2. t.i \in 1 .. Len(t.deps)
    BY <1>4, <2>1, EntryAt
  <2>3. g.deps[g.i].q = q
    BY <1>1, <1>2, <2>1, <2>2
  <2>4. Awaits(g, q)
    BY <1>1, <1>4, <2>1, <2>3 DEF Awaits
  <2>5. ASSUME NEW j \in 1 .. Len(g.deps), g.deps[j].q # q
        PROVE  j \in 1 .. Len(t.deps) /\ g.deps[j] = t.deps[j]
    <3>1. CASE Indexed(t, q) = {}
      <4>1. /\ Len(g.deps) = Len(t.deps) + 1
            /\ \A k \in 1 .. Len(t.deps) : g.deps[k] = t.deps[k]
            /\ g.deps[Len(t.deps) + 1] = dep
        BY <1>1, <1>3, <3>1, AppendProperties
      <4>2. dep.q = q
        OBVIOUS
      <4>3. j # Len(t.deps) + 1
        BY <2>5, <4>1, <4>2
      <4>4. j \in 1 .. Len(t.deps)
        BY <1>3, <4>1, <4>3
      <4> QED
        BY <4>1, <4>4
    <3>2. CASE Indexed(t, q) # {}
      <4>1. j \in 1 .. Len(t.deps)
        BY <1>1, <3>2
      <4>2. t.deps[j].q # q
        BY <1>2, <2>5, <4>1
      <4>3. j \notin Indexed(t, q)
        BY <4>2 DEF Indexed
      <4> QED
        BY <1>1, <3>2, <4>1, <4>3
    <3> QED
      BY <3>1, <3>2
  <2>6. ASSUME NEW j \in 1 .. Len(g.deps), Passed(g, j)
        PROVE  g.deps[j].fp = W[g.deps[j].q]
    <3>1. g.deps[j].q # q
      BY <1>1, <2>1, <2>3, <2>6 DEF Passed
    <3>2. j \in 1 .. Len(t.deps) /\ g.deps[j] = t.deps[j]
      BY <2>5, <3>1
    <3>3. Passed(t, j)
      BY <1>1, <2>1, <2>6, <3>1, <3>2 DEF Passed
    <3> QED
      BY <1>4, <3>2, <3>3 DEF Good
  <2>7. Good(g, W, tier, ds)
    BY <1>1, <1>4, <2>6 DEF Good
  <2>8. g.mode # "body"
    BY <1>1, <1>4
  <2> QED
    BY <1>1, <2>4, <2>7, <2>8 DEF g
<1>5. CASE t.mode # "walk"
  <2>1. Awaits(g, q)
    BY <1>1, <1>5, FrameParts DEF Awaits, Upcoming
  <2>2. g.minDur <= d /\ (t.durSet => g.minDur <= t.minDur) /\ g.minDur \in Int
    BY <1>1, <1>3
  <2>3. Covered(t, tier) \subseteq Covered(g, tier)
    BY <1>1, <1>3, <2>2 DEF Covered
  <2>4. d <= tier[q] => q \in Covered(g, tier)
    BY <1>1, <1>3, <2>2 DEF Covered
  <2>5. NowOf(Covered(t, tier), W) \subseteq NowOf(Covered(g, tier), W)
    BY <2>3 DEF NowOf
  <2>6. Story(t.q, t.vals, NowOf(Covered(t, tier), W))
    BY <1>5 DEF Good
  <2>7. Story(g.q, g.vals, NowOf(Covered(g, tier), W))
    BY <1>1, <2>5, <2>6, StoryGrows
  <2>8. Good(g, W, tier, ds)
    BY <1>1, <1>5, <2>7 DEF Good
  <2> QED
    BY <1>1, <2>1, <2>4, <2>8 DEF g
<1> QED
  BY <1>4, <1>5

-----------------------------------------------------------------------------
(* The stack.                                                                *)

\* The tiers of the frames' own slots are what counts.
LEMMA AllGoodStays ==
    ASSUME NEW s \in Seq(Frame), NEW W, NEW tier, NEW ds, NEW ds2,
           AllGood(s, W, tier, ds), \A q \in Holds(s) : ds2[q] = ds[q]
    PROVE  AllGood(s, W, tier, ds2)
<1> SUFFICES ASSUME NEW k \in 1 .. Len(s)
             PROVE  Good(s[k], W, tier, ds2)
  BY DEF AllGood
<1>1. s[k].q \in Holds(s)
  <2>1. k \in DOMAIN s
    BY LenProperties
  <2> QED
    BY <2>1 DEF Holds
<1>2. Good(s[k], W, tier, ds)
  BY DEF AllGood
<1> QED
  BY <1>1, <1>2, GoodStays

\* The caller of a frame that returns is good once it is handed the value.
LEMMA CallerGood ==
    ASSUME TypeOK, NEW q \in Queries, Calls(q), NEW W, NEW tier, NEW ds,
           AllGood(stack, W, tier, ds)
    PROVE  AllGood(Caller(q), W, tier, ds)
<1>1. CASE stack = <<>>
  <2>1. Caller(q) = <<>>
    BY <1>1 DEF Caller
  <2> QED
    BY <2>1 DEF AllGood
<1>2. CASE stack # <<>>
  <2>1. /\ Len(Caller(q)) = Len(stack) /\ Len(stack) \in Nat \ {0}
        /\ \A k \in 1 .. Len(stack) :
             Caller(q)[k] = IF k = Len(stack) THEN Calling(Top(stack), q)
                            ELSE stack[k]
    BY <1>2, CallerTop
  <2>2. Top(stack) \in Frame
    BY <1>2, TopIsFrame DEF TypeOK
  <2>3. Good(Top(stack), W, tier, ds)
    BY <2>1 DEF AllGood, Top
  <2>4. Top(stack).mode = "walk" => ~Top(stack).pulled
    BY <1>2 DEF Calls, ConsumerCalls, BodyCalls, WalkCalls
  <2>5. Good(Calling(Top(stack), q), W, tier, ds)
    BY <2>2, <2>3, <2>4, GoodCalling
  <2> QED
    BY <2>1, <2>5 DEF AllGood
<1> QED
  BY <1>1, <1>2

\* The frames below the top one are good without it.
LEMMA PoppedGood ==
    ASSUME NEW s \in Seq(Frame), s # <<>>, NEW W, NEW tier, NEW ds,
           AllGood(s, W, tier, ds)
    PROVE  AllGood(Popped(s), W, tier, ds)
<1>1. /\ Len(Popped(s)) = Len(s) - 1 /\ Len(s) \in Nat \ {0}
      /\ \A k \in 1 .. Len(s) - 1 : Popped(s)[k] = s[k]
  BY PoppedFrames
<1>2. \A k \in 1 .. Len(s) - 1 : k \in 1 .. Len(s)
  BY <1>1
<1> QED
  BY <1>1, <1>2 DEF AllGood

\* A new frame on top of good frames has pulled nothing yet.
LEMMA PushedGood ==
    ASSUME NEW s \in Seq(Frame), NEW f \in Frame, ~f.pulled,
           NEW W, NEW tier, NEW ds, NEW st, NEW x,
           AllGood(s, W, tier, ds), Good(f, W, tier, ds)
    PROVE  /\ AllGood(Append(s, f), W, tier, ds)
           /\ PullGood(Append(s, f), W, st, x)
<1> DEFINE u == Append(s, f)
<1>1. /\ Len(s) \in Nat /\ Len(u) = Len(s) + 1
      /\ \A k \in 1 .. Len(s) : u[k] = s[k]
      /\ u[Len(s) + 1] = f
  BY AppendProperties, LenProperties
<1> HIDE DEF u
<1>2. Top(u) = f
  BY <1>1 DEF Top
<1>3. ASSUME NEW k \in 1 .. Len(u)
      PROVE  Good(u[k], W, tier, ds)
  <2>1. k \in 1 .. Len(s) \/ k = Len(s) + 1
    BY <1>1
  <2> QED
    BY <1>1, <2>1 DEF AllGood
<1> QED
  BY <1>2, <1>3 DEF AllGood, PullGood, u

\* The callee has failed and returns its sentinel.
LEMMA ReturnGood ==
    ASSUME NEW s \in Seq(Frame), NEW q \in Queries, q \in MayFail,
           s # <<>> => Awaits(Top(s), q), NEW W, NEW tier, NEW ds,
           AllGood(s, W, tier, ds), NEW st, st[q] # "DONE", NEW x
    PROVE  /\ AllGood(ReturnTo(s, Bottom), W, tier, ds)
           /\ PullGood(ReturnTo(s, Bottom), W, st, x)
<1>1. CASE s = <<>>
  BY <1>1 DEF ReturnTo, AllGood, PullGood
<1>2. CASE s # <<>>
  <2> DEFINE f == Handed(Top(s), Bottom)
  <2>1. Top(s) \in Frame /\ Len(s) \in Nat \ {0} /\ Bottom \in Results
    BY <1>2, TopIsFrame DEF Results
  <2>2. Good(Top(s), W, tier, ds)
    BY <2>1 DEF AllGood, Top
  <2>3. Good(f, W, tier, ds)
    BY <1>2, <2>1, <2>2, GoodHanded
  <2>4. f.mode = Top(s).mode /\ (Top(s).mode = "walk" => f = Top(s))
    BY <2>1, HandedFields DEF Handed
  <2>5. PICK u : u = ReturnTo(s, Bottom)
    OBVIOUS
  <2>6. /\ Len(u) = Len(s)
        /\ \A k \in 1 .. Len(s) : u[k] = IF k = Len(s) THEN f ELSE s[k]
    BY <1>2, <2>5, ReturnedTop
  <2> HIDE DEF f
  <2>7. Top(u) = f
    BY <2>1, <2>6 DEF Top
  <2>8. AllGood(u, W, tier, ds)
    BY <2>3, <2>6 DEF AllGood
  <2>9. PullGood(u, W, st, x)
    <3>1. f.mode = "walk" => f.deps[f.i].q = q
      BY <1>2, <2>4 DEF Awaits
    <3> QED
      BY <2>7, <3>1 DEF PullGood
  <2> QED
    BY <2>5, <2>8, <2>9
<1> QED
  BY <1>1, <1>2

\* The callee is recorded with its tier and returns a current value, or it has
\* failed before and returns its sentinel.
LEMMA ReceiveGood ==
    ASSUME NEW s \in Seq(Frame), NEW q \in Queries,
           s # <<>> => Awaits(Top(s), q),
           NEW y \in Results \cup {None}, NEW d \in Tiers, NEW v \in Results,
           NEW W, NEW tier \in [Queries -> Tiers], NEW ds,
           AllGood(s, W, tier, ds), NEW st, NEW x,
           s # <<>> =>
             \/ v = Bottom /\ q \in MayFail /\ st[q] # "DONE"
             \/ v = W[q] /\ d <= tier[q] /\ x[q] = W[q]
    PROVE  LET u == ReturnTo(RecordOnParent(s, q, y, d), v)
           IN  AllGood(u, W, tier, ds) /\ PullGood(u, W, st, x)
<1>1. Receptive(s)
  BY AwaitsReceptive
<1> DEFINE u == ReturnTo(RecordOnParent(s, q, y, d), v)
<1>3. /\ s = <<>> => u = <<>>
      /\ s # <<>> =>
           /\ Len(u) = Len(s) /\ Len(s) \in Nat \ {0}
           /\ \A k \in 1 .. Len(s) :
                u[k] = IF k = Len(s) THEN Handed(RecordDep(Top(s), q, y, d), v)
                       ELSE s[k]
  BY <1>1, ReceivedTop
<1> HIDE DEF u
<1>4. CASE s = <<>>
  BY <1>3, <1>4 DEF AllGood, PullGood, u
<1>5. CASE s # <<>>
  <2> DEFINE g == RecordDep(Top(s), q, y, d)
             f == Handed(g, v)
  <2>1. Top(s) \in Frame /\ Len(s) \in Nat \ {0}
    BY <1>5, TopIsFrame
  <2>2. Good(Top(s), W, tier, ds)
    BY <2>1 DEF AllGood, Top
  <2>3. /\ g \in Frame /\ Awaits(g, q) /\ Good(g, W, tier, ds)
        /\ g.mode = "body" /\ d <= tier[q] => q \in Covered(g, tier)
    BY <1>5, <2>1, <2>2, GoodRecorded
  <2> HIDE DEF g
  <2>4. Good(f, W, tier, ds)
    <3>1. CASE g.mode = "walk"
      BY <2>3, <3>1 DEF Handed
    <3>2. CASE g.mode # "walk"
      <4>1. g.mode = "body"
        BY <2>3, <3>2, FrameParts
      <4>2. \/ v = Bottom /\ q \in MayFail
            \/ v = W[q] /\ q \in Covered(g, tier)
        BY <1>5, <2>3, <4>1
      <4> QED
        BY <2>3, <4>2, GoodHanded
    <3> QED
      BY <3>1, <3>2
  <2>5. f.mode = g.mode /\ (g.mode = "walk" => f = g)
    BY <2>3, HandedFields DEF Handed
  <2>6. /\ Len(u) = Len(s)
        /\ \A k \in 1 .. Len(s) : u[k] = IF k = Len(s) THEN f ELSE s[k]
    BY <1>3, <1>5 DEF g
  <2> HIDE DEF f
  <2>7. Top(u) = f
    BY <2>1, <2>6 DEF Top
  <2>8. AllGood(u, W, tier, ds)
    BY <2>4, <2>6 DEF AllGood
  <2>9. PullGood(u, W, st, x)
    <3>1. f.mode = "walk" => f.deps[f.i].q = q
      BY <2>3, <2>5 DEF Awaits
    <3> QED
      BY <1>5, <2>7, <3>1 DEF PullGood
  <2> QED
    BY <2>8, <2>9 DEF u
<1> QED
  BY <1>4, <1>5

\* The top frame replaced by one that has pulled nothing.
LEMMA ReplacedGood ==
    ASSUME NEW s \in Seq(Frame), s # <<>>, NEW f \in Frame, ~f.pulled,
           NEW W, NEW tier, NEW ds, NEW st, NEW x,
           AllGood(s, W, tier, ds), Good(f, W, tier, ds)
    PROVE  /\ AllGood(OnTop(s, f), W, tier, ds)
           /\ PullGood(OnTop(s, f), W, st, x)
<1>1. Len(s) \in 1 .. Len(s) /\ Len(s) \in Nat
  BY EmptySeq, LenProperties
<1>2. PICK u : u = OnTop(s, f)
  OBVIOUS
<1>3. /\ Len(u) = Len(s)
      /\ \A j \in 1 .. Len(s) : u[j] = IF j = Len(s) THEN f ELSE s[j]
  BY <1>1, <1>2, ExceptSeq DEF OnTop
<1>4. Top(u) = f
  BY <1>1, <1>3 DEF Top
<1>5. AllGood(u, W, tier, ds)
  BY <1>3 DEF AllGood
<1> QED
  BY <1>2, <1>4, <1>5 DEF PullGood

-----------------------------------------------------------------------------
(* The slots.                                                                *)

\* What the queries evaluate to now is a solution for the inputs as they are.
LEMMA NowSolves ==
    ASSUME Acyclic, TypeOK
    PROVE  Solves(Now, [i \in Inputs |-> column[i]])
<1>1. [i \in Inputs |-> column[i]] \in Texts
  BY DEF TypeOK, Texts, Queries
<1> QED
  BY <1>1, ScratchSolves DEF Now

\* Nothing but an edit of an input moves it.
LEMMA NowStays ==
    ASSUME \A i \in Inputs : column'[i] = column[i]
    PROVE  Now' = Now
<1>1. [i \in Inputs |-> column'[i]] = [i \in Inputs |-> column[i]]
  OBVIOUS
<1>2. Now' = Sem!FromScratch([i \in Inputs |-> column'[i]])
  BY DEF Now
<1> QED
  BY <1>1, <1>2 DEF Now


\* A step that writes one memo.
LEMMA OneGood ==
    ASSUME NEW W, NEW tier, MemosGood(W, tier), NEW q, lastChanged' = lastChanged,
           \A d \in Derived \ {q} :
             /\ state'[d] = state[d] /\ fp'[d] = fp[d]
             /\ vrev'[d] = vrev[d] /\ dur'[d] = dur[d],
           q \in Derived =>
             MemoGood(q, state'[q], fp'[q], vrev'[q], dur'[q], lastChanged, W, tier)
    PROVE  MemosGood(W, tier)'
<1> SUFFICES ASSUME NEW d \in Derived
             PROVE  MemoGood(d, state'[d], fp'[d], vrev'[d], dur'[d],
                             lastChanged, W, tier)
  BY DEF MemosGood
<1>1. CASE d = q
  BY <1>1
<1>2. CASE d # q
  <2>1. MemoGood(d, state[d], fp[d], vrev[d], dur[d], lastChanged, W, tier)
    BY DEF MemosGood
  <2> QED
    BY <1>2, <2>1
<1> QED
  BY <1>1, <1>2

\* A query is called at the current revision, or from outside in the request
\* that is pinned below it.
LEMMA CallIsCurrent ==
    ASSUME Setting, ProfiledReadInputs, NEW q \in Derived, Calls(q)
    PROVE  req = cur \/ (stack = <<>> /\ q \in Profiled)
<1>1. CASE stack = <<>>
  BY <1>1 DEF Calls, ConsumerCalls, BodyCalls, WalkCalls
<1>2. CASE stack # <<>>
  <2>1. MInv /\ Shell /\ q \in Queries
    BY DEF Setting, MInv, IInv, Queries
  <2>2. CanRead(Top(stack).q, q)
    BY <1>2, <2>1, CalleeReadable
  <2>3. Top(stack).q \in Derived /\ state[Top(stack).q] = "RUNNING" /\ req # 0
    BY <1>2, <2>1, TopFrame
  <2>4. Top(stack).q \notin Profiled
    BY <2>2 DEF ProfiledReadInputs
  <2> QED
    BY <2>3, <2>4 DEF Setting, PinnedIsProfiled
<1> QED
  BY <1>1, <1>2

\* A memo that is answered at once is current, unless it was verified at an
\* older revision that is pinned.
LEMMA MemoCurrent ==
    ASSUME NEW tier, Suits(tier), Setting, NEW W, NEW text, Solves(W, text),
           MemosGood(W, tier), NEW q \in Derived, state[q] = "DONE",
           VerifiedAtOnce(q), vrev[q] = Effective => req = cur
    PROVE  column[q] = W[q] /\ fp[q] = W[q] /\ dur[q] <= tier[q]
<1>1. TypeOK /\ q \in Queries /\ FailsOnBottom
  BY DEF Setting, MInv, IInv, Shell, Queries, Suits
<1>2. column[q] = fp[q] /\ Told(q, fp[q], Entries(deps[q]))
  BY DEF Setting, MInv, MemosTold, MemoTold
<1>3. dur[q] <= tier[q] /\ (lastChanged[dur[q]] <= vrev[q] => fp[q] = W[q])
  BY DEF MemosGood, MemoGood
<1>4. CASE deps[q] = <<>>
  <2>1. \A e \in Entries(deps[q]) : e.fp = W[e.q]
    BY <1>4 DEF Entries
  <2>2. fp[q] = W[q]
    BY <1>1, <1>2, <2>1, ToldIsCurrent
  <2> QED
    BY <1>2, <1>3, <2>2
<1>5. CASE deps[q] # <<>>
  <2>1. CASE vrev[q] = Effective
    <3>1. vrev[q] = cur
      BY <2>1 DEF Effective
    <3>2. lastChanged[dur[q]] \in 1 .. cur /\ cur \in Nat
      BY <1>1 DEF TypeOK
    <3> QED
      BY <1>2, <1>3, <3>1, <3>2
  <2>2. CASE vrev[q] # Effective
    BY <1>2, <1>3, <1>5, <2>2 DEF VerifiedAtOnce
  <2> QED
    BY <2>1, <2>2
<1> QED
  BY <1>4, <1>5

-----------------------------------------------------------------------------
(* db_query_begin.                                                           *)

\* db_query_begin answers from the memo: what it answers is current.
LEMMA BeginHitGood ==
    ASSUME NEW tier, Suits(tier), Setting, NEW W, NEW text, Solves(W, text),
           \A i \in Inputs : W[i] = column[i],
           ValuesGood(W, tier), NEW q \in Queries, BeginHit(q)
    PROVE  ValuesGood(W, tier)'
<1>1. PICK v, y, d : v = CachedValue(q) /\ y = fp[q] /\ d = dur[q]
  OBVIOUS
<1>2. /\ Calls(q) /\ state[q] \in {"DONE", "ERROR"} /\ VerifiedAtOnce(q)
      /\ vrev' = [vrev EXCEPT ![q] = Effective]
      /\ stack' = ReturnTo(RecordOnParent(Caller(q), q, y, d), v)
      /\ UNCHANGED <<state, fp, dur, lastChanged>>
  BY <1>1 DEF BeginHit, revVars
<1>3. Shell /\ TypeOK /\ MInv
  BY DEF Setting, MInv, IInv, Shell
<1>4. y \in Results \cup {None} /\ d \in Tiers /\ v \in Results
  BY <1>1, <1>3 DEF TypeOK, CachedValue, Results
<1>5. /\ Caller(q) \in Seq(Frame)
      /\ Caller(q) # <<>> => Awaits(Top(Caller(q)), q)
      /\ Caller(q) # <<>> => stack # <<>>
  BY <1>2, <1>3, CallerShape DEF Caller
<1>6. AllGood(Caller(q), W, tier, dur)
  BY <1>2, <1>3, CallerGood DEF ValuesGood
<1>7. ASSUME stack # <<>>
      PROVE  \/ v = Bottom /\ q \in MayFail /\ state[q] # "DONE"
             \/ v = W[q] /\ d <= tier[q] /\ fp[q] = W[q]
  <2>1. CASE q \in Inputs
    <3>1. state[q] = "DONE" /\ fp[q] = column[q]
      BY <1>3, <2>1 DEF MInv, IInv, InputsAreAuthoritative
    <3>2. d = tier[q]
      BY <1>1, <2>1 DEF Setting, InputsKept, Suits, Tiering
    <3>3. d \in Int
      BY <1>4 DEF Tiers, DUR_LOW, DUR_HIGH
    <3> QED
      BY <1>1, <2>1, <3>1, <3>2, <3>3 DEF CachedValue
  <2>2. CASE q \in Derived
    <3>1. CASE state[q] = "DONE"
      <4>1. req = cur
        BY <1>2, <1>7, <2>2, CallIsCurrent DEF Suits
      <4>2. column[q] = W[q] /\ fp[q] = W[q] /\ dur[q] <= tier[q]
        BY <1>2, <2>2, <3>1, <4>1, MemoCurrent DEF ValuesGood
      <4> QED
        BY <1>1, <3>1, <4>2 DEF CachedValue
    <3>2. CASE state[q] = "ERROR"
      BY <1>1, <2>2, <3>2 DEF Setting, MInv, MemosTold, MemoTold, CachedValue
    <3> QED
      BY <1>2, <3>1, <3>2
  <2> QED
    BY <2>1, <2>2 DEF Queries
<1>8. MemosGood(W, tier)'
  <2>1. \A e \in Queries \ {q} : vrev'[e] = vrev[e]
    BY <1>2, <1>3 DEF TypeOK
  <2>2. vrev'[q] = Effective
    BY <1>2, <1>3 DEF TypeOK
  <2>3. ASSUME q \in Derived
        PROVE  MemoGood(q, state'[q], fp'[q], vrev'[q], dur'[q], lastChanged,
                        W, tier)
    <3>1. MemoGood(q, state[q], fp[q], vrev[q], dur[q], lastChanged, W, tier)
      BY <2>3 DEF ValuesGood, MemosGood
    <3>2. CASE vrev[q] = Effective
      BY <1>2, <2>2, <3>1, <3>2
    <3>3. CASE vrev[q] # Effective /\ state[q] = "DONE"
      <4>1. fp[q] = W[q]
        BY <1>2, <2>3, <3>3, MemoCurrent DEF ValuesGood
      <4> QED
        BY <1>2, <3>1, <4>1 DEF MemoGood
    <3>4. CASE state[q] # "DONE"
      BY <1>2, <3>4 DEF MemoGood
    <3> QED
      BY <3>2, <3>3, <3>4
  <2>4. Derived \subseteq Queries
    BY DEF Queries
  <2> QED
    BY <1>2, <2>1, <2>3, <2>4, OneGood DEF ValuesGood
<1>9. /\ AllGood(stack', W, tier, dur')
      /\ PullGood(stack', W, state', fp')
  <2>1. PICK st, x, ds, s : st = state /\ x = fp /\ ds = dur /\ s = Caller(q)
    OBVIOUS
  <2>2. LET u == ReturnTo(RecordOnParent(s, q, y, d), v)
        IN  AllGood(u, W, tier, ds) /\ PullGood(u, W, st, x)
    <3>1. s # <<>> => \/ v = Bottom /\ q \in MayFail /\ st[q] # "DONE"
                      \/ v = W[q] /\ d <= tier[q] /\ x[q] = W[q]
      BY <1>5, <1>7, <2>1
    <3>2. tier \in [Queries -> Tiers]
      BY DEF Suits
    <3>3. AllGood(s, W, tier, ds) /\ s \in Seq(Frame)
          /\ (s # <<>> => Awaits(Top(s), q))
      BY <1>5, <1>6, <2>1
    <3> QED
      BY <1>4, <3>1, <3>2, <3>3, ReceiveGood
  <2> QED
    BY <1>2, <2>1, <2>2
<1> QED
  BY <1>8, <1>9 DEF ValuesGood

\* A frame is pushed.
LEMMA BeginPushGood ==
    ASSUME NEW tier, Suits(tier), Setting, NEW W, ValuesGood(W, tier),
           NEW q \in Derived, BeginEmpty(q) \/ BeginWalk(q)
    PROVE  ValuesGood(W, tier)'
<1>1. Shell /\ TypeOK /\ MInv /\ q \in Queries
  BY DEF Setting, MInv, IInv, Shell, Queries
<1>2. /\ Calls(q) /\ state' = [state EXCEPT ![q] = "RUNNING"]
      /\ UNCHANGED <<fp, dur, lastChanged>>
      /\ vrev' \in {vrev, [vrev EXCEPT ![q] = 0]}
  BY DEF BeginEmpty, BeginWalk, revVars
<1>3. \E mode \in {"walk", "body"}, prev \in {"DONE", "ERROR", "EMPTY"} :
        /\ stack' = Append(Caller(q), NewFrame(q, mode, prev))
        /\ mode = "walk" => prev = state[q]
  BY DEF BeginEmpty, BeginWalk
<1>4. PICK mode \in {"walk", "body"}, prev \in {"DONE", "ERROR", "EMPTY"} :
        /\ stack' = Append(Caller(q), NewFrame(q, mode, prev))
        /\ mode = "walk" => prev = state[q]
  BY <1>3
<1>5. PICK f : f = NewFrame(q, mode, prev)
  OBVIOUS
<1>6. /\ f \in Frame /\ f.q = q /\ f.mode = mode /\ f.prev = prev
      /\ f.pulled = FALSE /\ f.vals = <<>> /\ f.deps = deps[q]
  <2>1. \A m \in {"walk", "body"}, r \in {"DONE", "ERROR", "EMPTY"} :
          LET g == NewFrame(q, m, r)
          IN  /\ g \in Frame /\ g.q = q /\ g.mode = m /\ g.prev = r
              /\ g.pulled = FALSE /\ g.vals = <<>> /\ g.deps = deps[q]
    BY <1>1, NewFrameParts
  <2> QED
    BY <1>5, <2>1
<1>7. f.i = 1 /\ f.n = Len(deps[q])
  BY <1>5 DEF NewFrame
<1>8. Good(f, W, tier, dur)
  <2>1. CASE mode = "walk"
    <3>1. Len(deps[q]) \in Nat
      BY <1>1, LenProperties DEF TypeOK
    <3>2. \A j \in 1 .. Len(f.deps) : ~ Passed(f, j)
      BY <1>6, <1>7, <3>1 DEF Passed
    <3>3. prev = "DONE" => dur[q] <= tier[q]
      BY <1>4, <2>1 DEF ValuesGood, MemosGood, MemoGood
    <3> QED
      BY <1>6, <2>1, <3>2, <3>3 DEF Good
  <2>2. CASE mode # "walk"
    BY <1>6, <2>2 DEF Good, Story
  <2> QED
    BY <2>1, <2>2
<1>9. Caller(q) \in Seq(Frame) /\ AllGood(Caller(q), W, tier, dur)
  BY <1>1, <1>2, CallerShape, CallerGood DEF ValuesGood
<1>10. /\ AllGood(stack', W, tier, dur') /\ PullGood(stack', W, state', fp')
  <2>1. PICK st, x, ds, s :
          st = state' /\ x = fp' /\ ds = dur /\ s = Caller(q)
    OBVIOUS
  <2>2. ~f.pulled
    BY <1>6
  <2>3. AllGood(Append(s, f), W, tier, ds) /\ PullGood(Append(s, f), W, st, x)
    BY <1>6, <1>8, <1>9, <2>1, <2>2, PushedGood
  <2> QED
    BY <1>2, <1>4, <1>5, <2>1, <2>3
<1>11. MemosGood(W, tier)'
  <2>1. \A e \in Queries \ {q} : vrev'[e] = vrev[e] /\ state'[e] = state[e]
    BY <1>1, <1>2 DEF TypeOK
  <2>2. state'[q] = "RUNNING"
    BY <1>1, <1>2 DEF TypeOK
  <2>3. MemoGood(q, state'[q], fp'[q], vrev'[q], dur'[q], lastChanged, W, tier)
    BY <2>2 DEF MemoGood
  <2>4. Derived \subseteq Queries
    BY DEF Queries
  <2> QED
    BY <1>2, <2>1, <2>3, <2>4, OneGood DEF ValuesGood
<1> QED
  BY <1>10, <1>11 DEF ValuesGood

-----------------------------------------------------------------------------
(* The dependency walk.                                                      *)

\* A step that replaces the top frame, and of the slots at most clears the
\* fingerprint of its query.
LEMMA TopReplacedGood ==
    ASSUME Setting, NEW W, NEW tier, ValuesGood(W, tier), stack # <<>>,
           NEW f \in Frame, ~f.pulled, f.q = Top(stack).q,
           Good(f, W, tier, dur), stack' = OnTop(stack, f),
           UNCHANGED <<state, vrev, dur, lastChanged>>,
           \A d \in Queries : d # f.q => fp'[d] = fp[d]
    PROVE  ValuesGood(W, tier)'
<1>1. Shell /\ TypeOK /\ stack \in Seq(Frame)
  BY DEF Setting, MInv, IInv, Shell, TypeOK
<1>2. f.q \in Derived /\ state[f.q] = "RUNNING"
  BY <1>1, TopFrame
<1>3. MemosGood(W, tier)'
  <2>1. MemoGood(f.q, state'[f.q], fp'[f.q], vrev'[f.q], dur'[f.q], lastChanged,
                 W, tier)
    BY <1>2 DEF MemoGood
  <2>2. Derived \subseteq Queries
    BY DEF Queries
  <2> QED
    BY <2>1, <2>2, OneGood DEF ValuesGood
<1>4. AllGood(stack', W, tier, dur') /\ PullGood(stack', W, state', fp')
  <2>1. PICK st, x, ds, s : st = state' /\ x = fp' /\ ds = dur /\ s = stack
    OBVIOUS
  <2>2. AllGood(OnTop(s, f), W, tier, ds) /\ PullGood(OnTop(s, f), W, st, x)
    <3>1. AllGood(s, W, tier, ds) /\ Good(f, W, tier, ds) /\ s \in Seq(Frame)
          /\ s # <<>>
      BY <1>1, <2>1 DEF ValuesGood
    <3> QED
      BY <3>1, ReplacedGood
  <2> QED
    BY <2>1, <2>2
<1> QED
  BY <1>3, <1>4 DEF ValuesGood

\* The entries behind the walk are current.
LEMMA WalkNextGood ==
    ASSUME NEW tier, Setting, NEW W, \A i \in Inputs : W[i] = column[i],
           ValuesGood(W, tier), WalkNext
    PROVE  ValuesGood(W, tier)'
<1>1. PICK t : t = Top(stack)
  OBVIOUS
<1> DEFINE f == [t EXCEPT !.i = @ + 1, !.pulled = FALSE]
<1>2. /\ stack # <<>> /\ t.mode = "walk" /\ t.i <= t.n /\ DepHolds
      /\ t.pulled \/ t.deps[t.i].q \in Inputs
      /\ stack' = OnTop(stack, f)
      /\ UNCHANGED <<slotVars, revVars, cancel>>
  BY <1>1 DEF WalkNext, AtDep, Walking
<1>3. /\ MInv /\ Shell /\ TypeOK /\ stack \in Seq(Frame)
      /\ Len(stack) \in Nat \ {0} /\ t \in Frame
  BY <1>1, <1>2, TopIsFrame DEF Setting, MInv, IInv, Shell, TypeOK
<1>4. t.i \in Nat \ {0} /\ t.n \in Nat /\ t.i + 1 \in Nat \ {0}
      /\ t.pulled \in BOOLEAN
  BY <1>3, FrameParts DEF Frame, FrameFields
<1>5. f \in Frame
  BY <1>2, <1>3, <1>4 DEF Frame, FrameFields
<1>6. /\ f.q = t.q /\ f.mode = t.mode /\ f.deps = t.deps /\ f.prev = t.prev
      /\ f.i = t.i + 1 /\ f.n = t.n
  BY <1>3 DEF Frame, FrameFields
<1>7. ~f.pulled
  BY <1>3 DEF Frame, FrameFields
<1> HIDE DEF f
<1>8. /\ Good(t, W, tier, dur) /\ Kept(t, column, fp, Settled, cancel)
      /\ Refreshed(t, {fp[t.deps[t.i].q]})
  <2>1. Len(stack) \in 1 .. Len(stack)
    BY <1>3
  <2> QED
    BY <1>1, <1>2, <1>3, <2>1 DEF MInv, FramesTold, Top, ValuesGood, AllGood
<1>9. PICK p : p = t.deps[t.i].q
  OBVIOUS
<1>10. t.i \in 1 .. Len(t.deps) /\ t.deps \in Seq(Dep) /\ DOMAIN t.deps = 1 .. Len(t.deps)
  BY <1>2, <1>3, EntryAt, FrameParts, LenProperties
<1>11. ASSUME NEW j \in 1 .. Len(t.deps), Passed(f, j)
       PROVE  t.deps[j].fp = W[t.deps[j].q]
  <2>0. j \in Int /\ (j < t.i \/ j = t.i \/ j > t.n)
    <3>1. Len(t.deps) \in Nat
      BY <1>10, LenProperties
    <3> QED
      BY <1>4, <1>6, <1>11, <3>1 DEF Passed
  <2>1. CASE t.pulled
    <3>1. p \notin Inputs
      BY <1>2, <1>8, <1>9, <2>1 DEF Kept, WalkTold
    <3>2. state[p] = "DONE" /\ fp[p] = t.want
      BY <1>1, <1>2, <1>9, <3>1 DEF DepHolds
    <3>3. fp[p] = W[p]
      BY <1>1, <1>2, <1>9, <2>1, <3>2 DEF ValuesGood, PullGood
    <3>4. CASE t.deps[j].q = p
      <4>1. t.deps[j] \in Entries(t.deps)
        BY <1>10 DEF Entries
      <4>2. t.deps[j].fp \in {t.want, fp[p]}
        BY <1>8, <1>9, <2>1, <3>4, <4>1 DEF Refreshed
      <4> QED
        BY <3>2, <3>3, <3>4, <4>2
    <3>5. CASE t.deps[j].q # p
      <4>1. j # t.i
        BY <1>9, <3>5
      <4>2. Passed(t, j)
        BY <1>9, <2>0, <3>5, <4>1 DEF Passed
      <4> QED
        BY <1>2, <1>8, <4>2 DEF Good
    <3> QED
      BY <3>4, <3>5
  <2>2. CASE ~t.pulled
    <3>1. CASE j = t.i
      <4>1. p \in Inputs /\ fp[p] = t.deps[t.i].fp
        BY <1>1, <1>2, <1>9, <2>2 DEF DepHolds
      <4>2. fp[p] = column[p]
        BY <1>3, <4>1 DEF MInv, IInv, InputsAreAuthoritative
      <4> QED
        BY <1>9, <3>1, <4>1, <4>2
    <3>2. CASE j # t.i
      <4>1. Passed(t, j)
        BY <2>0, <2>2, <3>2 DEF Passed
      <4> QED
        BY <1>2, <1>8, <4>1 DEF Good
    <3> QED
      BY <3>1, <3>2
  <2> QED
    BY <2>1, <2>2
<1>12. Good(f, W, tier, dur)
  BY <1>2, <1>6, <1>8, <1>11 DEF Good
<1> QED
  BY <1>1, <1>2, <1>5, <1>6, <1>7, <1>12, TopReplacedGood DEF slotVars, revVars

\* A body that starts over has been handed nothing.
LEMMA WalkFailGood ==
    ASSUME NEW tier, Setting, NEW W, ValuesGood(W, tier), WalkFail
    PROVE  ValuesGood(W, tier)'
<1>1. PICK t : t = Top(stack)
  OBVIOUS
<1> DEFINE f == [t EXCEPT !.mode = "body", !.deps = <<>>, !.pulled = FALSE]
<1>2. /\ stack # <<>> /\ t.mode = "walk"
      /\ fp' = [fp EXCEPT ![t.q] = None]
      /\ stack' = OnTop(stack, f)
      /\ UNCHANGED <<state, vrev, dur, lastChanged>>
  BY <1>1 DEF WalkFail, AtDep, Walking, revVars
<1>3. t \in Frame /\ TypeOK /\ Kept(t, column, fp, Settled, cancel)
  BY <1>1, <1>2, TopTold DEF Setting
<1>4. f \in Frame
  <2>1. <<>> \in Seq(Dep)
    OBVIOUS
  <2> QED
    BY <1>3, <2>1 DEF Frame, FrameFields
<1>5. f.q = t.q /\ f.mode = "body" /\ f.vals = t.vals
  BY <1>3 DEF Frame, FrameFields
<1>6. ~f.pulled
  BY <1>3 DEF Frame, FrameFields
<1> HIDE DEF f
<1>7. t.vals = <<>>
  BY <1>2, <1>3 DEF Kept, WalkTold
<1>8. Good(f, W, tier, dur)
  BY <1>5, <1>7 DEF Good, Story
<1>9. \A d \in Queries : d # f.q => fp'[d] = fp[d]
  BY <1>2, <1>3, <1>5 DEF TypeOK
<1> QED
  BY <1>1, <1>2, <1>4, <1>5, <1>6, <1>8, <1>9, TopReplacedGood

-----------------------------------------------------------------------------
(* The return of a callee.                                                   *)

\* The frames below the top one do not depend on its slot.
LEMMA CallersGood ==
    ASSUME Setting, NEW W, NEW tier, ValuesGood(W, tier), stack # <<>>,
           NEW q, q = Top(stack).q, \A d \in Queries \ {q} : dur'[d] = dur[d]
    PROVE  /\ Popped(stack) \in Seq(Frame)
           /\ Popped(stack) # <<>> => Awaits(Top(Popped(stack)), q)
           /\ AllGood(Popped(stack), W, tier, dur')
<1>1. Shell /\ stack \in Seq(Frame) /\ StackInv(stack, running)
  BY ShellShape DEF Setting, MInv, IInv, Shell, TypeOK
<1>2. /\ Popped(stack) \in Seq(Frame)
      /\ Holds(Popped(stack)) = Holds(stack) \ {q}
      /\ Popped(stack) # <<>> => Awaits(Top(Popped(stack)), q)
  BY <1>1, ShapePopped DEF StackInv
<1>3. Holds(stack) \subseteq Queries
  <2>1. \A k \in DOMAIN stack : stack[k] \in Frame
    BY <1>1, ElementOfSeq, LenProperties
  <2>2. \A k \in DOMAIN stack : stack[k].q \in Queries
    BY <2>1, FrameParts DEF Queries
  <2> QED
    BY <2>2 DEF Holds
<1>4. PICK s, ds, ds2 : s = Popped(stack) /\ ds = dur /\ ds2 = dur'
  OBVIOUS
<1>5. AllGood(s, W, tier, ds)
  BY <1>1, <1>4, PoppedGood DEF ValuesGood
<1>6. AllGood(s, W, tier, ds2)
  BY <1>2, <1>3, <1>4, <1>5, AllGoodStays
<1> QED
  BY <1>2, <1>4, <1>6

\* Every entry of the memo is current, so the memo is.
LEMMA WalkEndGood ==
    ASSUME NEW tier, Suits(tier), Setting, NEW W, NEW text, Solves(W, text),
           ValuesGood(W, tier), WalkEnd
    PROVE  /\ ValuesGood(W, tier)'
           /\ LET t == Top(stack)
              IN  t.prev = "DONE" => column[t.q] = W[t.q]
<1>1. PICK t : t = Top(stack)
  OBVIOUS
<1>2. PICK q, v, y, d : /\ q = t.q /\ y = fp[q] /\ d = dur[q]
                        /\ v = IF t.prev = "DONE" THEN column[t.q] ELSE Bottom
  OBVIOUS
<1>3. /\ stack # <<>> /\ t.mode = "walk" /\ t.i > t.n
      /\ state' = [state EXCEPT ![q] = t.prev]
      /\ vrev' = [vrev EXCEPT ![q] = Effective]
      /\ stack' = ReturnTo(RecordOnParent(Popped(stack), q, y, d), v)
      /\ UNCHANGED <<fp, dur, lastChanged>>
  BY <1>1, <1>2 DEF WalkEnd, Walking, revVars
<1>4. /\ Kept(t, column, fp, Settled, cancel) /\ t \in Frame
      /\ q \in Derived /\ q \in Queries /\ TypeOK
  BY <1>1, <1>2, <1>3, TopTold DEF Setting
<1>5. Good(t, W, tier, dur)
  <2>1. Len(stack) \in Nat \ {0}
    BY <1>3, <1>4, TopIsFrame DEF TypeOK
  <2>2. Len(stack) \in 1 .. Len(stack)
    BY <2>1
  <2> QED
    BY <1>1, <2>2 DEF ValuesGood, AllGood, Top
<1>6. WalkTold(t, column, fp) /\ ~t.pulled
  <2>1. t.i \in Nat /\ t.n \in Nat
    BY <1>4, FrameParts
  <2>2. ~(t.i <= t.n)
    BY <1>3, <2>1
  <2> QED
    BY <1>3, <1>4, <2>2 DEF Kept, WalkTold
<1>7. \A e \in Entries(t.deps) : e.fp = W[e.q]
  <2> SUFFICES ASSUME NEW j \in DOMAIN t.deps
               PROVE  t.deps[j].fp = W[t.deps[j].q]
    BY DEF Entries
  <2>1. t.deps \in Seq(Dep) /\ t.i \in Nat /\ t.n \in Nat
    BY <1>4, FrameParts
  <2>2. j \in 1 .. Len(t.deps) /\ Len(t.deps) \in Nat
    BY <2>1, LenProperties
  <2>3. j < t.i \/ j > t.n
    BY <1>3, <2>1, <2>2
  <2>4. Passed(t, j)
    BY <1>6, <2>3 DEF Passed
  <2> QED
    BY <1>3, <1>5, <2>2, <2>4 DEF Good
<1>8. /\ t.prev \in {"DONE", "ERROR"} /\ (t.prev = "ERROR" => q \in MayFail)
      /\ t.prev = "DONE" =>
           column[q] = fp[q] /\ Told(q, fp[q], Entries(t.deps))
  BY <1>2, <1>6 DEF WalkTold, Restored
<1>9. t.prev = "DONE" => fp[q] = W[q] /\ column[q] = W[q] /\ d <= tier[q]
  <2>1. FailsOnBottom
    BY DEF Suits
  <2>2. t.prev = "DONE" => fp[q] = W[q]
    BY <1>4, <1>7, <1>8, <2>1, ToldIsCurrent
  <2>3. t.prev = "DONE" => d <= tier[q]
    BY <1>2, <1>3, <1>5 DEF Good
  <2> QED
    BY <1>8, <2>2, <2>3
<1>10. /\ state'[q] = t.prev
       /\ \A e \in Queries \ {q} : state'[e] = state[e] /\ vrev'[e] = vrev[e]
  BY <1>3, <1>4 DEF TypeOK
<1>11. MemosGood(W, tier)'
  <2>1. MemoGood(q, state'[q], fp'[q], vrev'[q], dur'[q], lastChanged, W, tier)
    BY <1>2, <1>3, <1>9, <1>10 DEF MemoGood
  <2>2. Derived \subseteq Queries
    BY DEF Queries
  <2> QED
    BY <1>3, <1>10, <2>1, <2>2, OneGood DEF ValuesGood
<1>12. /\ Popped(stack) \in Seq(Frame)
       /\ Popped(stack) # <<>> => Awaits(Top(Popped(stack)), q)
       /\ AllGood(Popped(stack), W, tier, dur')
  BY <1>1, <1>2, <1>3, CallersGood
<1>13. AllGood(stack', W, tier, dur') /\ PullGood(stack', W, state', fp')
  <2>1. PICK st, x, ds, s :
          st = state' /\ x = fp' /\ ds = dur' /\ s = Popped(stack)
    OBVIOUS
  <2>2. y \in Results \cup {None} /\ d \in Tiers /\ v \in Results
    BY <1>2, <1>4 DEF TypeOK, Results
  <2>3. \/ v = Bottom /\ q \in MayFail /\ st[q] # "DONE"
        \/ v = W[q] /\ d <= tier[q] /\ x[q] = W[q]
    BY <1>2, <1>3, <1>8, <1>9, <1>10, <2>1
  <2>4. tier \in [Queries -> Tiers]
    BY DEF Suits
  <2>5. AllGood(s, W, tier, ds) /\ s \in Seq(Frame)
        /\ (s # <<>> => Awaits(Top(s), q))
    BY <1>12, <2>1
  <2>6. LET u == ReturnTo(RecordOnParent(s, q, y, d), v)
        IN  AllGood(u, W, tier, ds) /\ PullGood(u, W, st, x)
    BY <1>4, <2>2, <2>3, <2>4, <2>5, ReceiveGood
  <2> QED
    BY <1>3, <2>1, <2>6
<1> QED
  BY <1>1, <1>2, <1>9, <1>11, <1>13 DEF ValuesGood

\* What a body returns is current, and its frame has folded the tier of what it
\* depends on.
LEMMA ReturnIsCurrent ==
    ASSUME NEW tier, Suits(tier), NEW W, NEW text, Solves(W, text),
           NEW t \in Frame, t.mode = "body", Upcoming(t).op = "return",
           NEW ds, Good(t, W, tier, ds)
    PROVE  Upcoming(t).val = W[t.q] /\ FrameDur(t) <= tier[t.q]
<1>1. PICK q, vs, E : q = t.q /\ vs = t.vals /\ E = NowOf(Covered(t, tier), W)
  OBVIOUS
<1>2. /\ q \in Derived /\ vs \in ValueSeqs /\ vs \in Stories /\ FailsOnBottom
      /\ q \in Queries
  BY <1>1, StoriesAre DEF Frame, FrameFields, Suits, Queries
<1>3. Story(q, vs, E) /\ Body(q, vs).op = "return" /\ Body(q, vs).val = Upcoming(t).val
  BY <1>1 DEF Good, Upcoming
<1>4. Told(q, Upcoming(t).val, E)
  BY <1>2, <1>3 DEF Told
<1>5. \A e \in E : e.fp = W[e.q]
  BY <1>1 DEF NowOf
<1>6. Upcoming(t).val = W[q]
  BY <1>2, <1>4, <1>5, ToldIsCurrent
<1>7. /\ tier[q] \in 0 .. 2 /\ t.minDur \in 0 .. 2 /\ tier \in [Queries -> Tiers]
      /\ \A d \in Queries : tier[d] \in Int
  BY <1>2 DEF Suits, Frame, FrameFields, Tiers, DUR_LOW, DUR_HIGH
<1>8. FrameDur(t) <= tier[q]
  <2>1. CASE ~t.durSet
    BY <1>7, <2>1 DEF FrameDur, DUR_LOW
  <2>2. CASE t.durSet /\ tier[q] = DUR_HIGH
    BY <1>7, <2>2 DEF FrameDur, DUR_HIGH
  <2>3. CASE t.durSet /\ tier[q] # DUR_HIGH
    <3>1. ReadInTurn(q, vs)
      BY <1>3 DEF ReadInTurn, Story, ReadsNext
    <3>2. PICK k \in 1 .. Len(vs) :
            tier[Body(q, SubSeq(vs, 1, k - 1)).q] <= tier[q]
      BY <1>2, <1>3, <2>3, <3>1 DEF Suits, Tiering
    <3>3. PICK d : d = Body(q, SubSeq(vs, 1, k - 1)).q
      OBVIOUS
    <3>4. d \in Queries /\ [q |-> d, fp |-> vs[k]] \in E
      BY <1>2, <1>3, <3>3, NoSentinel
    <3>5. d \in Covered(t, tier)
      BY <1>1, <3>4 DEF NowOf
    <3>6. t.minDur <= tier[d] /\ tier[d] <= tier[q]
      BY <3>2, <3>3, <3>5 DEF Covered
    <3>7. t.minDur <= tier[q]
      BY <1>7, <3>4, <3>6
    <3> QED
      BY <2>3, <3>7 DEF FrameDur
  <2> QED
    BY <2>1, <2>2, <2>3
<1> QED
  BY <1>1, <1>6, <1>8

\* db_query_succeed writes a memo that is current and hands it on.
LEMMA SucceedGood ==
    ASSUME NEW tier, Suits(tier), Setting, NEW W, NEW text, Solves(W, text),
           ValuesGood(W, tier), Succeed
    PROVE  /\ ValuesGood(W, tier)'
           /\ LET t == Top(stack)
              IN  Upcoming(t).val = W[t.q]
<1>1. PICK t : t = Top(stack)
  OBVIOUS
<1>2. PICK q, v, d : q = t.q /\ v = Upcoming(t).val /\ d = FrameDur(t)
  OBVIOUS
<1>3. /\ stack # <<>> /\ t.mode = "body" /\ Upcoming(t).op = "return"
      /\ state' = [state EXCEPT ![q] = "DONE"]
      /\ fp' = [fp EXCEPT ![q] = v]
      /\ vrev' = [vrev EXCEPT ![q] = cur]
      /\ dur' = [dur EXCEPT ![q] = d]
      /\ stack' = ReturnTo(RecordOnParent(Popped(stack), q, v, d), v)
      /\ UNCHANGED lastChanged
  BY <1>1, <1>2 DEF Succeed, Finishing, revVars
<1>4. t \in Frame /\ q \in Derived /\ q \in Queries /\ TypeOK
  BY <1>1, <1>2, <1>3, TopTold DEF Setting
<1>5. Good(t, W, tier, dur)
  <2>1. Len(stack) \in Nat \ {0}
    BY <1>3, <1>4, TopIsFrame DEF TypeOK
  <2>2. Len(stack) \in 1 .. Len(stack)
    BY <2>1
  <2> QED
    BY <1>1, <2>2 DEF ValuesGood, AllGood, Top
<1>6. v = W[q] /\ d <= tier[q]
  <2>1. PICK ds : ds = dur
    OBVIOUS
  <2> QED
    BY <1>2, <1>3, <1>4, <1>5, <2>1, ReturnIsCurrent
<1>7. v \in Results /\ d \in Tiers
  <2>1. Upcoming(t) \in Operations
    BY <1>4, UpcomingIsOperation
  <2> QED
    BY <1>2, <1>4, <2>1, FrameDurType DEF Operations, Results
<1>8. /\ state'[q] = "DONE" /\ fp'[q] = v /\ dur'[q] = d
      /\ \A e \in Queries \ {q} :
           /\ state'[e] = state[e] /\ vrev'[e] = vrev[e]
           /\ fp'[e] = fp[e] /\ dur'[e] = dur[e]
  BY <1>3, <1>4 DEF TypeOK
<1>9. MemosGood(W, tier)'
  <2>1. MemoGood(q, state'[q], fp'[q], vrev'[q], dur'[q], lastChanged, W, tier)
    BY <1>6, <1>8 DEF MemoGood
  <2>2. Derived \subseteq Queries
    BY DEF Queries
  <2> QED
    BY <1>3, <1>8, <2>1, <2>2, OneGood DEF ValuesGood
<1>10. /\ Popped(stack) \in Seq(Frame)
       /\ Popped(stack) # <<>> => Awaits(Top(Popped(stack)), q)
       /\ AllGood(Popped(stack), W, tier, dur')
  BY <1>1, <1>2, <1>3, <1>8, CallersGood
<1>11. AllGood(stack', W, tier, dur') /\ PullGood(stack', W, state', fp')
  <2>1. PICK st, x, ds, s :
          st = state' /\ x = fp' /\ ds = dur' /\ s = Popped(stack)
    OBVIOUS
  <2>2. v = W[q] /\ d <= tier[q] /\ x[q] = W[q] /\ v \in Results \cup {None}
    BY <1>6, <1>7, <1>8, <2>1
  <2>3. tier \in [Queries -> Tiers]
    BY DEF Suits
  <2>4. AllGood(s, W, tier, ds) /\ s \in Seq(Frame)
        /\ (s # <<>> => Awaits(Top(s), q))
    BY <1>10, <2>1
  <2>5. LET u == ReturnTo(RecordOnParent(s, q, v, d), v)
        IN  AllGood(u, W, tier, ds) /\ PullGood(u, W, st, x)
    BY <1>4, <1>7, <2>2, <2>3, <2>4, ReceiveGood
  <2> QED
    BY <1>3, <2>1, <2>5
<1> QED
  BY <1>1, <1>2, <1>6, <1>9, <1>11 DEF ValuesGood

\* db_query_fail leaves the memo as it was and hands on the sentinel.
LEMMA FailGood ==
    ASSUME NEW tier, Setting, NEW W, ValuesGood(W, tier), Fail
    PROVE  ValuesGood(W, tier)'
<1>1. PICK t : t = Top(stack)
  OBVIOUS
<1>2. PICK q : q = t.q
  OBVIOUS
<1>3. /\ stack # <<>> /\ Upcoming(t).op = "fail"
      /\ state' = [state EXCEPT ![q] = "ERROR"]
      /\ fp' = [fp EXCEPT ![q] = None]
      /\ vrev' = [vrev EXCEPT ![q] = cur]
      /\ dur' = [dur EXCEPT ![q] = FrameDur(t)]
      /\ stack' = ReturnTo(Popped(stack), Bottom)
      /\ UNCHANGED lastChanged
  BY <1>1, <1>2 DEF Fail, Finishing, revVars
<1>4. t \in Frame /\ q \in Derived /\ q \in Queries /\ TypeOK
  BY <1>1, <1>2, <1>3, TopTold DEF Setting
<1>5. q \in MayFail
  BY <1>2, <1>3, <1>4, FailureMayFail
<1>6. /\ state'[q] = "ERROR"
      /\ \A e \in Queries \ {q} :
           /\ state'[e] = state[e] /\ vrev'[e] = vrev[e]
           /\ fp'[e] = fp[e] /\ dur'[e] = dur[e]
  BY <1>3, <1>4 DEF TypeOK
<1>7. MemosGood(W, tier)'
  <2>1. MemoGood(q, state'[q], fp'[q], vrev'[q], dur'[q], lastChanged, W, tier)
    BY <1>6 DEF MemoGood
  <2>2. Derived \subseteq Queries
    BY DEF Queries
  <2> QED
    BY <1>3, <1>6, <2>1, <2>2, OneGood DEF ValuesGood
<1>8. /\ Popped(stack) \in Seq(Frame)
      /\ Popped(stack) # <<>> => Awaits(Top(Popped(stack)), q)
      /\ AllGood(Popped(stack), W, tier, dur')
  BY <1>1, <1>2, <1>3, <1>6, CallersGood
<1>9. AllGood(stack', W, tier, dur') /\ PullGood(stack', W, state', fp')
  <2>1. PICK st, x, ds, s :
          st = state' /\ x = fp' /\ ds = dur' /\ s = Popped(stack)
    OBVIOUS
  <2>2. st[q] # "DONE"
    BY <1>6, <2>1
  <2>3. AllGood(s, W, tier, ds) /\ s \in Seq(Frame)
        /\ (s # <<>> => Awaits(Top(s), q))
    BY <1>8, <2>1
  <2>4. AllGood(ReturnTo(s, Bottom), W, tier, ds)
        /\ PullGood(ReturnTo(s, Bottom), W, st, x)
    BY <1>4, <1>5, <2>2, <2>3, ReturnGood
  <2> QED
    BY <1>3, <2>1, <2>4
<1> QED
  BY <1>7, <1>9 DEF ValuesGood

-----------------------------------------------------------------------------
(* Requests and inputs.                                                      *)

\* Without frames there is nothing to keep good.
LEMMA NoFramesGood ==
    ASSUME NEW s, s = <<>>, NEW W, NEW tier, NEW ds, NEW st, NEW x
    PROVE  AllGood(s, W, tier, ds) /\ PullGood(s, W, st, x)
BY DEF AllGood, PullGood

\* A request that opens or closes writes no memo.
LEMMA RequestGood ==
    ASSUME NEW tier, NEW W, ValuesGood(W, tier),
           RequestEnd \/ \E r \in 1 .. MaxRev : RequestBegin(r)
    PROVE  ValuesGood(W, tier)'
<1>1. stack' = <<>> /\ lastChanged' = lastChanged
  BY DEF RequestEnd, RequestBegin
<1>2. MemosGood(W, tier)'
  <2> SUFFICES ASSUME NEW q \in Derived
               PROVE  MemoGood(q, state'[q], fp'[q], vrev'[q], dur'[q],
                               lastChanged, W, tier)
    BY <1>1 DEF MemosGood
  <2>1. MemoGood(q, state[q], fp[q], vrev[q], dur[q], lastChanged, W, tier)
    BY DEF ValuesGood, MemosGood
  <2>2. CASE RequestEnd
    <3>1. q \in Queries /\ vrev' = vrev
      BY <2>2 DEF RequestEnd, Queries
    <3>2. CASE q \in Swept \/ Orphan(q)
      <4>1. state'[q] \in {"EMPTY", "ABSENT"}
        BY <2>2, <3>1, <3>2 DEF RequestEnd
      <4> QED
        BY <4>1 DEF MemoGood
    <3>3. CASE ~(q \in Swept \/ Orphan(q))
      <4>1. state'[q] = state[q] /\ fp'[q] = fp[q] /\ dur'[q] = dur[q]
        BY <2>2, <3>1, <3>3 DEF RequestEnd
      <4> QED
        BY <2>1, <3>1, <4>1
    <3> QED
      BY <3>2, <3>3
  <2>3. CASE \E r \in 1 .. MaxRev : RequestBegin(r)
    <3>1. UNCHANGED <<state, fp, vrev, dur>>
      BY <2>3 DEF RequestBegin, slotVars
    <3> QED
      BY <2>1, <3>1
  <2> QED
    BY <2>2, <2>3
<1> QED
  BY <1>1, <1>2, NoFramesGood DEF ValuesGood

\* An edit moves what is of no higher tier than the input, and the memos of that
\* tier and below are no longer taken for current.
LEMMA ChangeGood ==
    ASSUME NEW tier, Suits(tier), Setting, NEW W, NEW V, NEW s, NEW t,
           Solves(W, s), Solves(V, t), NEW D \in Tiers, Changed(D),
           \A i \in Inputs : tier[i] > D => s[i] = t[i],
           ValuesGood(W, tier), UNCHANGED <<state, dur, stack>>,
           \A q \in Derived : fp'[q] = fp[q] /\ vrev'[q] = vrev[q]
    PROVE  ValuesGood(V, tier)'
<1>1. TypeOK /\ NoRunningBetweenRequests
  BY DEF Setting, MInv, IInv, Shell
<1>2. /\ stack' = <<>> /\ cur \in Nat /\ cur' = cur + 1
      /\ lastChanged' = [e \in Tiers |-> IF e <= D THEN cur + 1 ELSE lastChanged[e]]
  BY <1>1 DEF Changed, NoRunningBetweenRequests, TypeOK
<1>3. tier \in [Queries -> Tiers] /\ Acyclic /\ Tiering(tier)
  BY DEF Suits
<1>4. \A q \in Queries : tier[q] > D => V[q] = W[q]
  <2>1. \A q \in Queries : tier[q] > D => W[q] = V[q]
    BY <1>3, SolutionsAgree
  <2> QED
    BY <2>1
<1>5. MemosGood(V, tier)'
  <2> SUFFICES ASSUME NEW q \in Derived
               PROVE  MemoGood(q, state[q], fp[q], vrev[q], dur[q], lastChanged',
                               V, tier)
    BY DEF MemosGood
  <2>1. MemoGood(q, state[q], fp[q], vrev[q], dur[q], lastChanged, W, tier)
    BY DEF ValuesGood, MemosGood
  <2>2. q \in Queries /\ dur[q] \in Tiers /\ vrev[q] \in 0 .. cur /\ tier[q] \in Tiers
    BY <1>1, <1>3 DEF TypeOK, Queries
  <2>3. dur[q] \in Int /\ D \in Int /\ tier[q] \in Int
    BY <2>2 DEF Tiers, DUR_LOW, DUR_HIGH
  <2>4. CASE dur[q] <= D
    <3>1. lastChanged'[dur[q]] = cur + 1
      BY <1>2, <2>2, <2>4
    <3>2. ~(cur + 1 <= vrev[q])
      BY <1>2, <2>2
    <3> QED
      BY <2>1, <3>1, <3>2 DEF MemoGood
  <2>5. CASE ~(dur[q] <= D)
    <3>1. lastChanged'[dur[q]] = lastChanged[dur[q]]
      BY <1>2, <2>2, <2>5
    <3>2. dur[q] <= tier[q] => V[q] = W[q]
      BY <1>4, <2>2, <2>3, <2>5
    <3> QED
      BY <2>1, <3>1, <3>2 DEF MemoGood
  <2> QED
    BY <2>4, <2>5
<1> QED
  BY <1>2, <1>5, NoFramesGood DEF ValuesGood

-----------------------------------------------------------------------------
(* The invariant is kept.                                                    *)

\* Nothing is cancelled, and no call closes a cycle.
LEMMA Undisturbed ==
    ASSUME NEW tier, Suits(tier), Setting
    PROVE  /\ ~ BailOut /\ ~ RequestCancel
           /\ \A q \in Queries : ~ BeginCanceled(q) /\ ~ BeginCycle(q)
<1>1. ~ cancel /\ ~ CanCancel /\ MInv /\ Acyclic
  BY DEF Suits, Setting
<1>2. ~ BailOut /\ ~ RequestCancel
  BY <1>1 DEF BailOut, RequestCancel
<1>3. \A q \in Queries : ~ BeginCanceled(q) /\ ~ BeginCycle(q)
  BY <1>1, NoCycle DEF BeginCanceled, BeginCycle
<1> QED
  BY <1>2, <1>3

\* The steps of the engine proper.
LEMMA MachineryGood ==
    ASSUME NEW tier, Suits(tier), Setting, NEW W, NEW text, Solves(W, text),
           \A i \in Inputs : W[i] = column[i], ValuesGood(W, tier), Machinery
    PROVE  ValuesGood(W, tier)'
<1>1. ASSUME NEW q \in Queries, Begin(q)
      PROVE  ValuesGood(W, tier)'
  <2>1. BeginEmpty(q) \/ BeginWalk(q) => q \in Derived
    BY FrameIsDerived DEF BeginEmpty, BeginWalk, Setting, MInv, IInv
  <2>2. CASE BeginHit(q)
    BY <2>2, BeginHitGood
  <2>3. CASE BeginEmpty(q) \/ BeginWalk(q)
    BY <2>1, <2>3, BeginPushGood
  <2> QED
    BY <1>1, <2>2, <2>3, Undisturbed DEF Begin
<1>2. CASE WalkNext
  BY <1>2, WalkNextGood
<1>3. CASE WalkFail
  BY <1>3, WalkFailGood
<1>4. CASE WalkEnd
  BY <1>4, WalkEndGood
<1>5. CASE Succeed
  BY <1>5, SucceedGood
<1>6. CASE Fail
  BY <1>6, FailGood
<1>7. CASE RequestEnd \/ \E r \in 1 .. MaxRev : RequestBegin(r)
  BY <1>7, RequestGood
<1> QED
  BY <1>1, <1>2, <1>3, <1>4, <1>5, <1>6, <1>7, Undisturbed DEF Machinery

\* What a query that is given a frame in a pinned request is.
LEMMA PinnedStays ==
    ASSUME NEW tier, Suits(tier), Setting, [Next]_vars
    PROVE  PinnedIsProfiled'
<1>1. Shell /\ TypeOK /\ MInv
  BY DEF Setting, MInv, IInv, Shell
<1>2. PinnedIsProfiled /\ (req = 0 => \A q \in Queries : state[q] # "RUNNING")
  BY <1>1 DEF Setting, Shell, NoRunningBetweenRequests
<1> USE DEF PinnedIsProfiled, slotVars, revVars
<1>3. ASSUME NEW q \in Queries, Begin(q)
      PROVE  PinnedIsProfiled'
  <2>1. CASE BeginHit(q)
    BY <1>2, <2>1 DEF BeginHit
  <2>2. CASE BeginEmpty(q) \/ BeginWalk(q)
    <3>1. Calls(q) /\ q \in Derived /\ UNCHANGED <<cur, req>>
      BY <2>2, FrameIsDerived
         DEF BeginEmpty, BeginWalk, Setting, MInv, IInv
    <3>2. req # cur => q \in Profiled
      BY <3>1, CallIsCurrent DEF Suits
    <3>3. state' = [state EXCEPT ![q] = "RUNNING"]
      BY <2>2 DEF BeginEmpty, BeginWalk
    <3>4. \A d \in Derived : d # q => state'[d] = state[d]
      BY <1>1, <3>3 DEF TypeOK, Queries
    <3> QED
      BY <1>2, <3>1, <3>2, <3>4
  <2> QED
    BY <1>3, <2>1, <2>2, Undisturbed DEF Begin
<1>4. CASE WalkNext \/ WalkFail
  BY <1>2, <1>4 DEF WalkNext, WalkFail
<1>5. CASE WalkEnd
  <2>1. PICK t : t = Top(stack)
    OBVIOUS
  <2>2. /\ state' = [state EXCEPT ![t.q] = t.prev] /\ UNCHANGED <<cur, req>>
        /\ t \in Frame
    BY <1>1, <1>5, <2>1, TopFrame DEF WalkEnd, Walking
  <2>3. t.prev # "RUNNING"
    BY <2>2 DEF Frame, FrameFields
  <2>4. \A d \in Derived : state'[d] = "RUNNING" => state[d] = "RUNNING"
    BY <1>1, <2>2, <2>3 DEF TypeOK, Queries
  <2> QED
    BY <1>2, <2>2, <2>4
<1>6. CASE Succeed \/ Fail
  <2>1. PICK q : q = Top(stack).q
    OBVIOUS
  <2>2. /\ \E s \in {"DONE", "ERROR"} : state' = [state EXCEPT ![q] = s]
        /\ UNCHANGED <<cur, req>>
    BY <1>6, <2>1 DEF Succeed, Fail
  <2>3. \A d \in Derived : state'[d] = "RUNNING" => state[d] = "RUNNING"
    BY <1>1, <2>2 DEF TypeOK, Queries
  <2> QED
    BY <1>2, <2>2, <2>3
<1>7. CASE \E r \in 1 .. MaxRev : RequestBegin(r)
  <2>1. req = 0 /\ state' = state
    BY <1>7 DEF RequestBegin
  <2> QED
    BY <1>2, <2>1 DEF Queries
<1>8. CASE RequestEnd
  BY <1>8 DEF RequestEnd
<1>9. CASE InputTouch \/ \E i \in Inputs, v \in Values : InputEdit(i, v)
  BY <1>9 DEF InputTouch, InputEdit, Changed
<1>10. CASE UNCHANGED vars
  BY <1>2, <1>10 DEF vars
<1> QED
  BY <1>3, <1>4, <1>5, <1>6, <1>7, <1>8, <1>9, <1>10, Undisturbed DEF Next

\* A step is one of the engine proper, a setter's, or none.
LEMMA StepKinds ==
    [Next]_vars => \/ Machinery
                   \/ InputTouch \/ \E i \in Inputs, v \in Values : InputEdit(i, v)
                   \/ UNCHANGED vars
BY DEF Next, Machinery

\* An input keeps its tier, and changes in an edit only.
LEMMA InputsStay ==
    ASSUME Setting, Machinery
    PROVE  \A i \in Inputs : column'[i] = column[i] /\ dur'[i] = dur[i]
<1>1. Shell
  BY DEF Setting, MInv, IInv
<1>2. \A i \in Inputs : state[i] = "DONE" /\ deps[i] = <<>>
  BY DEF Setting, MInv, IInv, InputsAreAuthoritative
<1> QED
  BY <1>1, <1>2, InputUntouched

\* What an edit of an input does: it moves the clock of its tier.
LEMMA EditOf ==
    ASSUME Setting, NEW i \in Inputs, NEW v \in Values, InputEdit(i, v)
    PROVE  /\ Changed(InputDur[i]) /\ UNCHANGED <<state, dur, stack>>
           /\ \A k \in Inputs : column'[k] = IF k = i THEN v ELSE column[k]
           /\ \A q \in Derived : fp'[q] = fp[q] /\ vrev'[q] = vrev[q]
<1>1. TypeOK /\ i \notin Derived
  BY ConstantsAssumption DEF Setting, MInv, IInv, Shell
<1> QED
  BY <1>1 DEF InputEdit, TypeOK, Queries

\* The facts the argument rests on hold throughout.
LEMMA SettingStays ==
    ASSUME NEW tier, Suits(tier), Setting, [Next]_vars
    PROVE  Setting'
<1>1. MInv'
  BY MemoInductive DEF Setting
<1>2. PinnedIsProfiled'
  BY PinnedStays
<1>3. cancel' \in {cancel, FALSE}
  BY Undisturbed DEF Next, vars, Begin, BeginEmpty, BeginHit, BeginWalk, WalkNext,
     WalkFail, WalkEnd, Succeed, Fail, RequestBegin, RequestEnd, InputEdit,
     InputTouch
<1>4. ~ cancel'
  BY <1>3 DEF Setting
<1>5. InputsKept'
  <2>1. CASE Machinery
    BY <2>1, InputsStay DEF Setting, InputsKept
  <2>2. CASE InputTouch \/ UNCHANGED vars
    BY <2>2 DEF InputTouch, vars, slotVars, Setting, InputsKept
  <2>3. ASSUME NEW i \in Inputs, NEW v \in Values, InputEdit(i, v)
        PROVE  InputsKept'
    BY <2>3, EditOf DEF Setting, InputsKept
  <2> QED
    BY <2>1, <2>2, <2>3, StepKinds
<1> QED
  BY <1>1, <1>2, <1>4, <1>5 DEF Setting

\* Every step keeps every memo, walk and story current.
LEMMA CurrentInductive ==
    ASSUME NEW tier, Suits(tier), CInv(tier), [Next]_vars
    PROVE  CInv(tier)'
<1>1. Setting /\ Setting' /\ ValuesGood(Now, tier)
  BY SettingStays DEF CInv
<1>2. Acyclic /\ TypeOK /\ TypeOK'
  BY <1>1 DEF Suits, Setting, MInv, IInv, Shell
<1>3. PICK W, s : W = Now /\ s = [i \in Inputs |-> column[i]]
  OBVIOUS
<1>4. Solves(W, s) /\ \A i \in Inputs : W[i] = column[i]
  BY <1>2, <1>3, NowSolves DEF Solves
<1>5. PICK V, t : V = Now' /\ t = [i \in Inputs |-> column'[i]]
  OBVIOUS
<1>6. Solves(V, t)
  <2>1. t \in Texts
    BY <1>2, <1>5 DEF TypeOK, Texts, Queries
  <2>2. V = Sem!FromScratch(t)
    BY <1>5 DEF Now
  <2> QED
    BY <1>2, <2>1, <2>2, ScratchSolves
<1>7. ValuesGood(W, tier)
  BY <1>1, <1>3 DEF ValuesGood, MemosGood
<1>8. ValuesGood(V, tier)'
  <2>1. CASE Machinery
    <3>1. V = W
      BY <1>1, <1>3, <1>5, <2>1, InputsStay, NowStays
    <3>2. ValuesGood(W, tier)'
      BY <1>1, <1>4, <1>7, <2>1, MachineryGood
    <3> QED
      BY <3>1, <3>2
  <2>2. CASE InputTouch
    <3>1. Changed(DUR_LOW) /\ UNCHANGED <<state, fp, vrev, dur, column, stack>>
      BY <2>2 DEF InputTouch, slotVars
    <3>2. s = t
      BY <1>3, <1>5, <3>1
    <3>3. DUR_LOW \in Tiers
      BY DEF Tiers, DUR_LOW, DUR_HIGH
    <3> QED
      BY <1>1, <1>4, <1>6, <1>7, <3>1, <3>2, <3>3, ChangeGood
  <2>3. ASSUME NEW i \in Inputs, NEW v \in Values, InputEdit(i, v)
        PROVE  ValuesGood(V, tier)'
    <3>1. PICK D \in Tiers : D = InputDur[i]
      BY ConstantsAssumption
    <3>2. /\ Changed(D) /\ UNCHANGED <<state, dur, stack>>
          /\ \A k \in Inputs : column'[k] = IF k = i THEN v ELSE column[k]
          /\ \A q \in Derived : fp'[q] = fp[q] /\ vrev'[q] = vrev[q]
      BY <1>1, <2>3, <3>1, EditOf
    <3>3. tier[i] = D /\ D \in Int
      BY <3>1 DEF Suits, Tiering, Tiers, DUR_LOW, DUR_HIGH
    <3>4. \A k \in Inputs : tier[k] > D => s[k] = t[k]
      BY <1>3, <1>5, <3>2, <3>3
    <3> QED
      BY <1>1, <1>4, <1>6, <1>7, <3>2, <3>4, ChangeGood
  <2>4. CASE UNCHANGED vars
    <3>1. V = W
      BY <1>3, <1>5, <2>4, NowStays DEF vars, slotVars
    <3>2. ValuesGood(W, tier)'
      BY <1>7, <2>4 DEF vars, slotVars, revVars, ValuesGood, MemosGood
    <3> QED
      BY <3>1, <3>2
  <2> QED
    BY <2>1, <2>2, <2>3, <2>4, StepKinds
<1>9. ValuesGood(Now, tier)'
  BY <1>5, <1>8 DEF ValuesGood, MemosGood
<1> QED
  BY <1>1, <1>9 DEF CInv

\* Initially there is no memo that could be stale.
LEMMA CurrentInitially ==
    ASSUME NEW tier, Init
    PROVE  CInv(tier)
<1>1. IInv
  <2>1. InputsAreAuthoritative
    BY DEF Init, InputsAreAuthoritative, Queries
  <2> QED
    BY <2>1, InitStep DEF IInv
<1>2. \A q \in Derived : state[q] \in {"EMPTY", "ABSENT"} /\ deps[q] = <<>>
  BY ConstantsAssumption DEF Init, Queries
<1>3. stack = <<>> /\ ~ cancel /\ req = 0
  BY DEF Init
<1>4. MInv
  BY <1>1, <1>2, <1>3, NoFrames DEF MInv, MemosTold, MemoTold, Readable, Entries
<1>5. InputsKept
  BY DEF Init, InputsKept, Queries
<1>6. PICK W : W = Now
  OBVIOUS
<1>7. MemosGood(W, tier)
  BY <1>2 DEF MemosGood, MemoGood
<1>8. ValuesGood(Now, tier)
  BY <1>3, <1>6, <1>7, NoFramesGood DEF ValuesGood
<1> QED
  BY <1>3, <1>4, <1>5, <1>8 DEF CInv, Setting, PinnedIsProfiled

\* The inductive invariant, as an invariant of the specification.
LEMMA CurrentInvariance ==
    ASSUME NEW tier, Suits(tier)
    PROVE  Spec => []CInv(tier)
<1>1. Init => CInv(tier)
  BY CurrentInitially
<1>2. CInv(tier) /\ [Next]_vars => CInv(tier)'
  BY CurrentInductive
<1> QED
  BY <1>1, <1>2, PTL DEF Spec

-----------------------------------------------------------------------------
(* The theorems.                                                             *)

\* LiveSlotIsCurrent for every program that Steady describes: a slot verified
\* at the current revision holds, in its column and its fingerprint, the value
\* computed from scratch of the inputs as they are, whatever was edited,
\* skipped by a durability tier, verified, reclaimed or recomputed.
THEOREM LiveCurrent == Steady => (Spec => []LiveSlotIsCurrent)
<1> SUFFICES ASSUME Steady
             PROVE  Spec => []LiveSlotIsCurrent
  OBVIOUS
<1>1. PICK tier : Suits(tier)
  BY DEF Steady, Tiered, Suits
<1>2. CInv(tier) => LiveSlotIsCurrent
  <2> SUFFICES ASSUME CInv(tier), NEW q \in Derived,
                      state[q] = "DONE", vrev[q] = cur
               PROVE  column[q] = Now[q] /\ fp[q] = Now[q]
    BY DEF LiveSlotIsCurrent
  <2>1. column[q] = fp[q]
    BY DEF CInv, Setting, MInv, MemosTold, MemoTold
  <2>2. TypeOK /\ q \in Queries
    BY DEF CInv, Setting, MInv, IInv, Shell, Queries
  <2>3. lastChanged[dur[q]] \in 1 .. cur /\ cur \in Nat
    BY <2>2 DEF TypeOK
  <2>4. lastChanged[dur[q]] <= vrev[q]
    BY <2>3
  <2> QED
    BY <2>1, <2>4 DEF CInv, ValuesGood, MemosGood, MemoGood
<1> QED
  BY <1>1, <1>2, CurrentInvariance, PTL

\* The oracle evaluates as QuerySemantics does.
LEMMA SameScratch ==
    \A text : Oracle!FromScratch(text) = Sem!FromScratch(text)
BY DEF Oracle!FromScratch, Sem!FromScratch, Oracle!ResultOf, Sem!ResultOf,
       Oracle!ReadsOf, Sem!ReadsOf, Oracle!Cardinality, Sem!Cardinality

\* The inputs as the oracle sees them.
Text == [i \in Inputs |-> column[i]]

\* The engine answers a top-level call of q, at the current revision with the
\* current value, or not at all.
AnswersWith(W) ==
    \/ answer' = answer
    \/ \E q \in Derived : answer' = [q |-> q, val |-> W[q]]

\* A query that is answered at the top level is derived.
LEMMA TopLevelIsDerived ==
    ASSUME NEW q, Calls(q), stack = <<>>
    PROVE  q \in Derived
BY DEF Calls, ConsumerCalls, BodyCalls, WalkCalls

\* Where no query fails there is no failure to hand out.
LEMMA NoFailure ==
    ASSUME MayFail = {}, Setting
    PROVE  ~ Fail /\ \A q \in Derived : state[q] # "ERROR"
<1>1. \A q \in Derived : state[q] # "ERROR"
  BY DEF Setting, MInv, MemosTold, MemoTold
<1>2. ASSUME Fail
      PROVE  FALSE
  <2>1. stack # <<>> /\ Upcoming(Top(stack)).op = "fail"
    BY <1>2 DEF Fail, Finishing
  <2>2. Top(stack) \in Frame
    BY <2>1, TopTold DEF Setting
  <2> QED
    BY <2>1, <2>2, FailureMayFail
<1> QED
  BY <1>1, <1>2

\* A value handed to the top level is the one a fresh evaluation gives.
LEMMA EngineAnswers ==
    ASSUME NEW tier, Suits(tier), MayFail = {}, Setting,
           NEW W, NEW text, Solves(W, text), ValuesGood(W, tier),
           \/ \E q \in Queries : Begin(q)
           \/ WalkNext \/ WalkFail \/ WalkEnd
           \/ Succeed \/ Fail \/ BailOut
    PROVE  AnswersWith(W)
<1>1. ASSUME NEW q \in Queries, Begin(q)
      PROVE  AnswersWith(W)
  <2>1. CASE BeginHit(q)
    <3>1. /\ Calls(q) /\ state[q] \in {"DONE", "ERROR"} /\ VerifiedAtOnce(q)
          /\ answer' = AnswerOf(stack, q, CachedValue(q))
      BY <2>1 DEF BeginHit
    <3>2. CASE stack = <<>> /\ req = cur
      <4>1. q \in Derived
        BY <3>1, <3>2, TopLevelIsDerived
      <4>2. state[q] = "DONE"
        BY <3>1, <4>1, NoFailure
      <4>3. column[q] = W[q]
        BY <3>1, <3>2, <4>1, <4>2, MemoCurrent DEF ValuesGood
      <4>4. answer' = [q |-> q, val |-> W[q]]
        BY <3>1, <3>2, <4>2, <4>3 DEF AnswerOf, CachedValue
      <4> QED
        BY <4>1, <4>4 DEF AnswersWith
    <3>3. CASE ~(stack = <<>> /\ req = cur)
      BY <3>1, <3>3 DEF AnswerOf, AnswersWith
    <3> QED
      BY <3>2, <3>3
  <2>2. CASE BeginEmpty(q) \/ BeginWalk(q)
    BY <2>2 DEF BeginEmpty, BeginWalk, AnswersWith
  <2> QED
    BY <1>1, <2>1, <2>2, Undisturbed DEF Begin
<1>2. CASE WalkNext \/ WalkFail
  BY <1>2 DEF WalkNext, WalkFail, AnswersWith
<1>3. CASE WalkEnd
  <2>1. PICK t : t = Top(stack)
    OBVIOUS
  <2>2. PICK v : v = IF t.prev = "DONE" THEN column[t.q] ELSE Bottom
    OBVIOUS
  <2>3. /\ stack # <<>> /\ t.mode = "walk"
        /\ answer' = AnswerOf(Popped(stack), t.q, v)
    BY <1>3, <2>1, <2>2 DEF WalkEnd, Walking
  <2>4. t.q \in Derived /\ Kept(t, column, fp, Settled, cancel)
    BY <2>1, <2>3, TopTold DEF Setting
  <2>5. t.prev = "DONE"
    BY <2>3, <2>4 DEF Kept, WalkTold
  <2>6. v = W[t.q]
    BY <1>3, <2>1, <2>2, <2>5, WalkEndGood
  <2> QED
    BY <2>3, <2>4, <2>6 DEF AnswerOf, AnswersWith
<1>4. CASE Succeed
  <2>1. PICK t : t = Top(stack)
    OBVIOUS
  <2>2. PICK v : v = Upcoming(t).val
    OBVIOUS
  <2>3. stack # <<>> /\ answer' = AnswerOf(Popped(stack), t.q, v)
    BY <1>4, <2>1, <2>2 DEF Succeed, Finishing
  <2>4. t.q \in Derived
    BY <2>1, <2>3, TopTold DEF Setting
  <2>5. v = W[t.q]
    BY <1>4, <2>1, <2>2, SucceedGood
  <2> QED
    BY <2>3, <2>4, <2>5 DEF AnswerOf, AnswersWith
<1> QED
  BY <1>1, <1>2, <1>3, <1>4, NoFailure, Undisturbed

\* Every step of the engine is a step of the oracle or a stutter.
LEMMA OracleStep ==
    ASSUME NEW tier, Suits(tier), MayFail = {}, CInv(tier), CInv(tier)',
           [Next]_vars
    PROVE  [Oracle!Next]_<<Text, answer>>
<1>1. Setting /\ Setting' /\ ValuesGood(Now, tier) /\ TypeOK /\ Acyclic
  BY DEF CInv, Setting, MInv, IInv, Shell, Suits
<1>2. PICK W, s : W = Now /\ s = Text
  OBVIOUS
<1>3. Solves(W, s)
  BY <1>1, <1>2, NowSolves DEF Text
<1>4. ValuesGood(W, tier)
  BY <1>1, <1>2 DEF ValuesGood, MemosGood
<1>5. W = Oracle!FromScratch(s)
  BY <1>2, SameScratch DEF Now, Text
<1>6. CASE Machinery
  <2>1. Text' = Text
    BY <1>1, <1>6, InputsStay DEF Text
  <2>2. CASE RequestEnd \/ RequestCancel
    BY <2>1, <2>2 DEF RequestEnd, RequestCancel
  <2>3. CASE \E r \in 1 .. MaxRev : RequestBegin(r)
    <3>1. answer' = NoAnswer
      BY <2>3 DEF RequestBegin
    <3>2. Oracle!NewRequest
      BY <2>1, <3>1 DEF Oracle!NewRequest, Oracle!Silent, NoAnswer, Text
    <3> QED
      BY <3>2 DEF Oracle!Next
  <2>4. CASE \/ \E q \in Queries : Begin(q)
             \/ WalkNext \/ WalkFail \/ WalkEnd
             \/ Succeed \/ Fail \/ BailOut
    <3>1. AnswersWith(W)
      BY <1>1, <1>3, <1>4, <2>4, EngineAnswers
    <3>2. CASE answer' = answer
      BY <2>1, <3>2
    <3>3. ASSUME NEW q \in Derived, answer' = [q |-> q, val |-> W[q]]
          PROVE  Oracle!Next
      <4>1. Oracle!Ask(q)
        BY <1>2, <1>5, <2>1, <3>3 DEF Oracle!Ask, Text
      <4> QED
        BY <4>1 DEF Oracle!Next
    <3> QED
      BY <3>1, <3>2, <3>3 DEF AnswersWith
  <2> QED
    BY <1>6, <2>2, <2>3, <2>4 DEF Machinery
<1>7. CASE InputTouch \/ \E i \in Inputs, v \in Values : InputEdit(i, v)
  <2>1. answer' = NoAnswer
    BY <1>7 DEF InputTouch, InputEdit
  <2>2. Text' \in [Inputs -> Values]
    BY <1>1 DEF Setting, InputsKept, Text
  <2> DEFINE C == {i \in Inputs : Text'[i] # Text[i]}
  <2>3. \E i : C \subseteq {i}
    <3>1. CASE InputTouch
      <4>1. Text' = Text
        BY <3>1 DEF InputTouch, slotVars, Text
      <4> QED
        BY <4>1
    <3>2. ASSUME NEW i \in Inputs, NEW v \in Values, InputEdit(i, v)
          PROVE  C \subseteq {i}
      <4>1. \A k \in Inputs : column'[k] = IF k = i THEN v ELSE column[k]
        BY <1>1, <3>2, EditOf
      <4> QED
        BY <4>1 DEF Text
    <3> QED
      BY <1>7, <3>1, <3>2
  <2>4. Cardinality(C) <= 1
    <3>1. PICK i : C \subseteq {i}
      BY <2>3
    <3> HIDE DEF C
    <3>2. C = {} \/ C = {i}
      BY <3>1
    <3>3. Cardinality({}) = 0 /\ Cardinality({i}) = 1
      BY FS_EmptySet, FS_Singleton
    <3> QED
      BY <3>2, <3>3
  <2>5. Oracle!Cardinality(C) = Cardinality(C)
    <3> HIDE DEF C
    <3> QED
      BY DEF Oracle!Cardinality, Cardinality
  <2>6. Oracle!Edit
    BY <2>1, <2>2, <2>4, <2>5 DEF Oracle!Edit, Oracle!Silent, NoAnswer, Text
  <2> QED
    BY <2>6 DEF Oracle!Next
<1>8. CASE UNCHANGED vars
  BY <1>8 DEF vars, slotVars, Text
<1> QED
  BY <1>6, <1>7, <1>8, StepKinds

\* The engine implements the oracle, for every program that Steady describes
\* and in which no query fails: each answer a consumer is given is the value
\* computed from scratch of the inputs as they are, and an input changes only
\* between requests.
THEOREM EngineImplementsOracle ==
    Steady /\ MayFail = {} => (Spec => AnswersAreFromScratch)
<1> SUFFICES ASSUME Steady, MayFail = {}
             PROVE  Spec => AnswersAreFromScratch
  OBVIOUS
<1>1. PICK tier : Suits(tier)
  BY DEF Steady, Tiered, Suits
<1>2. Init => Oracle!Init
  <2> SUFFICES ASSUME Init
               PROVE  Oracle!Init
    OBVIOUS
  <2>1. \A i \in Inputs : column[i] \in Values
    BY DEF Init, Queries
  <2> QED
    BY <2>1 DEF Init, Oracle!Init, Oracle!Silent, NoAnswer
<1>3. CInv(tier) /\ CInv(tier)' /\ [Next]_vars => [Oracle!Next]_<<Text, answer>>
  BY <1>1, OracleStep
<1>4. Spec => []CInv(tier)
  BY <1>1, CurrentInvariance
<1> QED
  BY <1>2, <1>3, <1>4, PTL DEF Spec, AnswersAreFromScratch, Oracle!Spec, Text
=============================================================================
