--------------------------- MODULE TableProofs ----------------------------
(***************************************************************************)
(* The tables under the compiler answer as what they stand for, whatever   *)
(* the keys, the hashes, the sizes and the order of the operations.  The   *)
(* hash map: a table is sound when no key is stored twice and every slot   *)
(* between an entry and the slot its key hashes to is occupied; a put and a *)
(* growth keep that, and the backward shift of a removal restores it.  The *)
(* string pool: the same of slots that hold offsets into the buffer.  The  *)
(* arena: the offset of an allocation is the words used in the chunks before *)
(* its own plus its place there, and a reset only cuts the chain.  The     *)
(* intern pool: live items decode to different keys, and each has one      *)
(* bucket that its probe reaches, also past the buckets of removed items.  *)
(***************************************************************************)
EXTENDS HashMap, StringPool, Arena, InternPool, Induction, FiniteSetTheorems

SlotValues == {Empty} \cup [occupied : {TRUE}, key : MapKeys, value : MapValues]
Tables(n) == [0 .. n - 1 -> SlotValues]

\* m is on the way from slot r, going up and around the end, to slot p.
InArc(m, r, p) == IF r <= p THEN r <= m /\ m < p ELSE r <= m \/ m < p

Distinct(T, n) ==
    \A i, j \in 0 .. n - 1 :
        T[i].occupied /\ T[j].occupied /\ T[i].key = T[j].key => i = j
Reaches(T, n) ==
    \A i, m \in 0 .. n - 1 :
        T[i].occupied /\ InArc(m, Natural(T[i].key, n), i) => T[m].occupied
Sound(T, n) == T \in Tables(n) /\ Distinct(T, n) /\ Reaches(T, n)

\* The entries of T are those of the function c.
Matches(T, n, c) ==
    /\ \A i \in 0 .. n - 1 :
          T[i].occupied => T[i].key \in DOMAIN c /\ c[T[i].key] = T[i].value
    /\ \A k \in DOMAIN c : \E i \in 0 .. n - 1 : T[i].occupied /\ T[i].key = k

\* The slot s is where a probe for k stops.
StopsAt(T, n, k, s) ==
    /\ s \in 0 .. n - 1
    /\ T[s].occupied => T[s].key = k
    /\ \A m \in 0 .. n - 1 : InArc(m, Natural(k, n), s) => T[m].occupied /\ T[m].key # k

-----------------------------------------------------------------------------
(* Slots and probes.                                                       *)

\* A remainder is a slot of the table.
LEMMA RemainderRange ==
    ASSUME NEW n \in Nat \ {0}, NEW x \in Nat
    PROVE  x % n \in 0 .. n - 1
OBVIOUS

\* A key hashes to a slot of the table.
LEMMA NaturalRange ==
    ASSUME NEW n \in Nat \ {0}, NEW k \in MapKeys
    PROVE  Natural(k, n) \in 0 .. n - 1
<1>1. hash_u64[k] \in Nat
  BY HashMapAssumption
<1> QED
  BY <1>1, RemainderRange DEF Natural

\* Going d slots on from r, around the end of the table.
LEMMA CyclicValue ==
    ASSUME NEW n \in Nat \ {0}, NEW r \in 0 .. n - 1, NEW d \in 0 .. n - 1
    PROVE  Cyclic(r + d, n) = IF r + d < n THEN r + d ELSE r + d - n
BY DEF Cyclic

\* What a slot of a table is.
LEMMA SlotFacts ==
    ASSUME NEW n \in Nat, NEW T \in Tables(n), NEW i \in 0 .. n - 1
    PROVE  /\ T[i] \in SlotValues
           /\ T[i].occupied => /\ T[i].key \in MapKeys /\ T[i].value \in MapValues
                               /\ T[i] = Entry(T[i].key, T[i].value)
           /\ ~T[i].occupied => T[i] = Empty
<1> DEFINE e == T[i]
<1>1. e \in SlotValues
  BY DEF Tables
<1> HIDE DEF e
<1>2. CASE e = Empty
  <2>1. ~e.occupied
    BY <1>2 DEF Empty
  <2> QED
    BY <1>1, <1>2, <2>1 DEF e
<1>3. CASE e \in [occupied : {TRUE}, key : MapKeys, value : MapValues]
  <2>1. e.occupied /\ e.key \in MapKeys /\ e.value \in MapValues
    BY <1>3
  <2>2. e = Entry(e.key, e.value)
    BY <1>3 DEF Entry
  <2> QED
    BY <1>1, <2>1, <2>2 DEF e
<1> QED
  BY <1>1, <1>2, <1>3 DEF SlotValues

\* In a table with a free slot a probe stops.
LEMMA ProbeStops ==
    ASSUME NEW n \in Nat \ {0}, NEW T \in Tables(n), NEW k \in MapKeys,
           NEW f \in 0 .. n - 1, ~T[f].occupied
    PROVE  StopsAt(T, n, k, ProbeStop(T, n, k))
<1> DEFINE r == Natural(k, n)
           Stops(d) == ~T[Cyclic(r + d, n)].occupied \/ T[Cyclic(r + d, n)].key = k
           First(d) == Stops(d) /\ \A c \in 0 .. d - 1 : ~Stops(c)
           S == {d \in 0 .. n - 1 : Stops(d)}
           s == CHOOSE d \in 0 .. n - 1 : First(d)
<1>1. r \in 0 .. n - 1
  BY NaturalRange
<1>2. ProbeStop(T, n, k) = Cyclic(r + s, n)
  BY DEF ProbeStop
<1> HIDE DEF r
<1>3. \A m \in 0 .. n - 1 : \E d \in 0 .. n - 1 :
        /\ Cyclic(r + d, n) = m
        /\ d = IF r <= m THEN m - r ELSE m - r + n
  <2> TAKE m \in 0 .. n - 1
  <2> DEFINE d == IF r <= m THEN m - r ELSE m - r + n
  <2>1. d \in 0 .. n - 1 /\ (IF r + d < n THEN r + d ELSE r + d - n) = m
    BY <1>1
  <2> HIDE DEF d
  <2>2. Cyclic(r + d, n) = m
    BY <1>1, <2>1, CyclicValue
  <2>3. d = IF r <= m THEN m - r ELSE m - r + n
    BY DEF d
  <2> QED
    BY <2>1, <2>2, <2>3
<1>4. S \subseteq Nat /\ S # {}
  <2>1. PICK d \in 0 .. n - 1 : Cyclic(r + d, n) = f
    BY <1>3
  <2> QED
    BY <2>1
<1>5. PICK d \in S : \A c \in S : d <= c
  <2> HIDE DEF S
  <2> QED
    BY <1>4, LeastOf
<1>6. d \in 0 .. n - 1 /\ First(d)
  BY <1>5
<1> HIDE DEF Stops
<1>7. s \in 0 .. n - 1 /\ First(s)
  BY <1>6
<1> HIDE DEF s
<1>8. Cyclic(r + s, n) = IF r + s < n THEN r + s ELSE r + s - n
  BY <1>1, <1>7, CyclicValue
<1>9. Cyclic(r + s, n) \in 0 .. n - 1
  BY <1>1, <1>7, <1>8
<1>10. ASSUME NEW m \in 0 .. n - 1, InArc(m, r, Cyclic(r + s, n))
       PROVE  T[m].occupied /\ T[m].key # k
  <2>1. PICK c \in 0 .. n - 1 :
          /\ Cyclic(r + c, n) = m
          /\ c = IF r <= m THEN m - r ELSE m - r + n
    BY <1>3
  <2>2. c \in 0 .. s - 1
    BY <1>1, <1>7, <1>8, <1>10, <2>1 DEF InArc
  <2>3. ~Stops(c)
    BY <1>7, <2>2
  <2> QED
    BY <2>1, <2>3 DEF Stops
<1>11. T[Cyclic(r + s, n)].occupied => T[Cyclic(r + s, n)].key = k
  BY <1>7 DEF Stops
<1> QED
  BY <1>2, <1>9, <1>10, <1>11 DEF StopsAt, r

\* A probe in a sound table stops at the key's entry when it has one.
LEMMA ProbeFinds ==
    ASSUME NEW n \in Nat \ {0}, NEW T, Sound(T, n), NEW k \in MapKeys,
           NEW s, StopsAt(T, n, k, s),
           NEW i \in 0 .. n - 1, T[i].occupied, T[i].key = k
    PROVE  s = i
<1> DEFINE r == Natural(k, n)
<1>1. r \in 0 .. n - 1
  BY NaturalRange
<1>2. s \in 0 .. n - 1
  BY DEF StopsAt
<1>3. ~InArc(i, r, s)
  BY DEF StopsAt
<1>4. InArc(s, r, i) => T[s].occupied
  BY <1>2 DEF Sound, Reaches
<1>5. T[s].occupied => s = i
  BY <1>2 DEF StopsAt, Sound, Distinct
<1> HIDE DEF r
<1> QED
  BY <1>1, <1>2, <1>3, <1>4, <1>5 DEF InArc

\* A table with fewer keys than slots has a free slot.
LEMMA FreeSlot ==
    ASSUME NEW n \in Nat \ {0}, NEW T \in Tables(n), Distinct(T, n),
           NEW D, IsFiniteSet(D), Cardinality(D) < n,
           \A i \in 0 .. n - 1 : T[i].occupied => T[i].key \in D
    PROVE  \E f \in 0 .. n - 1 : ~T[f].occupied
<1> SUFFICES ASSUME \A i \in 0 .. n - 1 : T[i].occupied
             PROVE  FALSE
  OBVIOUS
<1> DEFINE g == [i \in 0 .. n - 1 |-> T[i].key]
           I == 0 .. n - 1
<1>1. g \in [I -> D]
  OBVIOUS
<1>2. IsFiniteSet(I) /\ Cardinality(I) = n
  <2>1. 0 \in Int /\ n - 1 \in Int /\ ~(0 > n - 1) /\ (n - 1) - 0 + 1 = n
    OBVIOUS
  <2> QED
    BY <2>1, FS_Interval
<1>3. \A i, j \in I : g[i] = g[j] => i = j
  BY DEF Distinct
<1> HIDE DEF g, I
<1> QED
  BY <1>1, <1>2, <1>3, FS_PigeonHole

-----------------------------------------------------------------------------
(* A put.                                                                  *)

\* An entry stored where the probe for its key stops: the slots after it.
LEMMA StoredSlots ==
    ASSUME NEW n \in Nat, NEW T \in Tables(n), NEW s \in 0 .. n - 1, NEW e \in SlotValues
    PROVE  /\ [T EXCEPT ![s] = e] \in Tables(n)
           /\ [T EXCEPT ![s] = e][s] = e
           /\ \A i \in 0 .. n - 1 : i # s => [T EXCEPT ![s] = e][i] = T[i]
BY DEF Tables

\* Such an entry leaves a sound table sound.
LEMMA InsertSound ==
    ASSUME NEW n \in Nat \ {0}, NEW T, Sound(T, n),
           NEW e \in SlotValues, e.occupied, e.key \in MapKeys,
           NEW s, StopsAt(T, n, e.key, s)
    PROVE  Sound([T EXCEPT ![s] = e], n)
<1> DEFINE U == [T EXCEPT ![s] = e]
<1>1. s \in 0 .. n - 1 /\ T \in Tables(n)
  BY DEF StopsAt, Sound
<1>2. /\ U \in Tables(n) /\ U[s] = e
      /\ \A i \in 0 .. n - 1 : i # s => U[i] = T[i]
  BY <1>1, StoredSlots
<1> HIDE DEF U
<1>3. ASSUME NEW j \in 0 .. n - 1, T[j].occupied, T[j].key = e.key
      PROVE  j = s
  BY <1>3, ProbeFinds
<1>4. Distinct(U, n)
  <2> SUFFICES ASSUME NEW i \in 0 .. n - 1, NEW j \in 0 .. n - 1,
                      U[i].occupied, U[j].occupied, U[i].key = U[j].key
               PROVE  i = j
    BY DEF Distinct
  <2>1. CASE i = s /\ j # s
    BY <1>2, <1>3, <2>1
  <2>2. CASE i # s /\ j = s
    BY <1>2, <1>3, <2>2
  <2>3. CASE i # s /\ j # s
    BY <1>2, <2>3 DEF Sound, Distinct
  <2> QED
    BY <2>1, <2>2, <2>3
<1>5. Reaches(U, n)
  <2> SUFFICES ASSUME NEW i \in 0 .. n - 1, NEW m \in 0 .. n - 1,
                      U[i].occupied, InArc(m, Natural(U[i].key, n), i)
               PROVE  U[m].occupied
    BY DEF Reaches
  <2>1. T[m].occupied => U[m].occupied
    BY <1>2
  <2>2. CASE i = s
    <3>1. T[m].occupied
      BY <1>2, <2>2 DEF StopsAt
    <3> QED
      BY <2>1, <3>1
  <2>3. CASE i # s
    <3>1. T[m].occupied
      BY <1>2, <2>3 DEF Sound, Reaches
    <3> QED
      BY <2>1, <3>1
  <2> QED
    BY <2>2, <2>3
<1> QED
  BY <1>2, <1>4, <1>5 DEF Sound, U

\* An empty table is sound and stands for the empty map.
LEMMA EmptySound ==
    ASSUME NEW n \in Nat
    PROVE  Sound(AllEmpty(n), n) /\ \A i \in 0 .. n - 1 : ~AllEmpty(n)[i].occupied
<1>1. AllEmpty(n) \in Tables(n)
  BY DEF AllEmpty, Tables, SlotValues
<1>2. \A i \in 0 .. n - 1 : ~AllEmpty(n)[i].occupied
  BY DEF AllEmpty, Empty
<1> QED
  BY <1>1, <1>2 DEF Sound, Distinct, Reaches

\* A map with one more pair.
Updated(c, k, v) == [x \in DOMAIN c \cup {k} |-> IF x = k THEN v ELSE c[x]]

\* A put stores the pair and nothing else.
LEMMA PutMatches ==
    ASSUME NEW n \in Nat \ {0}, NEW T, Sound(T, n), NEW c, Matches(T, n, c),
           NEW k \in MapKeys, NEW v \in MapValues, NEW s, StopsAt(T, n, k, s)
    PROVE  /\ Sound([T EXCEPT ![s] = Entry(k, v)], n)
           /\ Matches([T EXCEPT ![s] = Entry(k, v)], n, Updated(c, k, v))
           /\ T[s].occupied <=> k \in DOMAIN c
<1> DEFINE e == Entry(k, v)
           U == [T EXCEPT ![s] = e]
           D == DOMAIN c
           d == Updated(c, k, v)
<1>1. e \in SlotValues /\ e.occupied /\ e.key = k /\ e.value = v
  BY DEF Entry, SlotValues
<1> HIDE DEF e
<1>2. Sound(U, n)
  BY <1>1, InsertSound
<1>3. s \in 0 .. n - 1 /\ T \in Tables(n)
  BY DEF StopsAt, Sound
<1>4. /\ U[s] = e
      /\ \A i \in 0 .. n - 1 : i # s => U[i] = T[i]
  BY <1>1, <1>3 DEF Tables
<1> HIDE DEF U
<1>5. T[s].occupied <=> k \in D
  <2>1. T[s].occupied => k \in D
    BY <1>3 DEF StopsAt, Matches
  <2>2. ASSUME k \in D
        PROVE  T[s].occupied
    <3>1. PICK i \in 0 .. n - 1 : T[i].occupied /\ T[i].key = k
      BY <2>2 DEF Matches
    <3>2. s = i
      BY <3>1, ProbeFinds
    <3> QED
      BY <3>1, <3>2
  <2> QED
    BY <2>1, <2>2
<1>6. DOMAIN d = D \cup {k} /\ d[k] = v /\ \A x \in D : x # k => d[x] = c[x]
  BY DEF Updated
<1> HIDE DEF d
<1>7. ASSUME NEW i \in 0 .. n - 1, U[i].occupied
      PROVE  U[i].key \in DOMAIN d /\ d[U[i].key] = U[i].value
  <2>1. CASE i = s
    BY <1>1, <1>4, <1>6, <2>1
  <2>2. CASE i # s
    <3>1. U[i] = T[i] /\ T[i].occupied
      BY <1>4, <1>7, <2>2
    <3>2. T[i].key # k
      <4>1. SUFFICES ASSUME T[i].key = k PROVE FALSE
        OBVIOUS
      <4>2. s = i
        BY <3>1, <4>1, ProbeFinds
      <4> QED
        BY <2>2, <4>2
    <3>3. T[i].key \in D /\ c[T[i].key] = T[i].value
      BY <3>1 DEF Matches
    <3> QED
      BY <1>6, <3>1, <3>2, <3>3
  <2> QED
    BY <2>1, <2>2
<1>8. ASSUME NEW x \in DOMAIN d
      PROVE  \E i \in 0 .. n - 1 : U[i].occupied /\ U[i].key = x
  <2>1. CASE x = k
    BY <1>1, <1>3, <1>4, <2>1
  <2>2. CASE x # k
    <3>1. x \in D
      BY <1>6, <2>2
    <3>2. PICK i \in 0 .. n - 1 : T[i].occupied /\ T[i].key = x
      BY <3>1 DEF Matches
    <3>3. i # s
      BY <2>2, <3>2 DEF StopsAt
    <3> QED
      BY <1>4, <3>2, <3>3
  <2> QED
    BY <2>1, <2>2
<1>9. Matches(U, n, d)
  BY <1>7, <1>8 DEF Matches
<1> QED
  BY <1>2, <1>5, <1>9 DEF U, e, d

-----------------------------------------------------------------------------
(* A growth.                                                               *)

\* What a growth does at slot i - 1 of the old table T to the new one U of m.
Carried(T, m, U, i) ==
    IF T[i - 1].occupied THEN insert_existing(U, m, T[i - 1]) ELSE U

\* The tables on the way of a growth.
Fills(fresh, T, n, m) ==
    /\ fresh \in [0 .. n -> Tables(m)]
    /\ fresh[0] = AllEmpty(m)
    /\ \A i \in 1 .. n : fresh[i] = Carried(T, m, fresh[i - 1], i)

\* A growth goes through such tables.
LEMMA RehashRuns ==
    ASSUME NEW n \in Nat, NEW m \in Nat \ {0}, NEW T \in Tables(n)
    PROVE  \E fresh : Fills(fresh, T, n, m) /\ Rehashed(T, n, m) = fresh[n]
<1> DEFINE S == Tables(m)
           G == [p \in S \X (1 .. n) |-> Carried(T, m, p[1], p[2])]
           Eq(f) == f = [i \in 0 .. n |->
                           IF i = 0 THEN AllEmpty(m) ELSE Carried(T, m, f[i - 1], i)]
<1>1. AllEmpty(m) \in S
  BY EmptySound DEF Sound
<1>2. ASSUME NEW U \in S, NEW i \in 1 .. n
      PROVE  Carried(T, m, U, i) \in S
  <2>1. i - 1 \in 0 .. n - 1
    OBVIOUS
  <2>2. T[i - 1] \in SlotValues
    BY <2>1 DEF Tables
  <2> DEFINE e == T[i - 1]
             x == ProbeStop(U, m, e.key)
  <2> HIDE DEF e, x
  <2>3. [U EXCEPT ![x] = e] \in S
    BY <2>2 DEF Tables, e
  <2> QED
    BY <2>3 DEF Carried, insert_existing, e, x
<1>3. G \in [S \X (1 .. n) -> S]
  BY <1>2
<1>4. Rehashed(T, n, m) = (CHOOSE f : Eq(f))[n]
  BY DEF Rehashed, Carried
<1> HIDE DEF S
<1>5. PICK g \in [0 .. n -> S] : Runs(g, n, AllEmpty(m), G)
  <2> HIDE DEF G
  <2> QED
    BY <1>1, <1>3, RecursionExists
<1>6. g[0] = AllEmpty(m) /\ \A i \in 1 .. n : g[i] = Carried(T, m, g[i - 1], i)
  <2>1. ASSUME NEW i \in 1 .. n
        PROVE  g[i] = Carried(T, m, g[i - 1], i)
    <3>1. g[i - 1] \in S
      BY <1>5
    <3>2. G[<<g[i - 1], i>>] = Carried(T, m, g[i - 1], i)
      BY <3>1
    <3> QED
      BY <1>5, <3>2 DEF Runs
  <2> QED
    BY <1>5, <2>1 DEF Runs
<1> HIDE DEF G
<1>7. Eq(g)
  <2> DEFINE h == [i \in 0 .. n |->
                     IF i = 0 THEN AllEmpty(m) ELSE Carried(T, m, g[i - 1], i)]
  <2>1. \A i \in 0 .. n : h[i] = g[i]
    <3> TAKE i \in 0 .. n
    <3>1. CASE i = 0
      BY <1>6, <3>1
    <3>2. CASE i # 0
      <4>1. i \in 1 .. n
        BY <3>2
      <4> QED
        BY <1>6, <3>2, <4>1
    <3> QED
      BY <3>1, <3>2
  <2>2. DOMAIN h = 0 .. n /\ h = [i \in DOMAIN h |-> h[i]]
    OBVIOUS
  <2>3. DOMAIN g = 0 .. n /\ g = [i \in DOMAIN g |-> g[i]]
    BY <1>5
  <2> HIDE DEF h
  <2>4. h = g
    BY <2>1, <2>2, <2>3
  <2> QED
    BY <2>4 DEF h
<1> DEFINE fresh == CHOOSE f : Eq(f)
<1>8. Eq(fresh)
  BY <1>7
<1>9. Rehashed(T, n, m) = fresh[n]
  BY <1>4
<1> HIDE DEF fresh
<1>10. fresh[0] = AllEmpty(m) /\ \A i \in 1 .. n : fresh[i] = Carried(T, m, fresh[i - 1], i)
  <2>1. \A i \in 0 .. n : fresh[i] = IF i = 0 THEN AllEmpty(m) ELSE Carried(T, m, fresh[i - 1], i)
    BY <1>8
  <2>2. 0 \in 0 .. n /\ \A i \in 1 .. n : i \in 0 .. n /\ i # 0
    OBVIOUS
  <2> QED
    BY <2>1, <2>2
<1>11. \A i \in 0 .. n : fresh[i] \in S
  <2> DEFINE I == {i \in 0 .. n : fresh[i] \in S}
  <2>1. 0 \in I
    BY <1>1, <1>10
  <2>2. ASSUME NEW i \in 0 .. n - 1, i \in I
        PROVE  i + 1 \in I
    <3>1. i + 1 \in 1 .. n /\ i + 1 \in 0 .. n /\ (i + 1) - 1 = i
      OBVIOUS
    <3>2. fresh[i + 1] = Carried(T, m, fresh[i], i + 1) /\ fresh[i] \in S
      BY <1>10, <2>2, <3>1
    <3>3. fresh[i + 1] \in S
      BY <1>2, <3>1, <3>2
    <3> QED
      BY <3>1, <3>3
  <2> HIDE DEF I
  <2>3. 0 .. n \subseteq I
    BY <2>1, <2>2, IntervalInduction
  <2> QED
    BY <2>3 DEF I
<1>12. fresh \in [0 .. n -> S]
  BY <1>8, <1>11
<1> QED
  BY <1>9, <1>10, <1>12 DEF Fills, S

\* The entries of U are those of the first i slots of T.
Carries(T, m, U, i) ==
    /\ Sound(U, m)
    /\ \A p \in 0 .. m - 1 :
          U[p].occupied => \E q \in 0 .. i - 1 : T[q] = U[p]
    /\ \A q \in 0 .. i - 1 :
          T[q].occupied => \E p \in 0 .. m - 1 : U[p] = T[q]

\* One slot of a growth carries its entry over.
LEMMA CarryStep ==
    ASSUME NEW n \in Nat, NEW m \in Nat \ {0}, NEW T, Sound(T, n),
           NEW D, IsFiniteSet(D), Cardinality(D) < m,
           \A q \in 0 .. n - 1 : T[q].occupied => T[q].key \in D,
           NEW U, NEW i \in 0 .. n - 1, Carries(T, m, U, i)
    PROVE  Carries(T, m, Carried(T, m, U, i + 1), i + 1)
<1> DEFINE e == T[i]
           s == ProbeStop(U, m, e.key)
           V == [U EXCEPT ![s] = e]
<1>1. (i + 1) - 1 = i /\ T \in Tables(n) /\ U \in Tables(m) /\ Sound(U, m)
  BY DEF Sound, Carries
<1>2. \A q \in 0 .. (i + 1) - 1 : q \in 0 .. i - 1 \/ q = i
  OBVIOUS
<1>3. \A q \in 0 .. i - 1 : q \in 0 .. (i + 1) - 1 /\ q \in 0 .. n - 1 /\ q # i
  OBVIOUS
<1>4. CASE ~T[i].occupied
  <2>1. Carried(T, m, U, i + 1) = U
    BY <1>1, <1>4 DEF Carried
  <2> QED
    BY <1>2, <1>3, <1>4, <2>1 DEF Carries
<1>5. CASE T[i].occupied
  <2>1. Carried(T, m, U, i + 1) = V
    BY <1>1, <1>5 DEF Carried, insert_existing
  <2>2. e \in SlotValues /\ e.occupied /\ e.key \in MapKeys
    BY <1>1, <1>5, SlotFacts
  <2>3. PICK f \in 0 .. m - 1 : ~U[f].occupied
    <3>1. \A p \in 0 .. m - 1 : U[p].occupied => U[p].key \in D
      BY <1>3 DEF Carries
    <3> QED
      BY <1>1, <3>1, FreeSlot DEF Sound
  <2>4. StopsAt(U, m, e.key, s)
    BY <1>1, <2>2, <2>3, ProbeStops
  <2> HIDE DEF s
  <2>5. s \in 0 .. m - 1
    BY <2>4 DEF StopsAt
  <2>6. Sound(V, m)
    BY <1>1, <2>2, <2>4, InsertSound
  <2>7. V[s] = e /\ \A p \in 0 .. m - 1 : p # s => V[p] = U[p]
    BY <1>1, <2>5 DEF Tables
  <2> HIDE DEF V
  <2>8. ~U[s].occupied
    <3>1. SUFFICES ASSUME U[s].occupied PROVE FALSE
      OBVIOUS
    <3>2. U[s].key = e.key
      BY <2>4, <3>1 DEF StopsAt
    <3>3. PICK q \in 0 .. i - 1 : T[q] = U[s]
      BY <2>5, <3>1 DEF Carries
    <3>4. T[q].occupied /\ T[q].key = T[i].key
      BY <3>1, <3>2, <3>3
    <3>5. q \in 0 .. n - 1 /\ q # i
      BY <1>3
    <3> QED
      BY <1>5, <3>4, <3>5 DEF Sound, Distinct
  <2>9. ASSUME NEW p \in 0 .. m - 1, V[p].occupied
        PROVE  \E q \in 0 .. (i + 1) - 1 : T[q] = V[p]
    <3>1. CASE p = s
      <4>1. T[i] = V[p] /\ i \in 0 .. (i + 1) - 1
        BY <2>7, <3>1
      <4> QED
        BY <4>1
    <3>2. CASE p # s
      <4>1. PICK q \in 0 .. i - 1 : T[q] = U[p]
        BY <2>7, <2>9, <3>2 DEF Carries
      <4> QED
        BY <1>3, <2>7, <3>2, <4>1
    <3> QED
      BY <3>1, <3>2
  <2>10. ASSUME NEW q \in 0 .. (i + 1) - 1, T[q].occupied
         PROVE  \E p \in 0 .. m - 1 : V[p] = T[q]
    <3>1. CASE q = i
      BY <2>5, <2>7, <3>1
    <3>2. CASE q # i
      <4>1. q \in 0 .. i - 1
        BY <1>2, <3>2
      <4>2. PICK p \in 0 .. m - 1 : U[p] = T[q]
        BY <2>10, <4>1 DEF Carries
      <4>3. p # s
        BY <2>8, <2>10, <4>2
      <4> QED
        BY <2>7, <4>2, <4>3
    <3> QED
      BY <3>1, <3>2
  <2> QED
    BY <2>1, <2>6, <2>9, <2>10 DEF Carries
<1> QED
  BY <1>4, <1>5

\* A growth keeps every entry, at a slot its probe finds.
LEMMA RehashedSound ==
    ASSUME NEW n \in Nat, NEW m \in Nat \ {0}, NEW T, Sound(T, n),
           NEW c, Matches(T, n, c), IsFiniteSet(DOMAIN c), Cardinality(DOMAIN c) < m
    PROVE  Sound(Rehashed(T, n, m), m) /\ Matches(Rehashed(T, n, m), m, c)
<1> DEFINE D == DOMAIN c
<1>1. T \in Tables(n)
  BY DEF Sound
<1>2. PICK fresh : Fills(fresh, T, n, m) /\ Rehashed(T, n, m) = fresh[n]
  BY <1>1, RehashRuns
<1>3. \A q \in 0 .. n - 1 : T[q].occupied => T[q].key \in D
  BY DEF Matches
<1> DEFINE I == {i \in 0 .. n : Carries(T, m, fresh[i], i)}
<1>4. 0 \in I
  <2>1. Sound(AllEmpty(m), m) /\ \A p \in 0 .. m - 1 : ~AllEmpty(m)[p].occupied
    BY EmptySound
  <2>2. Carries(T, m, AllEmpty(m), 0)
    BY <2>1 DEF Carries
  <2> QED
    BY <1>2, <2>2 DEF Fills
<1>5. ASSUME NEW i \in 0 .. n - 1, i \in I
      PROVE  i + 1 \in I
  <2>1. i + 1 \in 1 .. n /\ i + 1 \in 0 .. n /\ (i + 1) - 1 = i
    OBVIOUS
  <2>2. fresh[i + 1] = Carried(T, m, fresh[i], i + 1)
    BY <1>2, <2>1 DEF Fills
  <2>3. Carries(T, m, fresh[i], i) /\ IsFiniteSet(D) /\ Cardinality(D) < m
    BY <1>5
  <2> HIDE DEF D
  <2>4. Carries(T, m, Carried(T, m, fresh[i], i + 1), i + 1)
    BY <1>3, <2>3, CarryStep
  <2> QED
    BY <2>1, <2>2, <2>4
<1> HIDE DEF I
<1>6. 0 .. n \subseteq I
  BY <1>4, <1>5, IntervalInduction
<1>7. Carries(T, m, fresh[n], n)
  BY <1>6 DEF I
<1> DEFINE U == fresh[n]
<1> HIDE DEF U
<1>8. /\ Sound(U, m)
      /\ \A p \in 0 .. m - 1 : U[p].occupied => \E q \in 0 .. n - 1 : T[q] = U[p]
      /\ \A q \in 0 .. n - 1 : T[q].occupied => \E p \in 0 .. m - 1 : U[p] = T[q]
  BY <1>7 DEF Carries, U
<1>9. Matches(U, m, c)
  <2>1. ASSUME NEW p \in 0 .. m - 1, U[p].occupied
        PROVE  U[p].key \in D /\ c[U[p].key] = U[p].value
    BY <1>8, <2>1 DEF Matches
  <2>2. ASSUME NEW k \in D
        PROVE  \E p \in 0 .. m - 1 : U[p].occupied /\ U[p].key = k
    <3>1. PICK q \in 0 .. n - 1 : T[q].occupied /\ T[q].key = k
      BY DEF Matches
    <3>2. PICK p \in 0 .. m - 1 : U[p] = T[q]
      BY <1>8, <3>1
    <3> QED
      BY <3>1, <3>2
  <2> QED
    BY <2>1, <2>2 DEF Matches
<1> QED
  BY <1>2, <1>8, <1>9 DEF U

-----------------------------------------------------------------------------
(* A removal.                                                              *)

\* How far slot p lies ahead of slot i.
Ahead(i, p, n) == IF i <= p THEN p - i ELSE p - i + n

(***************************************************************************)
(* The table W while the walk of a removal at slot i has passed d slots    *)
(* and the hole is at h: what is missing on the way to an entry is at most *)
(* the hole, and nothing is missing on the way to an entry passed.  A free *)
(* slot lies ahead, where the walk will end at the latest.                 *)
(***************************************************************************)
Walking(W, n, i, h, d) ==
    /\ W \in Tables(n) /\ Distinct(W, n)
    /\ h \in 0 .. n - 1 /\ ~W[h].occupied /\ Ahead(i, h, n) <= d
    /\ \A p, m \in 0 .. n - 1 :
          W[p].occupied /\ InArc(m, Natural(W[p].key, n), p) => W[m].occupied \/ m = h
    /\ \A p \in 0 .. n - 1 :
          W[p].occupied /\ Ahead(i, p, n) <= d => ~InArc(h, Natural(W[p].key, n), p)
    /\ \E f \in 0 .. n - 1 : ~W[f].occupied /\ Ahead(i, f, n) > d

\* The code's test asks whether the hole is on the way to the entry at j.
LEMMA ShouldMove ==
    ASSUME NEW n \in Nat, NEW h \in 0 .. n - 1, NEW j \in 0 .. n - 1, NEW r \in 0 .. n - 1,
           h # j
    PROVE  should_move(h, j, r) <=> InArc(h, r, j)
BY DEF should_move, InArc

\* The slot the walk looks at next.
LEMMA NextAhead ==
    ASSUME NEW n \in Nat \ {0}, NEW i \in 0 .. n - 1, NEW d \in 0 .. n - 1
    PROVE  Cyclic(i + d, n) \in 0 .. n - 1 /\ Ahead(i, Cyclic(i + d, n), n) = d
<1>1. Cyclic(i + d, n) = IF i + d < n THEN i + d ELSE i + d - n
  BY CyclicValue
<1> QED
  BY <1>1 DEF Ahead

\* Around the table: ahead of h and of j on the way to p, and the like.
LEMMA ArcThrough ==
    ASSUME NEW n \in Nat \ {0}, NEW i \in 0 .. n - 1, NEW h \in 0 .. n - 1,
           NEW j \in 0 .. n - 1, NEW p \in 0 .. n - 1, NEW r \in 0 .. n - 1,
           InArc(h, r, p), Ahead(i, h, n) < Ahead(i, j, n), Ahead(i, j, n) < Ahead(i, p, n)
    PROVE  InArc(j, r, p)
BY DEF InArc, Ahead

LEMMA ArcAround ==
    ASSUME NEW n \in Nat \ {0}, NEW i \in 0 .. n - 1, NEW f \in 0 .. n - 1,
           NEW j \in 0 .. n - 1, NEW p \in 0 .. n - 1, NEW r \in 0 .. n - 1,
           InArc(j, r, p), Ahead(i, p, n) < Ahead(i, j, n), Ahead(i, j, n) < Ahead(i, f, n)
    PROVE  InArc(f, r, p)
BY DEF InArc, Ahead

LEMMA ArcPrefix ==
    ASSUME NEW n \in Nat \ {0}, NEW h \in 0 .. n - 1, NEW m \in 0 .. n - 1,
           NEW j \in 0 .. n - 1, NEW r \in 0 .. n - 1, InArc(h, r, j), InArc(m, r, h)
    PROVE  InArc(m, r, j) /\ m # h /\ m # j
BY DEF InArc

LEMMA AheadInjective ==
    ASSUME NEW n \in Nat \ {0}, NEW i \in 0 .. n - 1, NEW p \in 0 .. n - 1, NEW q \in 0 .. n - 1,
           Ahead(i, p, n) = Ahead(i, q, n)
    PROVE  p = q
BY DEF Ahead

LEMMA AheadRange ==
    ASSUME NEW n \in Nat \ {0}, NEW i \in 0 .. n - 1, NEW p \in 0 .. n - 1
    PROVE  Ahead(i, p, n) \in 0 .. n - 1 /\ Ahead(i, i, n) = 0
BY DEF Ahead

\* The walk starts with the entry of slot i taken out.
LEMMA WalkStarts ==
    ASSUME NEW n \in Nat \ {0}, NEW T, Sound(T, n), NEW i \in 0 .. n - 1, T[i].occupied,
           NEW f \in 0 .. n - 1, ~T[f].occupied
    PROVE  Walking([T EXCEPT ![i] = Empty], n, i, i, 0)
<1> DEFINE W == [T EXCEPT ![i] = Empty]
<1>1. T \in Tables(n) /\ Empty \in SlotValues /\ ~Empty.occupied
  BY DEF Sound, SlotValues, Empty
<1>2. W \in Tables(n) /\ W[i] = Empty /\ \A p \in 0 .. n - 1 : p # i => W[p] = T[p]
  BY <1>1 DEF Tables
<1> HIDE DEF W
<1>3. Distinct(W, n)
  BY <1>1, <1>2 DEF Sound, Distinct
<1>4. \A p, m \in 0 .. n - 1 :
        W[p].occupied /\ InArc(m, Natural(W[p].key, n), p) => W[m].occupied \/ m = i
  BY <1>1, <1>2 DEF Sound, Reaches
<1>5. Ahead(i, i, n) = 0 /\ \A p \in 0 .. n - 1 : Ahead(i, p, n) <= 0 => p = i
  BY DEF Ahead
<1>6. Ahead(i, f, n) > 0 /\ ~W[f].occupied
  <2>1. f # i
    OBVIOUS
  <2>2. Ahead(i, f, n) > 0
    BY <2>1 DEF Ahead
  <2> QED
    BY <1>2, <2>1, <2>2
<1> QED
  BY <1>1, <1>2, <1>3, <1>4, <1>5, <1>6 DEF Walking, W

\* It ends at a free slot with a sound table.
LEMMA WalkEnds ==
    ASSUME NEW n \in Nat \ {0}, NEW i \in 0 .. n - 1, NEW d \in 0 .. n - 1,
           NEW W, NEW h, Walking(W, n, i, h, d),
           NEW j \in 0 .. n - 1, Ahead(i, j, n) = d + 1, ~W[j].occupied
    PROVE  Sound(W, n)
<1>1. W \in Tables(n) /\ Distinct(W, n) /\ h \in 0 .. n - 1 /\ Ahead(i, h, n) <= d
  BY DEF Walking
<1>2. h # j
  BY <1>1
<1>3. ASSUME NEW p \in 0 .. n - 1, NEW m \in 0 .. n - 1,
             W[p].occupied, InArc(m, Natural(W[p].key, n), p)
      PROVE  W[m].occupied
  <2> DEFINE r == Natural(W[p].key, n)
  <2>1. r \in 0 .. n - 1
    BY <1>1, <1>3, SlotFacts, NaturalRange
  <2>2. W[m].occupied \/ m = h
    BY <1>3 DEF Walking
  <2>3. Ahead(i, p, n) <= d => ~InArc(h, r, p)
    BY <1>3 DEF Walking
  <2>4. InArc(j, r, p) => W[j].occupied \/ j = h
    BY <1>3 DEF Walking
  <2>5. InArc(m, r, p)
    BY <1>3
  <2> HIDE DEF r
  <2>6. ~InArc(j, r, p)
    BY <1>2, <2>4
  <2>7. Ahead(i, p, n) \in Int /\ Ahead(i, h, n) \in Int
    BY <1>1, AheadRange
  <2>8. Ahead(i, p, n) # d + 1
    <3>1. p # j
      BY <1>3
    <3> QED
      BY <3>1, AheadInjective
  <2>9. InArc(h, r, p) => FALSE
    <3>1. SUFFICES ASSUME InArc(h, r, p) PROVE FALSE
      OBVIOUS
    <3>2. Ahead(i, p, n) > d + 1
      BY <2>3, <2>7, <2>8, <3>1
    <3>3. Ahead(i, h, n) < Ahead(i, j, n) /\ Ahead(i, j, n) < Ahead(i, p, n)
      BY <1>1, <2>7, <3>2
    <3>4. InArc(j, r, p)
      BY <1>1, <2>1, <3>1, <3>3, ArcThrough
    <3> QED
      BY <2>6, <3>4
  <2> QED
    BY <2>2, <2>5, <2>9
<1> QED
  BY <1>1, <1>3 DEF Sound, Reaches

\* It passes an entry that the hole is not on the way to.
LEMMA WalkPasses ==
    ASSUME NEW n \in Nat \ {0}, NEW i \in 0 .. n - 1, NEW d \in 0 .. n - 1,
           NEW W, NEW h, Walking(W, n, i, h, d),
           NEW j \in 0 .. n - 1, Ahead(i, j, n) = d + 1, W[j].occupied,
           ~InArc(h, Natural(W[j].key, n), j)
    PROVE  Walking(W, n, i, h, d + 1)
<1>1. h \in 0 .. n - 1 /\ Ahead(i, h, n) <= d
  BY DEF Walking
<1>2. Ahead(i, h, n) <= d + 1
  BY <1>1, AheadRange
<1>3. PICK f \in 0 .. n - 1 : ~W[f].occupied /\ Ahead(i, f, n) > d
  BY DEF Walking
<1>4. Ahead(i, f, n) > d + 1
  <2>1. f # j
    BY <1>3
  <2>2. Ahead(i, f, n) # d + 1 /\ Ahead(i, f, n) \in Int
    BY <2>1 DEF Ahead
  <2> QED
    BY <1>3, <2>2
<1>5. ASSUME NEW p \in 0 .. n - 1, W[p].occupied, Ahead(i, p, n) <= d + 1
      PROVE  ~InArc(h, Natural(W[p].key, n), p)
  <2>1. CASE p = j
    BY <2>1
  <2>2. CASE p # j
    <3>1. Ahead(i, p, n) # d + 1 /\ Ahead(i, p, n) \in Int
      BY <2>2 DEF Ahead
    <3>2. Ahead(i, p, n) <= d
      BY <1>5, <3>1
    <3> QED
      BY <1>5, <3>2 DEF Walking
  <2> QED
    BY <2>1, <2>2
<1> QED
  BY <1>2, <1>3, <1>4, <1>5 DEF Walking

\* It moves an entry that the hole is on the way to into the hole.
LEMMA WalkMoves ==
    ASSUME NEW n \in Nat \ {0}, NEW i \in 0 .. n - 1, NEW d \in 0 .. n - 1,
           NEW W, NEW h, Walking(W, n, i, h, d),
           NEW j \in 0 .. n - 1, Ahead(i, j, n) = d + 1, W[j].occupied,
           InArc(h, Natural(W[j].key, n), j),
           NEW V \in Tables(n), V[h] = W[j], V[j] = Empty,
           \A p \in 0 .. n - 1 : p # h /\ p # j => V[p] = W[p]
    PROVE  Walking(V, n, i, j, d + 1)
<1>1. /\ W \in Tables(n) /\ Distinct(W, n)
      /\ h \in 0 .. n - 1 /\ Ahead(i, h, n) <= d /\ ~W[h].occupied
  BY DEF Walking
<1>2. h # j /\ ~V[j].occupied /\ V[h].occupied
  BY <1>1 DEF Empty
<1>3. PICK f \in 0 .. n - 1 : ~W[f].occupied /\ Ahead(i, f, n) > d
  BY DEF Walking
<1>4. Ahead(i, f, n) > d + 1 /\ f # j /\ f # h
  <2>1. f # j
    BY <1>3
  <2>2. Ahead(i, f, n) # d + 1 /\ Ahead(i, f, n) \in Int /\ Ahead(i, h, n) \in Int
    BY <1>1, <2>1 DEF Ahead
  <2> QED
    BY <1>1, <1>3, <2>1, <2>2
<1>5. Distinct(V, n)
  <2> SUFFICES ASSUME NEW p \in 0 .. n - 1, NEW q \in 0 .. n - 1,
                      V[p].occupied, V[q].occupied, V[p].key = V[q].key
               PROVE  p = q
    BY DEF Distinct
  <2>1. p # j /\ q # j
    BY <1>2
  <2>2. CASE p = h /\ q # h
    BY <1>1, <2>1, <2>2 DEF Distinct
  <2>3. CASE p # h /\ q = h
    BY <1>1, <2>1, <2>3 DEF Distinct
  <2>4. CASE p # h /\ q # h
    BY <1>1, <2>1, <2>4 DEF Distinct
  <2> QED
    BY <2>2, <2>3, <2>4
<1>6. ASSUME NEW m \in 0 .. n - 1, W[m].occupied \/ m = h
      PROVE  V[m].occupied \/ m = j
  BY <1>2, <1>6
<1>7. ASSUME NEW p \in 0 .. n - 1, V[p].occupied
      PROVE  /\ \A m \in 0 .. n - 1 : InArc(m, Natural(V[p].key, n), p) => V[m].occupied \/ m = j
             /\ Ahead(i, p, n) <= d + 1 => ~InArc(j, Natural(V[p].key, n), p)
  <2> DEFINE r == Natural(V[p].key, n)
  <2>1. r \in 0 .. n - 1
    BY <1>7, SlotFacts, NaturalRange
  <2>2. p # j
    BY <1>2, <1>7
  <2>3. CASE p = h
    <3>1. r = Natural(W[j].key, n) /\ InArc(h, r, j)
      BY <2>3
    <3>2. ASSUME NEW m \in 0 .. n - 1, InArc(m, r, j)
          PROVE  W[m].occupied \/ m = h
      BY <3>1, <3>2 DEF Walking
    <3> HIDE DEF r
    <3>3. ASSUME NEW m \in 0 .. n - 1, InArc(m, r, h)
          PROVE  InArc(m, r, j) /\ m # h /\ m # j
      BY <1>1, <2>1, <3>1, <3>3, ArcPrefix
    <3>4. \A m \in 0 .. n - 1 : InArc(m, r, p) => V[m].occupied \/ m = j
      BY <1>6, <2>3, <3>2, <3>3
    <3>5. ~InArc(j, r, p)
      BY <2>3, <3>3
    <3> QED
      BY <3>4, <3>5 DEF r
  <2>4. CASE p # h
    <3>1. V[p] = W[p] /\ W[p].occupied
      BY <1>7, <2>2, <2>4
    <3>2. \A m \in 0 .. n - 1 : InArc(m, r, p) => W[m].occupied \/ m = h
      BY <3>1 DEF Walking
    <3>3. ~InArc(f, r, p)
      BY <1>3, <1>4, <3>2
    <3> HIDE DEF r
    <3>4. \A m \in 0 .. n - 1 : InArc(m, r, p) => V[m].occupied \/ m = j
      BY <1>6, <3>2
    <3>5. ASSUME Ahead(i, p, n) <= d + 1
          PROVE  ~InArc(j, r, p)
      <4>1. Ahead(i, p, n) # d + 1 /\ Ahead(i, p, n) \in Int /\ Ahead(i, f, n) \in Int
        BY <2>2 DEF Ahead
      <4>2. Ahead(i, p, n) < Ahead(i, j, n) /\ Ahead(i, j, n) < Ahead(i, f, n)
        BY <1>4, <3>5, <4>1
      <4> QED
        BY <2>1, <3>3, <4>2, ArcAround
    <3> QED
      BY <3>4, <3>5 DEF r
  <2> QED
    BY <2>3, <2>4
<1>8. ~V[f].occupied
  BY <1>3, <1>4
<1>9. Ahead(i, j, n) <= d + 1
  OBVIOUS
<1> QED
  BY <1>2, <1>4, <1>5, <1>7, <1>8, <1>9 DEF Walking

\* A map without a key.
Without(c, k) == [x \in DOMAIN c \ {k} |-> c[x]]

\* Taking out the entry of a slot takes its key out of the map.
LEMMA TakenMatches ==
    ASSUME NEW n \in Nat \ {0}, NEW T, Sound(T, n), NEW c, Matches(T, n, c),
           NEW i \in 0 .. n - 1, T[i].occupied
    PROVE  Matches([T EXCEPT ![i] = Empty], n, Without(c, T[i].key))
<1> DEFINE W == [T EXCEPT ![i] = Empty]
           k == T[i].key
           b == Without(c, k)
<1>1. T \in Tables(n) /\ ~Empty.occupied
  BY DEF Sound, Empty
<1>2. W[i] = Empty /\ \A p \in 0 .. n - 1 : p # i => W[p] = T[p]
  BY <1>1 DEF Tables
<1> HIDE DEF W
<1>3. DOMAIN b = DOMAIN c \ {k} /\ \A x \in DOMAIN b : b[x] = c[x]
  BY DEF Without
<1> HIDE DEF b
<1>4. ASSUME NEW p \in 0 .. n - 1, W[p].occupied
      PROVE  W[p].key \in DOMAIN b /\ b[W[p].key] = W[p].value
  <2>1. p # i
    BY <1>1, <1>2, <1>4
  <2>2. W[p] = T[p] /\ T[p].occupied
    BY <1>2, <1>4, <2>1
  <2>3. T[p].key # k
    BY <2>1, <2>2 DEF Sound, Distinct
  <2>4. T[p].key \in DOMAIN c /\ c[T[p].key] = T[p].value
    BY <2>2 DEF Matches
  <2> QED
    BY <1>3, <2>2, <2>3, <2>4
<1>5. ASSUME NEW x \in DOMAIN b
      PROVE  \E p \in 0 .. n - 1 : W[p].occupied /\ W[p].key = x
  <2>1. x \in DOMAIN c /\ x # k
    BY <1>3
  <2>2. PICK p \in 0 .. n - 1 : T[p].occupied /\ T[p].key = x
    BY <2>1 DEF Matches
  <2>3. p # i
    BY <2>1, <2>2
  <2> QED
    BY <1>2, <2>2, <2>3
<1> QED
  BY <1>4, <1>5 DEF Matches, W, b

\* Moving an entry into a free slot leaves the map as it is.
LEMMA MovedMatches ==
    ASSUME NEW n \in Nat, NEW W, NEW c, Matches(W, n, c),
           NEW h \in 0 .. n - 1, ~W[h].occupied, NEW j \in 0 .. n - 1, W[j].occupied,
           NEW V, V[h] = W[j], V[j] = Empty,
           \A p \in 0 .. n - 1 : p # h /\ p # j => V[p] = W[p]
    PROVE  Matches(V, n, c)
<1>1. ~V[j].occupied
  BY DEF Empty
<1>2. ASSUME NEW p \in 0 .. n - 1, V[p].occupied
      PROVE  V[p].key \in DOMAIN c /\ c[V[p].key] = V[p].value
  <2>1. \E q \in 0 .. n - 1 : V[p] = W[q]
    BY <1>1, <1>2
  <2> QED
    BY <1>2, <2>1 DEF Matches
<1>3. ASSUME NEW x \in DOMAIN c
      PROVE  \E p \in 0 .. n - 1 : V[p].occupied /\ V[p].key = x
  <2>1. PICK p \in 0 .. n - 1 : W[p].occupied /\ W[p].key = x
    BY DEF Matches
  <2>2. p # h
    BY <2>1
  <2>3. CASE p = j
    BY <2>1, <2>3
  <2>4. CASE p # j
    BY <2>1, <2>2, <2>4
  <2> QED
    BY <2>3, <2>4
<1> QED
  BY <1>2, <1>3 DEF Matches

\* The states of the walk.
Walks(n) == [table : Tables(n), hole : 0 .. n - 1, over : BOOLEAN]

\* One slot of the walk, case by case.
LEMMA ShiftCases ==
    ASSUME NEW n \in Nat \ {0}, NEW w \in Walks(n), NEW j \in 0 .. n - 1
    PROVE  /\ Shift(w, j, n) \in Walks(n)
           /\ w.over \/ ~w.table[j].occupied =>
                Shift(w, j, n).over /\ Shift(w, j, n).table = w.table
           /\ ~w.over /\ w.table[j].occupied
                /\ ~should_move(w.hole, j, Natural(w.table[j].key, n)) => Shift(w, j, n) = w
           /\ ~w.over /\ w.table[j].occupied /\ w.hole # j
                /\ should_move(w.hole, j, Natural(w.table[j].key, n)) =>
                /\ ~Shift(w, j, n).over /\ Shift(w, j, n).hole = j
                /\ Shift(w, j, n).table[w.hole] = w.table[j]
                /\ Shift(w, j, n).table[j] = Empty
                /\ \A p \in 0 .. n - 1 :
                      p # w.hole /\ p # j => Shift(w, j, n).table[p] = w.table[p]
<1> DEFINE W == w.table
           h == w.hole
           e == W[j]
           V == [W EXCEPT ![h] = e, ![j] = Empty]
           over == [w EXCEPT !.over = TRUE]
           moved == [w EXCEPT !.table = V, !.hole = j]
<1>1. W \in Tables(n) /\ h \in 0 .. n - 1 /\ w.over \in BOOLEAN
  BY DEF Walks
<1>2. e \in SlotValues /\ Empty \in SlotValues
  BY <1>1 DEF Tables, SlotValues
<1>3. over \in Walks(n) /\ over.over /\ over.table = W
  BY DEF Walks
<1>4. Shift(w, j, n) =
        IF w.over \/ ~e.occupied THEN over
        ELSE IF should_move(h, j, Natural(e.key, n)) THEN moved ELSE w
  BY DEF Shift
<1> HIDE DEF W, h, e
<1>5. V \in Tables(n) /\ V[j] = Empty /\ (h # j => V[h] = e)
        /\ \A p \in 0 .. n - 1 : p # h /\ p # j => V[p] = W[p]
  BY <1>1, <1>2 DEF Tables
<1> HIDE DEF V
<1>6. moved \in Walks(n) /\ moved.table = V /\ moved.hole = j /\ moved.over = w.over
  BY <1>5 DEF Walks
<1> HIDE DEF over, moved
<1>7. Shift(w, j, n) \in Walks(n)
  BY <1>3, <1>4, <1>6
<1>8. w.over \/ ~e.occupied => Shift(w, j, n).over /\ Shift(w, j, n).table = W
  BY <1>3, <1>4
<1>9. ~w.over /\ e.occupied /\ ~should_move(h, j, Natural(e.key, n)) => Shift(w, j, n) = w
  BY <1>4
<1>10. ASSUME ~w.over, e.occupied, h # j, should_move(h, j, Natural(e.key, n))
       PROVE  /\ ~Shift(w, j, n).over /\ Shift(w, j, n).hole = j
              /\ Shift(w, j, n).table[h] = e /\ Shift(w, j, n).table[j] = Empty
              /\ \A p \in 0 .. n - 1 :
                    p # h /\ p # j => Shift(w, j, n).table[p] = W[p]
  <2>1. Shift(w, j, n) = moved
    BY <1>4, <1>10
  <2> QED
    BY <1>5, <1>6, <1>10, <2>1
<1> QED
  BY <1>7, <1>8, <1>9, <1>10 DEF W, h, e

\* The states of a walk from slot i of T.
WalkStart(T, i) == [table |-> [T EXCEPT ![i] = Empty], hole |-> i, over |-> FALSE]
WalksFrom(walk, T, n, i) ==
    /\ walk \in [0 .. n - 1 -> Walks(n)]
    /\ walk[0] = WalkStart(T, i)
    /\ \A d \in 1 .. n - 1 : walk[d] = Shift(walk[d - 1], Cyclic(i + d, n), n)

\* A removal goes through such states.
LEMMA RemoveRuns ==
    ASSUME NEW n \in Nat \ {0}, NEW T \in Tables(n), NEW i \in 0 .. n - 1
    PROVE  \E walk : WalksFrom(walk, T, n, i) /\ Erased(T, n, i) = walk[n - 1].table
<1> DEFINE N == n - 1
           S == Walks(n)
           start == WalkStart(T, i)
           Step(w, d) == Shift(w, Cyclic(i + d, n), n)
           G == [p \in S \X (1 .. N) |-> Step(p[1], p[2])]
           Eq(f) == f = [d \in 0 .. N |-> IF d = 0 THEN start ELSE Step(f[d - 1], d)]
<1>1. start \in S
  <2>1. [T EXCEPT ![i] = Empty] \in Tables(n)
    BY DEF Tables, SlotValues
  <2> QED
    BY <2>1 DEF Walks, WalkStart
<1>2. ASSUME NEW w \in S, NEW d \in 1 .. N
      PROVE  Step(w, d) \in S
  <2>1. d \in 0 .. n - 1
    OBVIOUS
  <2>2. Cyclic(i + d, n) \in 0 .. n - 1
    BY <2>1, NextAhead
  <2> QED
    BY <2>2, ShiftCases
<1>3. G \in [S \X (1 .. N) -> S]
  BY <1>2
<1>4. Erased(T, n, i) = (CHOOSE f : Eq(f))[N].table
  BY DEF Erased, WalkStart
<1>0. N \in Nat
  OBVIOUS
<1> HIDE DEF S, N, start, Step
<1>5. PICK g \in [0 .. N -> S] : Runs(g, N, start, G)
  <2> HIDE DEF G
  <2> QED
    BY <1>0, <1>1, <1>3, RecursionExists
<1>6. g[0] = start /\ \A d \in 1 .. N : g[d] = Step(g[d - 1], d)
  <2>1. ASSUME NEW d \in 1 .. N
        PROVE  g[d] = Step(g[d - 1], d)
    <3>1. g[d - 1] \in S
      BY <1>0, <1>5
    <3>2. G[<<g[d - 1], d>>] = Step(g[d - 1], d)
      BY <3>1
    <3> QED
      BY <1>5, <3>2 DEF Runs
  <2> QED
    BY <1>5, <2>1 DEF Runs
<1> HIDE DEF G
<1>7. Eq(g)
  <2> DEFINE h == [d \in 0 .. N |-> IF d = 0 THEN start ELSE Step(g[d - 1], d)]
  <2>1. \A d \in 0 .. N : h[d] = g[d]
    <3> TAKE d \in 0 .. N
    <3>1. CASE d = 0
      BY <1>6, <3>1
    <3>2. CASE d # 0
      <4>1. d \in 1 .. N
        BY <1>0, <3>2
      <4> QED
        BY <1>6, <3>2, <4>1
    <3> QED
      BY <3>1, <3>2
  <2>2. DOMAIN h = 0 .. N /\ h = [d \in DOMAIN h |-> h[d]]
    OBVIOUS
  <2>3. DOMAIN g = 0 .. N /\ g = [d \in DOMAIN g |-> g[d]]
    BY <1>5
  <2> HIDE DEF h
  <2>4. h = g
    BY <2>1, <2>2, <2>3
  <2> QED
    BY <2>4 DEF h
<1> DEFINE walk == CHOOSE f : Eq(f)
<1>8. Eq(walk)
  BY <1>7
<1>9. Erased(T, n, i) = walk[N].table
  BY <1>4
<1> HIDE DEF walk
<1>10. walk[0] = start /\ \A d \in 1 .. N : walk[d] = Step(walk[d - 1], d)
  <2>1. \A d \in 0 .. N : walk[d] = IF d = 0 THEN start ELSE Step(walk[d - 1], d)
    BY <1>8
  <2>2. 0 \in 0 .. N /\ \A d \in 1 .. N : d \in 0 .. N /\ d # 0
    BY <1>0
  <2> QED
    BY <2>1, <2>2
<1>11. \A d \in 0 .. N : walk[d] \in S
  <2> DEFINE I == {d \in 0 .. N : walk[d] \in S}
  <2>1. 0 \in I
    BY <1>0, <1>1, <1>10
  <2>2. ASSUME NEW d \in 0 .. N - 1, d \in I
        PROVE  d + 1 \in I
    <3>1. d + 1 \in 1 .. N /\ d + 1 \in 0 .. N /\ (d + 1) - 1 = d
      BY <1>0
    <3>2. walk[d + 1] = Step(walk[d], d + 1) /\ walk[d] \in S
      BY <1>10, <2>2, <3>1
    <3>3. walk[d + 1] \in S
      BY <1>2, <3>1, <3>2
    <3> QED
      BY <3>1, <3>3
  <2> HIDE DEF I
  <2>3. 0 .. N \subseteq I
    BY <1>0, <2>1, <2>2, IntervalInduction
  <2> QED
    BY <2>3 DEF I
<1>12. walk \in [0 .. N -> S]
  BY <1>8, <1>11
<1> QED
  BY <1>9, <1>10, <1>12 DEF WalksFrom, S, N, start, Step

\* What holds of a walk that has passed d slots.
WalkHolds(w, n, i, c, d) ==
    /\ Matches(w.table, n, c)
    /\ IF w.over THEN Sound(w.table, n) ELSE Walking(w.table, n, i, w.hole, d)

\* One slot of the walk keeps it.
LEMMA ShiftHolds ==
    ASSUME NEW n \in Nat \ {0}, NEW i \in 0 .. n - 1, NEW c, NEW w \in Walks(n),
           NEW d \in Nat, d + 1 \in 0 .. n - 1, WalkHolds(w, n, i, c, d)
    PROVE  WalkHolds(Shift(w, Cyclic(i + (d + 1), n), n), n, i, c, d + 1)
<1> DEFINE j == Cyclic(i + (d + 1), n)
           W == w.table
           h == w.hole
           v == Shift(w, j, n)
           V == v.table
<1>1. j \in 0 .. n - 1 /\ Ahead(i, j, n) = d + 1
  BY NextAhead
<1>2. d \in 0 .. n - 1 /\ h \in 0 .. n - 1 /\ W \in Tables(n) /\ w.over \in BOOLEAN
  BY DEF Walks
<1> HIDE DEF j
<1>3. Matches(W, n, c)
  BY DEF WalkHolds
<1>4. CASE w.over
  <2>1. v.over /\ V = W
    BY <1>1, <1>4, ShiftCases
  <2> HIDE DEF v
  <2>2. Sound(W, n)
    BY <1>4 DEF WalkHolds
  <2> QED
    BY <1>3, <2>1, <2>2 DEF WalkHolds, v, j
<1>5. CASE ~w.over /\ ~W[j].occupied
  <2>1. v.over /\ V = W
    BY <1>1, <1>5, ShiftCases
  <2> HIDE DEF v
  <2>2. Walking(W, n, i, h, d)
    BY <1>5 DEF WalkHolds
  <2> HIDE DEF W, h
  <2>3. Sound(W, n)
    BY <1>1, <1>2, <1>5, <2>2, WalkEnds
  <2> QED
    BY <1>3, <2>1, <2>3 DEF WalkHolds, v, j
<1>6. CASE ~w.over /\ W[j].occupied
  <2> DEFINE r == Natural(W[j].key, n)
  <2>1. Walking(W, n, i, h, d)
    BY <1>6 DEF WalkHolds
  <2>2. h # j /\ ~W[h].occupied
    BY <1>1, <1>6, <2>1 DEF Walking
  <2>3. r \in 0 .. n - 1
    BY <1>1, <1>2, <1>6, SlotFacts, NaturalRange
  <2>4. should_move(h, j, r) <=> InArc(h, r, j)
    <3> HIDE DEF r, h
    <3> QED
      BY <1>1, <1>2, <2>2, <2>3, ShouldMove
  <2>5. CASE ~should_move(h, j, r)
    <3>1. v = w
      BY <1>1, <1>6, <2>5, ShiftCases
    <3>2. Walking(W, n, i, h, d + 1)
      <4> HIDE DEF W, h
      <4> QED
        BY <1>1, <1>2, <1>6, <2>1, <2>4, <2>5, WalkPasses
    <3> HIDE DEF v
    <3> QED
      BY <1>3, <1>6, <3>1, <3>2 DEF WalkHolds, v, j
  <2>6. CASE should_move(h, j, r)
    <3>1. /\ ~v.over /\ v.hole = j /\ V[h] = W[j] /\ V[j] = Empty
          /\ \A p \in 0 .. n - 1 : p # h /\ p # j => V[p] = W[p]
      BY <1>1, <1>6, <2>2, <2>6, ShiftCases
    <3>2. V \in Tables(n)
      <4>1. v \in Walks(n)
        BY <1>1, ShiftCases
      <4> HIDE DEF v
      <4> QED
        BY <4>1 DEF Walks
    <3> HIDE DEF v, V, W, h
    <3>3. Walking(V, n, i, j, d + 1)
      BY <1>1, <1>2, <1>6, <2>1, <2>4, <2>6, <3>1, <3>2, WalkMoves
    <3>4. Matches(V, n, c)
      BY <1>1, <1>2, <1>3, <1>6, <2>2, <3>1, MovedMatches
    <3> QED
      BY <3>1, <3>3, <3>4 DEF WalkHolds, v, j, V
  <2> QED
    BY <2>5, <2>6
<1> QED
  BY <1>4, <1>5, <1>6

\* A removal takes one key out and leaves every other entry where its probe
\* finds it.
LEMMA ErasedSound ==
    ASSUME NEW n \in Nat \ {0}, NEW T, Sound(T, n), NEW c, Matches(T, n, c),
           NEW i \in 0 .. n - 1, T[i].occupied, NEW f \in 0 .. n - 1, ~T[f].occupied
    PROVE  Sound(Erased(T, n, i), n) /\ Matches(Erased(T, n, i), n, Without(c, T[i].key))
<1> DEFINE b == Without(c, T[i].key)
<1>1. PICK walk : WalksFrom(walk, T, n, i) /\ Erased(T, n, i) = walk[n - 1].table
  BY RemoveRuns DEF Sound
<1> DEFINE I == {d \in 0 .. n - 1 : WalkHolds(walk[d], n, i, b, d)}
<1>2. 0 \in I
  <2> DEFINE W == [T EXCEPT ![i] = Empty]
  <2>1. Walking(W, n, i, i, 0) /\ Matches(W, n, b)
    BY WalkStarts, TakenMatches
  <2> HIDE DEF W, b
  <2>2. WalkHolds([table |-> W, hole |-> i, over |-> FALSE], n, i, b, 0)
    BY <2>1 DEF WalkHolds
  <2>3. walk[0] = [table |-> W, hole |-> i, over |-> FALSE]
    BY <1>1 DEF WalksFrom, WalkStart, W
  <2> QED
    BY <2>2, <2>3
<1> HIDE DEF b
<1>3. ASSUME NEW d \in 0 .. (n - 1) - 1, d \in I
      PROVE  d + 1 \in I
  <2>1. d \in Nat /\ d + 1 \in 1 .. n - 1 /\ d + 1 \in 0 .. n - 1 /\ (d + 1) - 1 = d /\ d \in 0 .. n - 1
    OBVIOUS
  <2>2. walk[d + 1] = Shift(walk[d], Cyclic(i + (d + 1), n), n) /\ walk[d] \in Walks(n)
    BY <1>1, <2>1 DEF WalksFrom
  <2>3. WalkHolds(walk[d], n, i, b, d)
    BY <1>3
  <2>4. WalkHolds(Shift(walk[d], Cyclic(i + (d + 1), n), n), n, i, b, d + 1)
    BY <2>1, <2>2, <2>3, ShiftHolds
  <2> QED
    BY <2>1, <2>2, <2>4
<1> HIDE DEF I
<1>4. n - 1 \in Nat
  OBVIOUS
<1>5. 0 .. n - 1 \subseteq I
  BY <1>2, <1>3, <1>4, IntervalInduction
<1>6. WalkHolds(walk[n - 1], n, i, b, n - 1)
  BY <1>4, <1>5 DEF I
<1>7. ~Walking(walk[n - 1].table, n, i, walk[n - 1].hole, n - 1)
  <2>1. \A p \in 0 .. n - 1 : ~(Ahead(i, p, n) > n - 1)
    BY DEF Ahead
  <2> QED
    BY <2>1 DEF Walking
<1> QED
  BY <1>1, <1>6, <1>7 DEF WalkHolds, b

-----------------------------------------------------------------------------
(* The map.                                                                *)

(***************************************************************************)
(* The inductive invariant: the table is sound, its entries are the pairs  *)
(* that were put and not taken out, and fewer than its slots, so that a    *)
(* probe ends.                                                             *)
(***************************************************************************)
MapInv ==
    /\ capacity \in Nat
    /\ Sound(slots, capacity)
    /\ Matches(slots, capacity, contents)
    /\ DOMAIN contents \subseteq MapKeys
    /\ IsFiniteSet(DOMAIN contents)
    /\ count = Cardinality(DOMAIN contents)
    /\ IF capacity = 0 THEN count = 0 ELSE count < capacity

\* 70% of a table is less than the table (hashmap_needs_grow).
LEMMA LoadBelowCapacity ==
    ASSUME NEW n \in Nat \ {0}
    PROVE  (n \div 10) * 7 + ((n % 10) * 7) \div 10 < n
OBVIOUS

\* A probe of the map's own table stops.
LEMMA MapProbeStops ==
    ASSUME MapInv, capacity # 0, NEW k \in MapKeys
    PROVE  /\ StopsAt(slots, capacity, k, ProbeStop(slots, capacity, k))
           /\ \E f \in 0 .. capacity - 1 : ~slots[f].occupied
<1> DEFINE D == DOMAIN contents
<1>1. capacity \in Nat \ {0} /\ slots \in Tables(capacity) /\ Distinct(slots, capacity)
  BY DEF MapInv, Sound
<1>2. IsFiniteSet(D) /\ Cardinality(D) < capacity
  BY DEF MapInv
<1>3. \A i \in 0 .. capacity - 1 : slots[i].occupied => slots[i].key \in D
  BY DEF MapInv, Matches
<1> HIDE DEF D
<1>4. PICK f \in 0 .. capacity - 1 : ~slots[f].occupied
  BY <1>1, <1>2, <1>3, FreeSlot
<1> QED
  BY <1>1, <1>4, ProbeStops

\* The invariant gives the property.
LEMMA MapInvAnswers ==
    ASSUME MapInv
    PROVE  HashMapIsAMap
<1>1. ASSUME NEW k \in MapKeys
      PROVE  /\ hashmap_contains(k) <=> k \in DOMAIN contents
             /\ k \in DOMAIN contents => hashmap_get(k) = contents[k]
  <2> DEFINE s == ProbeStop(slots, capacity, k)
  <2>1. CASE capacity = 0
    <3>1. DOMAIN contents = {}
      <4>1. \A x \in DOMAIN contents : \E i \in 0 .. capacity - 1 : slots[i].key = x
        BY DEF MapInv, Matches
      <4>2. 0 .. capacity - 1 = {}
        BY <2>1
      <4> QED
        BY <4>1, <4>2
    <3> QED
      BY <2>1, <3>1 DEF hashmap_contains
  <2>2. CASE capacity # 0
    <3>1. StopsAt(slots, capacity, k, s) /\ Sound(slots, capacity)
            /\ Matches(slots, capacity, contents) /\ capacity \in Nat \ {0}
      BY <2>2, MapProbeStops DEF MapInv
    <3>2. hashmap_contains(k) <=> slots[s].occupied
      BY <2>2 DEF hashmap_contains
    <3>3. hashmap_contains(k) => hashmap_get(k) = slots[s].value
      BY DEF hashmap_get
    <3> HIDE DEF s
    <3>4. slots[s].occupied => k \in DOMAIN contents /\ contents[k] = slots[s].value
      BY <3>1 DEF StopsAt, Matches
    <3>5. ASSUME k \in DOMAIN contents
          PROVE  slots[s].occupied
      <4>1. PICK i \in 0 .. capacity - 1 : slots[i].occupied /\ slots[i].key = k
        BY <3>1, <3>5 DEF Matches
      <4>2. s = i
        BY <3>1, <4>1, ProbeFinds
      <4> QED
        BY <4>1, <4>2
    <3> QED
      BY <3>2, <3>3, <3>4, <3>5
  <2> QED
    BY <2>1, <2>2
<1>2. count = Cardinality(DOMAIN contents)
  BY DEF MapInv
<1> QED
  BY <1>1, <1>2 DEF HashMapIsAMap

\* An empty map satisfies it.
LEMMA EmptyMap ==
    ASSUME NEW n \in Nat
    PROVE  /\ Sound(AllEmpty(n), n) /\ Matches(AllEmpty(n), n, <<>>)
           /\ DOMAIN <<>> = {} /\ IsFiniteSet(DOMAIN <<>>) /\ Cardinality(DOMAIN <<>>) = 0
<1>1. DOMAIN <<>> = {}
  OBVIOUS
<1>2. Sound(AllEmpty(n), n) /\ \A i \in 0 .. n - 1 : ~AllEmpty(n)[i].occupied
  BY EmptySound
<1>3. Matches(AllEmpty(n), n, <<>>)
  BY <1>1, <1>2 DEF Matches
<1> QED
  BY <1>1, <1>2, <1>3, FS_EmptySet

\* A put keeps it.
LEMMA PutKeepsInv ==
    ASSUME MapInv, NEW k \in MapKeys, NEW v \in MapValues, hashmap_put(k, v)
    PROVE  MapInv'
<1> DEFINE table == IF hashmap_needs_grow THEN hashmap_grow ELSE slots
           n == IF hashmap_needs_grow THEN next_capacity ELSE capacity
           s == ProbeStop(table, n, k)
           D == DOMAIN contents
<1>1. /\ slots' = [table EXCEPT ![s] = Entry(k, v)]
      /\ capacity' = n
      /\ count' = IF table[s].occupied THEN count ELSE count + 1
      /\ contents' = Updated(contents, k, v)
  BY DEF hashmap_put, Updated
<1>2. D \subseteq MapKeys /\ IsFiniteSet(D) /\ count = Cardinality(D)
  BY DEF MapInv
<1>3. count \in Nat
  BY <1>2, FS_CardinalityType
<1>4. n \in Nat \ {0} /\ count + 1 < n
  <2>1. CASE capacity = 0
    <3>1. hashmap_needs_grow /\ next_capacity = HASHMAP_MIN_CAPACITY /\ count = 0
      BY <2>1 DEF hashmap_needs_grow, next_capacity, MapInv
    <3> QED
      BY <3>1, HashMapAssumption
  <2>2. CASE capacity # 0 /\ hashmap_needs_grow
    <3>1. capacity \in Nat /\ count < capacity /\ n = 2 * capacity
      BY <2>2 DEF next_capacity, MapInv
    <3> HIDE DEF n
    <3> QED
      BY <1>3, <2>2, <3>1
  <2>3. CASE capacity # 0 /\ ~hashmap_needs_grow
    <3>1. capacity \in Nat \ {0} /\ n = capacity
      BY <2>3 DEF MapInv
    <3>2. ~(count + 1 > (capacity \div 10) * 7 + ((capacity % 10) * 7) \div 10)
      BY <2>3 DEF hashmap_needs_grow
    <3> HIDE DEF n
    <3> DEFINE load == (capacity \div 10) * 7 + ((capacity % 10) * 7) \div 10
    <3>3. load < capacity
      BY <3>1, LoadBelowCapacity
    <3>4. load \in Int
      BY <3>1
    <3>5. ~(count + 1 > load)
      BY <3>2
    <3> HIDE DEF load
    <3> QED
      BY <1>3, <3>1, <3>3, <3>4, <3>5
  <2> QED
    BY <2>1, <2>2, <2>3
<1>5. Sound(table, n) /\ Matches(table, n, contents)
  <2>1. CASE hashmap_needs_grow
    <3>1. table = Rehashed(slots, capacity, n)
      BY <2>1 DEF hashmap_grow
    <3>2. capacity \in Nat /\ Sound(slots, capacity) /\ Matches(slots, capacity, contents)
      BY DEF MapInv
    <3>3. Cardinality(DOMAIN contents) < n
      <4> HIDE DEF n
      <4> QED
        BY <1>2, <1>3, <1>4
    <3> HIDE DEF n, table
    <3> QED
      BY <1>2, <1>4, <3>1, <3>2, <3>3, RehashedSound
  <2>2. CASE ~hashmap_needs_grow
    BY <2>2 DEF MapInv
  <2> QED
    BY <2>1, <2>2
<1> HIDE DEF table, n
<1>6. StopsAt(table, n, k, s)
  <2>1. Distinct(table, n) /\ table \in Tables(n)
    BY <1>5 DEF Sound
  <2>2. \A i \in 0 .. n - 1 : table[i].occupied => table[i].key \in D
    BY <1>5 DEF Matches
  <2>3. Cardinality(D) < n
    BY <1>2, <1>3, <1>4
  <2> HIDE DEF D
  <2>4. PICK f \in 0 .. n - 1 : ~table[f].occupied
    BY <1>2, <1>4, <2>1, <2>2, <2>3, FreeSlot
  <2> QED
    BY <1>4, <2>1, <2>4, ProbeStops
<1> HIDE DEF s
<1>7. /\ Sound([table EXCEPT ![s] = Entry(k, v)], n)
      /\ Matches([table EXCEPT ![s] = Entry(k, v)], n, Updated(contents, k, v))
      /\ table[s].occupied <=> k \in D
  BY <1>4, <1>5, <1>6, PutMatches
<1>8. DOMAIN Updated(contents, k, v) = D \cup {k}
  BY DEF Updated
<1>9. /\ IsFiniteSet(D \cup {k})
      /\ Cardinality(D \cup {k}) = IF k \in D THEN Cardinality(D) ELSE Cardinality(D) + 1
  <2> HIDE DEF D
  <2> QED
    BY <1>2, FS_AddElement
<1>10. count' = Cardinality(D \cup {k}) /\ count' < n
  <2>1. count' = IF k \in D THEN count ELSE count + 1
    BY <1>1, <1>7
  <2>2. count' < n
    BY <1>3, <1>4, <2>1
  <2>3. count' = Cardinality(D \cup {k})
    BY <1>2, <1>9, <2>1
  <2> QED
    BY <2>2, <2>3
<1> HIDE DEF D
<1>11. n # 0 /\ n \in Nat /\ D \cup {k} \subseteq MapKeys
  BY <1>2, <1>4
<1>12. DOMAIN contents' = D \cup {k}
  BY <1>1, <1>8
<1> QED
  BY <1>1, <1>7, <1>9, <1>10, <1>11, <1>12 DEF MapInv

\* A removal keeps it.
LEMMA RemoveKeepsInv ==
    ASSUME MapInv, NEW k \in MapKeys, hashmap_remove(k)
    PROVE  MapInv'
<1> DEFINE n == capacity
           s == ProbeStop(slots, n, k)
           D == DOMAIN contents
<1>1. /\ n # 0 /\ slots[s].occupied
      /\ slots' = Erased(slots, n, s)
      /\ count' = count - 1
      /\ contents' = Without(contents, k)
      /\ capacity' = n
  BY DEF hashmap_remove, hashmap_contains, Without
<1>2. /\ n \in Nat \ {0} /\ Sound(slots, n) /\ Matches(slots, n, contents)
      /\ D \subseteq MapKeys /\ IsFiniteSet(D) /\ count = Cardinality(D) /\ count < n
  BY <1>1 DEF MapInv
<1>3. StopsAt(slots, n, k, s) /\ \E f \in 0 .. n - 1 : ~slots[f].occupied
  BY <1>1, MapProbeStops
<1> HIDE DEF s
<1>4. s \in 0 .. n - 1 /\ slots[s].key = k
  BY <1>1, <1>3 DEF StopsAt
<1>5. PICK f \in 0 .. n - 1 : ~slots[f].occupied
  BY <1>3
<1>6. Sound(Erased(slots, n, s), n) /\ Matches(Erased(slots, n, s), n, Without(contents, k))
  <2>1. /\ Sound(Erased(slots, n, s), n)
        /\ Matches(Erased(slots, n, s), n, Without(contents, slots[s].key))
    <3> HIDE DEF n
    <3> QED
      BY <1>1, <1>2, <1>4, <1>5, ErasedSound
  <2> QED
    BY <1>4, <2>1
<1>7. k \in D
  BY <1>1, <1>2, <1>4 DEF Matches
<1>8. DOMAIN Without(contents, k) = D \ {k}
  BY DEF Without
<1>9. IsFiniteSet(D \ {k}) /\ Cardinality(D \ {k}) = Cardinality(D) - 1
  <2> HIDE DEF D
  <2> QED
    BY <1>2, <1>7, FS_RemoveElement
<1>10. count \in Nat
  BY <1>2, FS_CardinalityType
<1>11. count' = Cardinality(D \ {k}) /\ count' < n
  BY <1>1, <1>2, <1>9, <1>10
<1> HIDE DEF D
<1>12. DOMAIN contents' = D \ {k} /\ D \ {k} \subseteq MapKeys
  BY <1>1, <1>2, <1>8
<1> QED
  BY <1>1, <1>2, <1>6, <1>9, <1>11, <1>12 DEF MapInv

\* Every call keeps it.
THEOREM MapInductive ==
    MapInv /\ [MapNext]_mapVars => MapInv'
<1> SUFFICES ASSUME MapInv, [MapNext]_mapVars
             PROVE  MapInv'
  OBVIOUS
<1>1. ASSUME NEW k \in MapKeys, NEW v \in MapValues, hashmap_put(k, v)
      PROVE  MapInv'
  BY <1>1, PutKeepsInv
<1>2. ASSUME NEW k \in MapKeys, hashmap_remove(k)
      PROVE  MapInv'
  BY <1>2, RemoveKeepsInv
<1>3. CASE hashmap_clear
  <2>1. /\ capacity \in Nat /\ capacity # 0 /\ capacity' = capacity
        /\ slots' = AllEmpty(capacity) /\ count' = 0 /\ contents' = <<>>
    BY <1>3 DEF hashmap_clear, MapInv
  <2>2. /\ Sound(AllEmpty(capacity), capacity) /\ Matches(AllEmpty(capacity), capacity, <<>>)
        /\ DOMAIN <<>> = {} /\ IsFiniteSet(DOMAIN <<>>) /\ Cardinality(DOMAIN <<>>) = 0
    BY <2>1, EmptyMap
  <2>3. 0 < capacity
    BY <2>1
  <2> QED
    BY <2>1, <2>2, <2>3 DEF MapInv
<1>4. CASE hashmap_free
  <2>1. capacity' = 0 /\ slots' = AllEmpty(0) /\ count' = 0 /\ contents' = <<>>
    BY <1>4 DEF hashmap_free
  <2>2. /\ Sound(AllEmpty(0), 0) /\ Matches(AllEmpty(0), 0, <<>>)
        /\ DOMAIN <<>> = {} /\ IsFiniteSet(DOMAIN <<>>) /\ Cardinality(DOMAIN <<>>) = 0
    BY EmptyMap
  <2> QED
    BY <2>1, <2>2 DEF MapInv
<1>5. CASE UNCHANGED mapVars
  BY <1>5 DEF mapVars, MapInv
<1> QED
  BY <1>1, <1>2, <1>3, <1>4, <1>5 DEF MapNext

\* The invariant holds in every state of every behaviour.
THEOREM MapInvariance == MapSpec => []MapInv
<1>1. hashmap_init => MapInv
  <2>1. /\ Sound(AllEmpty(0), 0) /\ Matches(AllEmpty(0), 0, <<>>)
        /\ DOMAIN <<>> = {} /\ IsFiniteSet(DOMAIN <<>>) /\ Cardinality(DOMAIN <<>>) = 0
    BY EmptyMap
  <2> QED
    BY <2>1 DEF hashmap_init, MapInv
<1> QED
  BY <1>1, MapInductive, PTL DEF MapSpec

\* A lookup finds exactly what was put and not taken out, for every set of
\* keys, every hash, every order of puts, removals, growths and clears
\* (hashmap_get, hashmap_contains, hashmap_put, hashmap_remove).
THEOREM MapCorrect == MapSpec => []HashMapIsAMap
<1>1. MapInv => HashMapIsAMap
  BY MapInvAnswers
<1> QED
  BY <1>1, MapInvariance, PTL

-----------------------------------------------------------------------------
(* The string pool: buffers and probes.                                    *)

\* The blocks of a buffer: the empty string at 0 and no string twice.
Blocks(buf) ==
    /\ DOMAIN buf \subseteq Nat /\ 0 \in DOMAIN buf
    /\ \A o \in DOMAIN buf : buf[o] \in Strings /\ (buf[o] = EmptyString <=> o = 0)
    /\ \A a, b \in DOMAIN buf : buf[a] = buf[b] => a = b

\* The offsets a table may hold.
Offsets(buf) == DOMAIN buf \ {0}
OffsetTables(n, buf) == [0 .. n - 1 -> Offsets(buf) \cup {POOL_EMPTY}]

OffsetsDistinct(T, n) ==
    \A i, j \in 0 .. n - 1 : T[i] # POOL_EMPTY /\ T[i] = T[j] => i = j
OffsetsReached(T, n, buf) ==
    \A i, m \in 0 .. n - 1 :
        T[i] # POOL_EMPTY /\ InArc(m, Home(buf[T[i]], n), i) => T[m] # POOL_EMPTY
SoundOffsets(T, n, buf) ==
    T \in OffsetTables(n, buf) /\ OffsetsDistinct(T, n) /\ OffsetsReached(T, n, buf)

\* The slot x is where a probe for s stops.
StringStopsAt(T, n, buf, s, x) ==
    /\ x \in 0 .. n - 1
    /\ T[x] # POOL_EMPTY => buf[T[x]] = s
    /\ \A m \in 0 .. n - 1 :
          InArc(m, Home(s, n), x) => T[m] # POOL_EMPTY /\ buf[T[m]] # s

\* A string hashes to a slot of the table.
LEMMA HomeRange ==
    ASSUME NEW n \in Nat \ {0}, NEW s \in Strings
    PROVE  Home(s, n) \in 0 .. n - 1
<1>1. hash_bytes[s] \in Nat
  BY StringPoolAssumption
<1> QED
  BY <1>1, RemainderRange DEF Home

\* What a slot holds.
LEMMA OffsetFacts ==
    ASSUME NEW n \in Nat, NEW buf, Blocks(buf), NEW T \in OffsetTables(n, buf),
           NEW i \in 0 .. n - 1, T[i] # POOL_EMPTY
    PROVE  /\ T[i] \in Offsets(buf) /\ T[i] \in DOMAIN buf /\ T[i] # 0 /\ T[i] \in Nat
           /\ buf[T[i]] \in Strings /\ buf[T[i]] # EmptyString
<1>1. T[i] \in Offsets(buf)
  BY DEF OffsetTables
<1> QED
  BY <1>1 DEF Offsets, Blocks

\* An offset is never the mark of an empty slot.
LEMMA OffsetNotEmpty ==
    ASSUME NEW o \in Nat
    PROVE  o # POOL_EMPTY
BY DEF POOL_EMPTY

\* In a table with an empty slot a probe stops.
LEMMA StringProbeStops ==
    ASSUME NEW n \in Nat \ {0}, NEW T, NEW s \in Strings,
           NEW f \in 0 .. n - 1, T[f] = POOL_EMPTY
    PROVE  StringStopsAt(T, n, buffer, s, find_slot(T, n, s))
<1> DEFINE r == Home(s, n)
           At(d) == (r + d) % n
           Stops(d) == T[At(d)] = POOL_EMPTY \/ buffer[T[At(d)]] = s
           First(d) == Stops(d) /\ \A c \in 0 .. d - 1 : ~Stops(c)
           S == {d \in 0 .. n - 1 : Stops(d)}
           x == CHOOSE d \in 0 .. n - 1 : First(d)
<1>1. r \in 0 .. n - 1
  BY HomeRange
<1>2. find_slot(T, n, s) = At(x)
  BY DEF find_slot
<1> HIDE DEF r
<1>0. \A d \in 0 .. n - 1 : At(d) = IF r + d < n THEN r + d ELSE r + d - n
  BY <1>1, CyclicValue DEF Cyclic
<1> HIDE DEF At
<1>3. \A m \in 0 .. n - 1 : \E d \in 0 .. n - 1 :
        /\ At(d) = m
        /\ d = IF r <= m THEN m - r ELSE m - r + n
  <2> TAKE m \in 0 .. n - 1
  <2> DEFINE d == IF r <= m THEN m - r ELSE m - r + n
  <2>1. d \in 0 .. n - 1 /\ (IF r + d < n THEN r + d ELSE r + d - n) = m
    BY <1>1
  <2>3. d = IF r <= m THEN m - r ELSE m - r + n
    OBVIOUS
  <2> HIDE DEF d
  <2>2. At(d) = m
    BY <1>0, <2>1
  <2> QED
    BY <2>1, <2>2, <2>3
<1>4. S \subseteq Nat /\ S # {}
  <2>1. PICK d \in 0 .. n - 1 : At(d) = f
    BY <1>3
  <2> QED
    BY <2>1
<1>5. PICK d \in S : \A c \in S : d <= c
  <2> HIDE DEF S
  <2> QED
    BY <1>4, LeastOf
<1>6. d \in 0 .. n - 1 /\ First(d)
  BY <1>5
<1> HIDE DEF Stops
<1>7. x \in 0 .. n - 1 /\ First(x)
  BY <1>6
<1> HIDE DEF x
<1>8. At(x) = IF r + x < n THEN r + x ELSE r + x - n
  BY <1>0, <1>7
<1>9. At(x) \in 0 .. n - 1
  BY <1>1, <1>7, <1>8
<1>10. ASSUME NEW m \in 0 .. n - 1, InArc(m, r, At(x))
       PROVE  T[m] # POOL_EMPTY /\ buffer[T[m]] # s
  <2>1. PICK c \in 0 .. n - 1 :
          /\ At(c) = m
          /\ c = IF r <= m THEN m - r ELSE m - r + n
    BY <1>3
  <2>2. c \in 0 .. x - 1
    BY <1>1, <1>7, <1>8, <1>10, <2>1 DEF InArc
  <2>3. ~Stops(c)
    BY <1>7, <2>2
  <2> QED
    BY <2>1, <2>3 DEF Stops
<1>11. T[At(x)] # POOL_EMPTY => buffer[T[At(x)]] = s
  BY <1>7 DEF Stops
<1> QED
  BY <1>2, <1>9, <1>10, <1>11 DEF StringStopsAt, r

\* A probe stops at the string's block when the table has it.
LEMMA StringProbeFinds ==
    ASSUME NEW n \in Nat \ {0}, NEW buf, Blocks(buf), NEW T, SoundOffsets(T, n, buf),
           NEW s \in Strings, NEW x, StringStopsAt(T, n, buf, s, x),
           NEW i \in 0 .. n - 1, T[i] # POOL_EMPTY, buf[T[i]] = s
    PROVE  x = i
<1> DEFINE r == Home(s, n)
<1>1. r \in 0 .. n - 1
  BY HomeRange
<1>2. x \in 0 .. n - 1 /\ T \in OffsetTables(n, buf)
  BY DEF StringStopsAt, SoundOffsets
<1>3. ~InArc(i, r, x)
  BY DEF StringStopsAt
<1>4. InArc(x, r, i) => T[x] # POOL_EMPTY
  BY <1>2 DEF SoundOffsets, OffsetsReached
<1>5. T[x] # POOL_EMPTY => x = i
  <2>1. SUFFICES ASSUME T[x] # POOL_EMPTY PROVE x = i
    OBVIOUS
  <2>2. T[x] \in DOMAIN buf /\ T[i] \in DOMAIN buf
    BY <1>2, <2>1, OffsetFacts
  <2>3. buf[T[x]] = buf[T[i]]
    BY <2>1 DEF StringStopsAt
  <2>4. T[x] = T[i]
    BY <2>2, <2>3 DEF Blocks
  <2> QED
    BY <1>2, <2>1, <2>4 DEF SoundOffsets, OffsetsDistinct
<1> HIDE DEF r
<1> QED
  BY <1>1, <1>2, <1>3, <1>4, <1>5 DEF InArc

\* A table with fewer offsets than slots has an empty slot.
LEMMA EmptySlot ==
    ASSUME NEW n \in Nat \ {0}, NEW buf, Blocks(buf), NEW T \in OffsetTables(n, buf),
           OffsetsDistinct(T, n), IsFiniteSet(Offsets(buf)), Cardinality(Offsets(buf)) < n
    PROVE  \E f \in 0 .. n - 1 : T[f] = POOL_EMPTY
<1> SUFFICES ASSUME \A i \in 0 .. n - 1 : T[i] # POOL_EMPTY
             PROVE  FALSE
  OBVIOUS
<1> DEFINE I == 0 .. n - 1
           D == Offsets(buf)
<1>1. T \in [I -> D]
  BY DEF OffsetTables
<1>2. IsFiniteSet(I) /\ Cardinality(I) = n
  <2>1. 0 \in Int /\ n - 1 \in Int /\ ~(0 > n - 1) /\ (n - 1) - 0 + 1 = n
    OBVIOUS
  <2> QED
    BY <2>1, FS_Interval
<1>3. \A i, j \in I : T[i] = T[j] => i = j
  BY DEF OffsetsDistinct
<1>4. IsFiniteSet(D) /\ Cardinality(D) < n
  OBVIOUS
<1> HIDE DEF I, D
<1> QED
  BY <1>1, <1>2, <1>3, <1>4, FS_PigeonHole

\* An offset stored in the empty slot its string's probe stops at leaves the
\* table sound.
LEMMA StoreSound ==
    ASSUME NEW n \in Nat \ {0}, NEW buf, Blocks(buf), NEW T, SoundOffsets(T, n, buf),
           NEW o \in Offsets(buf), NEW x, StringStopsAt(T, n, buf, buf[o], x),
           T[x] = POOL_EMPTY
    PROVE  /\ SoundOffsets([T EXCEPT ![x] = o], n, buf)
           /\ x \in 0 .. n - 1 /\ [T EXCEPT ![x] = o][x] = o
           /\ \A i \in 0 .. n - 1 : i # x => [T EXCEPT ![x] = o][i] = T[i]
<1> DEFINE U == [T EXCEPT ![x] = o]
<1>1. x \in 0 .. n - 1 /\ T \in OffsetTables(n, buf)
  BY DEF StringStopsAt, SoundOffsets
<1>2. /\ U \in OffsetTables(n, buf) /\ U[x] = o
      /\ \A i \in 0 .. n - 1 : i # x => U[i] = T[i]
  BY <1>1 DEF OffsetTables
<1> HIDE DEF U
<1>3. o \in DOMAIN buf /\ buf[o] \in Strings /\ o # POOL_EMPTY
  BY OffsetNotEmpty DEF Offsets, Blocks
<1>4. ASSUME NEW j \in 0 .. n - 1, T[j] = o
      PROVE  FALSE
  <2>1. T[j] # POOL_EMPTY /\ buf[T[j]] = buf[o]
    BY <1>3, <1>4
  <2>2. x = j
    BY <1>3, <2>1, StringProbeFinds
  <2> QED
    BY <1>3, <1>4, <2>2
<1>5. OffsetsDistinct(U, n)
  <2> SUFFICES ASSUME NEW i \in 0 .. n - 1, NEW j \in 0 .. n - 1,
                      U[i] # POOL_EMPTY, U[i] = U[j]
               PROVE  i = j
    BY DEF OffsetsDistinct
  <2>1. CASE i = x /\ j # x
    BY <1>2, <1>4, <2>1
  <2>2. CASE i # x /\ j = x
    BY <1>2, <1>4, <2>2
  <2>3. CASE i # x /\ j # x
    BY <1>2, <2>3 DEF SoundOffsets, OffsetsDistinct
  <2> QED
    BY <2>1, <2>2, <2>3
<1>6. OffsetsReached(U, n, buf)
  <2> SUFFICES ASSUME NEW i \in 0 .. n - 1, NEW m \in 0 .. n - 1,
                      U[i] # POOL_EMPTY, InArc(m, Home(buf[U[i]], n), i)
               PROVE  U[m] # POOL_EMPTY
    BY DEF OffsetsReached
  <2>1. T[m] # POOL_EMPTY => U[m] # POOL_EMPTY
    BY <1>2, <1>3
  <2>2. CASE i = x
    <3>1. T[m] # POOL_EMPTY
      BY <1>2, <2>2 DEF StringStopsAt
    <3> QED
      BY <2>1, <3>1
  <2>3. CASE i # x
    <3>1. T[m] # POOL_EMPTY
      BY <1>2, <2>3 DEF SoundOffsets, OffsetsReached
    <3> QED
      BY <2>1, <3>1
  <2> QED
    BY <2>2, <2>3
<1> QED
  BY <1>1, <1>2, <1>5, <1>6 DEF SoundOffsets, U

\* An empty table is sound.
LEMMA NoStringsSound ==
    ASSUME NEW n \in Nat, NEW buf
    PROVE  SoundOffsets(NoStrings(n), n, buf) /\ \A i \in 0 .. n - 1 : NoStrings(n)[i] = POOL_EMPTY
<1>1. NoStrings(n) \in OffsetTables(n, buf)
  BY DEF NoStrings, OffsetTables
<1>2. \A i \in 0 .. n - 1 : NoStrings(n)[i] = POOL_EMPTY
  BY DEF NoStrings
<1> QED
  BY <1>1, <1>2 DEF SoundOffsets, OffsetsDistinct, OffsetsReached

-----------------------------------------------------------------------------
(* The string pool: a resize.                                              *)

\* What a resize to m slots does at slot i - 1 of the old table.
Reslotted(m, U, i) ==
    IF str_slots[i - 1] = POOL_EMPTY THEN U ELSE Reslot(U, m, str_slots[i - 1])

\* The tables on the way of a resize.
Reslots(fresh, m) ==
    /\ fresh \in [0 .. slot_count -> OffsetTables(m, buffer)]
    /\ fresh[0] = NoStrings(m)
    /\ \A i \in 1 .. slot_count : fresh[i] = Reslotted(m, fresh[i - 1], i)

\* A resize goes through such tables.
LEMMA ResizeRuns ==
    ASSUME slot_count \in Nat, NEW m \in Nat \ {0},
           str_slots \in OffsetTables(slot_count, buffer)
    PROVE  \E fresh : Reslots(fresh, m) /\ slots_resize(m) = fresh[slot_count]
<1> DEFINE n == slot_count
           S == OffsetTables(m, buffer)
           G == [p \in S \X (1 .. n) |-> Reslotted(m, p[1], p[2])]
           Eq(f) == f = [i \in 0 .. n |->
                           IF i = 0 THEN NoStrings(m) ELSE Reslotted(m, f[i - 1], i)]
<1>1. NoStrings(m) \in S
  BY NoStringsSound DEF SoundOffsets
<1>2. ASSUME NEW U \in S, NEW i \in 1 .. n
      PROVE  Reslotted(m, U, i) \in S
  <2>1. i - 1 \in 0 .. n - 1
    OBVIOUS
  <2>2. str_slots[i - 1] \in Offsets(buffer) \cup {POOL_EMPTY}
    BY <2>1 DEF OffsetTables
  <2> DEFINE o == str_slots[i - 1]
             x == find_slot(U, m, buffer[o])
  <2> HIDE DEF o, x
  <2>3. [U EXCEPT ![x] = o] \in S
    BY <2>2 DEF OffsetTables, o
  <2> QED
    BY <2>3 DEF Reslotted, Reslot, o, x
<1>3. G \in [S \X (1 .. n) -> S]
  BY <1>2
<1>4. slots_resize(m) = (CHOOSE f : Eq(f))[n]
  BY DEF slots_resize, Reslotted
<1>0. n \in Nat
  OBVIOUS
<1> HIDE DEF S, n
<1>5. PICK g \in [0 .. n -> S] : Runs(g, n, NoStrings(m), G)
  <2> HIDE DEF G
  <2> QED
    BY <1>0, <1>1, <1>3, RecursionExists
<1>6. g[0] = NoStrings(m) /\ \A i \in 1 .. n : g[i] = Reslotted(m, g[i - 1], i)
  <2>1. ASSUME NEW i \in 1 .. n
        PROVE  g[i] = Reslotted(m, g[i - 1], i)
    <3>1. g[i - 1] \in S
      BY <1>0, <1>5
    <3>2. G[<<g[i - 1], i>>] = Reslotted(m, g[i - 1], i)
      BY <3>1
    <3> QED
      BY <1>5, <3>2 DEF Runs
  <2> QED
    BY <1>5, <2>1 DEF Runs
<1> HIDE DEF G
<1>7. Eq(g)
  <2> DEFINE h == [i \in 0 .. n |->
                     IF i = 0 THEN NoStrings(m) ELSE Reslotted(m, g[i - 1], i)]
  <2>1. \A i \in 0 .. n : h[i] = g[i]
    <3> TAKE i \in 0 .. n
    <3>1. CASE i = 0
      BY <1>6, <3>1
    <3>2. CASE i # 0
      <4>1. i \in 1 .. n
        BY <1>0, <3>2
      <4> QED
        BY <1>6, <3>2, <4>1
    <3> QED
      BY <3>1, <3>2
  <2>2. DOMAIN h = 0 .. n /\ h = [i \in DOMAIN h |-> h[i]]
    OBVIOUS
  <2>3. DOMAIN g = 0 .. n /\ g = [i \in DOMAIN g |-> g[i]]
    BY <1>5
  <2> HIDE DEF h
  <2>4. h = g
    BY <2>1, <2>2, <2>3
  <2> QED
    BY <2>4 DEF h
<1> DEFINE fresh == CHOOSE f : Eq(f)
<1>8. Eq(fresh)
  BY <1>7
<1>9. slots_resize(m) = fresh[n]
  BY <1>4
<1> HIDE DEF fresh
<1>10. fresh[0] = NoStrings(m) /\ \A i \in 1 .. n : fresh[i] = Reslotted(m, fresh[i - 1], i)
  <2>1. \A i \in 0 .. n : fresh[i] = IF i = 0 THEN NoStrings(m) ELSE Reslotted(m, fresh[i - 1], i)
    BY <1>8
  <2>2. 0 \in 0 .. n /\ \A i \in 1 .. n : i \in 0 .. n /\ i # 0
    BY <1>0
  <2> QED
    BY <2>1, <2>2
<1>11. \A i \in 0 .. n : fresh[i] \in S
  <2> DEFINE I == {i \in 0 .. n : fresh[i] \in S}
  <2>1. 0 \in I
    BY <1>0, <1>1, <1>10
  <2>2. ASSUME NEW i \in 0 .. n - 1, i \in I
        PROVE  i + 1 \in I
    <3>1. i + 1 \in 1 .. n /\ i + 1 \in 0 .. n /\ (i + 1) - 1 = i
      BY <1>0
    <3>2. fresh[i + 1] = Reslotted(m, fresh[i], i + 1) /\ fresh[i] \in S
      BY <1>10, <2>2, <3>1
    <3>3. fresh[i + 1] \in S
      BY <1>2, <3>1, <3>2
    <3> QED
      BY <3>1, <3>3
  <2> HIDE DEF I
  <2>3. 0 .. n \subseteq I
    BY <1>0, <2>1, <2>2, IntervalInduction
  <2> QED
    BY <2>3 DEF I
<1>12. fresh \in [0 .. n -> S]
  BY <1>8, <1>11
<1> QED
  BY <1>9, <1>10, <1>12 DEF Reslots, S, n

\* The offsets of U are those of the first i slots of the pool's table.
Reslotting(m, U, i) ==
    /\ SoundOffsets(U, m, buffer)
    /\ \A p \in 0 .. m - 1 :
          U[p] # POOL_EMPTY => \E q \in 0 .. i - 1 : str_slots[q] = U[p]
    /\ \A q \in 0 .. i - 1 :
          str_slots[q] # POOL_EMPTY => \E p \in 0 .. m - 1 : U[p] = str_slots[q]

\* One slot of a resize carries its offset over.
LEMMA ReslotStep ==
    ASSUME slot_count \in Nat, NEW m \in Nat \ {0}, Blocks(buffer),
           SoundOffsets(str_slots, slot_count, buffer),
           IsFiniteSet(Offsets(buffer)), Cardinality(Offsets(buffer)) < m,
           NEW U, NEW i \in 0 .. slot_count - 1, Reslotting(m, U, i)
    PROVE  Reslotting(m, Reslotted(m, U, i + 1), i + 1)
<1> DEFINE n == slot_count
           T == str_slots
           o == T[i]
           s == buffer[o]
           x == find_slot(U, m, s)
           V == [U EXCEPT ![x] = o]
<1>1. (i + 1) - 1 = i /\ T \in OffsetTables(n, buffer) /\ U \in OffsetTables(m, buffer)
        /\ SoundOffsets(U, m, buffer)
  BY DEF SoundOffsets, Reslotting
<1>2. \A q \in 0 .. (i + 1) - 1 : q \in 0 .. i - 1 \/ q = i
  OBVIOUS
<1>3. \A q \in 0 .. i - 1 : q \in 0 .. (i + 1) - 1 /\ q \in 0 .. n - 1 /\ q # i
  OBVIOUS
<1>4. CASE o = POOL_EMPTY
  <2>1. Reslotted(m, U, i + 1) = U
    BY <1>1, <1>4 DEF Reslotted
  <2> QED
    BY <1>2, <1>3, <1>4, <2>1 DEF Reslotting
<1>5. CASE o # POOL_EMPTY
  <2>1. Reslotted(m, U, i + 1) = V
    BY <1>1, <1>5 DEF Reslotted, Reslot
  <2>2. o \in Offsets(buffer) /\ s \in Strings
    BY <1>1, <1>5, OffsetFacts
  <2>3. PICK f \in 0 .. m - 1 : U[f] = POOL_EMPTY
    BY <1>1, EmptySlot DEF SoundOffsets
  <2>4. StringStopsAt(U, m, buffer, s, x)
    BY <2>2, <2>3, StringProbeStops
  <2> HIDE DEF x
  <2>5. x \in 0 .. m - 1
    BY <2>4 DEF StringStopsAt
  <2>6. U[x] = POOL_EMPTY
    <3>1. SUFFICES ASSUME U[x] # POOL_EMPTY PROVE FALSE
      OBVIOUS
    <3>2. buffer[U[x]] = buffer[o]
      BY <2>4, <3>1 DEF StringStopsAt
    <3>3. U[x] \in DOMAIN buffer /\ o \in DOMAIN buffer
      BY <1>1, <2>2, <2>5, <3>1, OffsetFacts DEF Offsets
    <3>4. U[x] = o
      BY <3>2, <3>3 DEF Blocks
    <3>5. PICK q \in 0 .. i - 1 : T[q] = U[x]
      BY <2>5, <3>1 DEF Reslotting
    <3>6. q \in 0 .. n - 1 /\ q # i /\ T[q] = T[i] /\ T[q] # POOL_EMPTY
      BY <1>3, <1>5, <3>4, <3>5
    <3> QED
      BY <3>6 DEF SoundOffsets, OffsetsDistinct
  <2>7. /\ SoundOffsets(V, m, buffer) /\ V[x] = o
        /\ \A p \in 0 .. m - 1 : p # x => V[p] = U[p]
    BY <1>1, <2>2, <2>4, <2>6, StoreSound
  <2> HIDE DEF V
  <2>8. ASSUME NEW p \in 0 .. m - 1, V[p] # POOL_EMPTY
        PROVE  \E q \in 0 .. (i + 1) - 1 : T[q] = V[p]
    <3>1. CASE p = x
      <4>1. T[i] = V[p] /\ i \in 0 .. (i + 1) - 1
        BY <2>7, <3>1
      <4> QED
        BY <4>1
    <3>2. CASE p # x
      <4>1. PICK q \in 0 .. i - 1 : T[q] = U[p]
        BY <2>7, <2>8, <3>2 DEF Reslotting
      <4> QED
        BY <1>3, <2>7, <3>2, <4>1
    <3> QED
      BY <3>1, <3>2
  <2>9. ASSUME NEW q \in 0 .. (i + 1) - 1, T[q] # POOL_EMPTY
        PROVE  \E p \in 0 .. m - 1 : V[p] = T[q]
    <3>1. CASE q = i
      BY <2>5, <2>7, <3>1
    <3>2. CASE q # i
      <4>1. q \in 0 .. i - 1
        BY <1>2, <3>2
      <4>2. PICK p \in 0 .. m - 1 : U[p] = T[q]
        BY <2>9, <4>1 DEF Reslotting
      <4>3. p # x
        BY <2>6, <2>9, <4>2
      <4> QED
        BY <2>7, <4>2, <4>3
    <3> QED
      BY <3>1, <3>2
  <2> QED
    BY <2>1, <2>7, <2>8, <2>9 DEF Reslotting
<1> QED
  BY <1>4, <1>5

\* Every block of the buffer but the empty string's is in the table.
HoldsAll(T, n, buf) == \A o \in Offsets(buf) : \E i \in 0 .. n - 1 : T[i] = o

\* A resize keeps every offset, at a slot its probe finds.
LEMMA ResizedSound ==
    ASSUME slot_count \in Nat, NEW m \in Nat \ {0}, Blocks(buffer),
           SoundOffsets(str_slots, slot_count, buffer), HoldsAll(str_slots, slot_count, buffer),
           IsFiniteSet(Offsets(buffer)), Cardinality(Offsets(buffer)) < m
    PROVE  SoundOffsets(slots_resize(m), m, buffer) /\ HoldsAll(slots_resize(m), m, buffer)
<1> DEFINE n == slot_count
<1>1. n \in Nat /\ str_slots \in OffsetTables(n, buffer)
  BY DEF SoundOffsets
<1>2. PICK fresh : Reslots(fresh, m) /\ slots_resize(m) = fresh[n]
  BY <1>1, ResizeRuns
<1> DEFINE I == {i \in 0 .. n : Reslotting(m, fresh[i], i)}
<1>3. 0 \in I
  <2>1. SoundOffsets(NoStrings(m), m, buffer) /\ \A p \in 0 .. m - 1 : NoStrings(m)[p] = POOL_EMPTY
    BY NoStringsSound
  <2>2. Reslotting(m, NoStrings(m), 0)
    BY <2>1 DEF Reslotting
  <2> QED
    BY <1>1, <1>2, <2>2 DEF Reslots
<1>4. ASSUME NEW i \in 0 .. n - 1, i \in I
      PROVE  i + 1 \in I
  <2>1. i + 1 \in 1 .. n /\ i + 1 \in 0 .. n /\ (i + 1) - 1 = i
    BY <1>1
  <2>2. fresh[i + 1] = Reslotted(m, fresh[i], i + 1)
    BY <1>2, <2>1 DEF Reslots
  <2>3. Reslotting(m, fresh[i], i)
    BY <1>4
  <2>4. Reslotting(m, Reslotted(m, fresh[i], i + 1), i + 1)
    BY <2>3, ReslotStep
  <2> QED
    BY <2>1, <2>2, <2>4
<1> HIDE DEF I
<1>5. 0 .. n \subseteq I
  <2> HIDE DEF n
  <2> QED
    BY <1>1, <1>3, <1>4, IntervalInduction
<1>6. Reslotting(m, fresh[n], n)
  BY <1>1, <1>5 DEF I
<1> DEFINE U == fresh[n]
<1> HIDE DEF U
<1>7. /\ SoundOffsets(U, m, buffer)
      /\ \A q \in 0 .. n - 1 : str_slots[q] # POOL_EMPTY => \E p \in 0 .. m - 1 : U[p] = str_slots[q]
  BY <1>6 DEF Reslotting, U
<1>8. HoldsAll(U, m, buffer)
  <2> SUFFICES ASSUME NEW o \in Offsets(buffer)
               PROVE  \E p \in 0 .. m - 1 : U[p] = o
    BY DEF HoldsAll
  <2>1. PICK q \in 0 .. n - 1 : str_slots[q] = o
    BY DEF HoldsAll
  <2>2. o # POOL_EMPTY
    BY OffsetNotEmpty DEF Offsets, Blocks
  <2> QED
    BY <1>7, <2>1, <2>2
<1> QED
  BY <1>2, <1>7, <1>8 DEF U

-----------------------------------------------------------------------------
(* The string pool: its invariant.                                         *)

\* The blocks lie one after the other, in the bytes in use.
Laid(buf, used) ==
    /\ \A o \in DOMAIN buf : o + Block(buf[o]) <= used
    /\ \A a, b \in DOMAIN buf : a < b => a + Block(buf[a]) <= b

\* The answers given are the blocks of the buffer.
AnswersAre(given, buf) ==
    /\ given \subseteq Strings \X DOMAIN buf
    /\ \A p \in given : buf[p[2]] = p[1]
    /\ \A o \in Offsets(buf) : <<buf[o], o>> \in given

(***************************************************************************)
(* The inductive invariant: the table is sound and holds every block of    *)
(* the buffer but that of the empty string, and it has an empty slot; the  *)
(* blocks do not overlap; the answers given are the blocks there are.      *)
(***************************************************************************)
PoolInv ==
    /\ slot_count \in Nat \ {0}
    /\ Blocks(buffer)
    /\ SoundOffsets(str_slots, slot_count, buffer)
    /\ HoldsAll(str_slots, slot_count, buffer)
    /\ IsFiniteSet(Offsets(buffer))
    /\ slot_used = Cardinality(Offsets(buffer))
    /\ slot_used < slot_count
    /\ len \in Nat
    /\ Laid(buffer, len)
    /\ AnswersAre(issued, buffer)

\* A block has its length and its zero, whatever the string.
LEMMA BlockSize ==
    ASSUME NEW s \in Strings
    PROVE  Block(s) \in Nat /\ Block(s) > 4
<1>1. strlen[s] \in Nat
  BY StringPoolAssumption
<1> QED
  BY <1>1 DEF Block

\* A sound table that holds every block answers a probe with the string's
\* block, or with an empty slot when it has none.
LEMMA StringProbeAnswers ==
    ASSUME NEW n \in Nat \ {0}, NEW buf, Blocks(buf), NEW T, SoundOffsets(T, n, buf),
           HoldsAll(T, n, buf), NEW s \in Strings, s # EmptyString, NEW x, StringStopsAt(T, n, buf, s, x)
    PROVE  /\ T[x] # POOL_EMPTY => T[x] \in Offsets(buf) /\ buf[T[x]] = s
           /\ \A o \in DOMAIN buf : buf[o] = s => T[x] = o
<1>1. x \in 0 .. n - 1 /\ T \in OffsetTables(n, buf)
  BY DEF StringStopsAt, SoundOffsets
<1>2. T[x] # POOL_EMPTY => T[x] \in Offsets(buf) /\ buf[T[x]] = s
  BY <1>1, OffsetFacts DEF StringStopsAt
<1>3. ASSUME NEW o \in DOMAIN buf, buf[o] = s
      PROVE  T[x] = o
  <2>1. o # 0 /\ o \in Offsets(buf) /\ o \in Nat
    BY <1>3 DEF Blocks, Offsets
  <2>2. PICK i \in 0 .. n - 1 : T[i] = o
    BY <2>1 DEF HoldsAll
  <2>3. T[i] # POOL_EMPTY /\ buf[T[i]] = s
    BY <1>3, <2>1, <2>2, OffsetNotEmpty
  <2>4. x = i
    BY <2>3, StringProbeFinds
  <2> QED
    BY <2>2, <2>4
<1> QED
  BY <1>2, <1>3

\* The invariant gives the property.
LEMMA PoolInvAnswers ==
    ASSUME PoolInv
    PROVE  StrIdsAreNames
<1> DEFINE n == slot_count
<1>1. /\ n \in Nat \ {0} /\ Blocks(buffer) /\ SoundOffsets(str_slots, n, buffer)
      /\ HoldsAll(str_slots, n, buffer) /\ AnswersAre(issued, buffer) /\ Laid(buffer, len)
  BY DEF PoolInv
<1>2. PICK f \in 0 .. n - 1 : str_slots[f] = POOL_EMPTY
  BY EmptySlot DEF PoolInv, SoundOffsets
<1>3. ASSUME NEW s \in Strings
      PROVE  /\ \A o \in DOMAIN buffer : buffer[o] = s => pool_lookup(s) = o
             /\ pool_lookup(s) # 0 => /\ pool_lookup(s) \in Offsets(buffer)
                                      /\ buffer[pool_lookup(s)] = s
  <2> DEFINE x == find_slot(str_slots, n, s)
             o == str_slots[x]
  <2>1. pool_lookup(s) = IF s = EmptyString \/ o = POOL_EMPTY THEN 0 ELSE o
    BY DEF pool_lookup
  <2>2. StringStopsAt(str_slots, n, buffer, s, x)
    BY <1>1, <1>2, StringProbeStops
  <2> HIDE DEF x
  <2>3. CASE s = EmptyString
    BY <1>1, <2>1, <2>3 DEF Blocks
  <2>4. CASE s # EmptyString
    <3>1. /\ o # POOL_EMPTY => o \in Offsets(buffer) /\ buffer[o] = s
          /\ \A a \in DOMAIN buffer : buffer[a] = s => o = a
      BY <1>1, <2>2, <2>4, StringProbeAnswers
    <3> HIDE DEF o
    <3>2. \A a \in DOMAIN buffer : a # POOL_EMPTY
      BY <1>1, OffsetNotEmpty DEF Blocks
    <3> QED
      BY <2>1, <2>4, <3>1, <3>2
  <2> QED
    BY <2>3, <2>4
<1>4. ASSUME NEW p \in issued
      PROVE  pool_get(p[2]) = p[1] /\ pool_lookup(p[1]) = p[2]
  <2>1. p[1] \in Strings /\ p[2] \in DOMAIN buffer /\ buffer[p[2]] = p[1]
    BY <1>1 DEF AnswersAre
  <2>2. pool_lookup(p[1]) = p[2]
    BY <1>3, <2>1
  <2>3. p[2] = 0 => p[1] = EmptyString
    BY <1>1, <2>1 DEF Blocks
  <2> QED
    BY <2>1, <2>2, <2>3 DEF pool_get
<1>5. ASSUME NEW s \in Strings, pool_lookup(s) # 0
      PROVE  <<s, pool_lookup(s)>> \in issued
  <2>1. pool_lookup(s) \in Offsets(buffer) /\ buffer[pool_lookup(s)] = s
    BY <1>3, <1>5
  <2> QED
    BY <1>1, <2>1 DEF AnswersAre
<1>6. \A a, b \in DOMAIN buffer : a < b => a + Block(buffer[a]) <= b
  BY <1>1 DEF Laid
<1> QED
  BY <1>4, <1>5, <1>6 DEF StrIdsAreNames

\* A buffer with one more block.
Grown(buf, o, s) == [a \in DOMAIN buf \cup {o} |-> IF a = o THEN s ELSE buf[a]]

\* The block appended is new, and everything said of the others stays true.
LEMMA GrownBlocks ==
    ASSUME NEW buf, Blocks(buf), NEW used \in Nat, Laid(buf, used),
           NEW s \in Strings, s # EmptyString, \A o \in DOMAIN buf : buf[o] # s,
           NEW g, g = Grown(buf, used, s)
    PROVE  /\ Blocks(g) /\ Laid(g, used + Block(s))
           /\ used \notin DOMAIN buf
           /\ DOMAIN g = DOMAIN buf \cup {used}
           /\ Offsets(g) = Offsets(buf) \cup {used}
           /\ g[used] = s
           /\ \A o \in DOMAIN buf : g[o] = buf[o]
<1> DEFINE D == DOMAIN buf
<1>1. ASSUME NEW o \in D
      PROVE  o \in Nat /\ o + Block(buf[o]) <= used /\ o < used /\ Block(buf[o]) \in Nat
  <2>1. o \in Nat /\ buf[o] \in Strings /\ o + Block(buf[o]) <= used
    BY DEF Blocks, Laid
  <2>2. Block(buf[o]) \in Nat /\ Block(buf[o]) > 4
    BY <2>1, BlockSize
  <2> QED
    BY <2>1, <2>2
<1>2. used \notin D
  BY <1>1
<1>3. 0 \in D /\ used # 0
  BY <1>1 DEF Blocks
<1>4. DOMAIN g = D \cup {used} /\ g[used] = s /\ \A o \in D : g[o] = buf[o]
  BY <1>2 DEF Grown
<1>5. Offsets(g) = Offsets(buf) \cup {used}
  BY <1>3, <1>4 DEF Offsets
<1>6. Blocks(g)
  <2>1. DOMAIN g \subseteq Nat /\ 0 \in DOMAIN g
    BY <1>1, <1>3, <1>4
  <2>2. ASSUME NEW o \in DOMAIN g
        PROVE  g[o] \in Strings /\ (g[o] = EmptyString <=> o = 0)
    <3>1. CASE o = used
      BY <1>3, <1>4, <3>1
    <3>2. CASE o \in D
      BY <1>4, <3>2 DEF Blocks
    <3> QED
      BY <1>4, <3>1, <3>2
  <2>3. \A a, b \in DOMAIN g : g[a] = g[b] => a = b
    BY <1>4 DEF Blocks
  <2> QED
    BY <2>1, <2>2, <2>3 DEF Blocks
<1>7. Laid(g, used + Block(s))
  <2>1. Block(s) \in Nat
    BY BlockSize
  <2>2. ASSUME NEW o \in DOMAIN g
        PROVE  o + Block(g[o]) <= used + Block(s)
    <3>1. CASE o = used
      BY <1>4, <2>1, <3>1
    <3>2. CASE o \in D
      <4>1. o \in Nat /\ o + Block(buf[o]) <= used /\ Block(buf[o]) \in Nat
        BY <1>1, <3>2
      <4> QED
        BY <1>4, <2>1, <3>2, <4>1
    <3> QED
      BY <1>4, <3>1, <3>2
  <2>3. ASSUME NEW a \in DOMAIN g, NEW b \in DOMAIN g, a < b
        PROVE  a + Block(g[a]) <= b
    <3>1. CASE b = used /\ a # used
      <4>1. a \in D /\ a + Block(buf[a]) <= used
        BY <1>1, <1>4, <3>1
      <4> QED
        BY <1>4, <3>1, <4>1
    <3>2. CASE a = used
      <4>1. b \in Nat /\ b <= used
        BY <1>1, <1>4
      <4> QED
        BY <2>3, <3>2, <4>1
    <3>3. CASE b # used /\ a # used
      <4>1. a \in D /\ b \in D
        BY <1>4, <3>3
      <4> QED
        BY <1>4, <2>3, <4>1 DEF Laid
    <3> QED
      BY <3>1, <3>2, <3>3
  <2> QED
    BY <2>2, <2>3 DEF Laid
<1> QED
  BY <1>2, <1>4, <1>5, <1>6, <1>7

\* The table of an intern of a string that is not empty, grown or not, is
\* sound and has an empty slot to spare.
LEMMA RoomyTable ==
    ASSUME PoolInv, NEW m \in Nat \ {0}, slot_used < m
    PROVE  /\ SoundOffsets(slots_resize(m), m, buffer) /\ HoldsAll(slots_resize(m), m, buffer)
BY ResizedSound DEF PoolInv

\* An intern keeps the invariant.
LEMMA InternKeepsInv ==
    ASSUME PoolInv, NEW s \in Strings, pool_intern(s)
    PROVE  PoolInv'
<1> DEFINE full == (slot_used + 1) * 10 > slot_count * 7
           n == IF full THEN 2 * slot_count ELSE slot_count
           table == IF full THEN slots_resize(n) ELSE str_slots
           x == find_slot(table, n, s)
           hit == table[x] # POOL_EMPTY
           id == IF s = EmptyString THEN 0 ELSE IF hit THEN table[x] ELSE len
<1>0. /\ slot_count \in Nat \ {0} /\ slot_used \in Nat /\ slot_used < slot_count
      /\ slot_used = Cardinality(Offsets(buffer)) /\ IsFiniteSet(Offsets(buffer))
      /\ Blocks(buffer) /\ len \in Nat /\ Laid(buffer, len) /\ AnswersAre(issued, buffer)
  BY FS_CardinalityType DEF PoolInv
<1>1. issued' = issued \cup {<<s, id>>}
  BY DEF pool_intern
<1>2. CASE s = EmptyString
  <2>1. UNCHANGED <<str_slots, slot_count, slot_used, buffer, len>>
    BY <1>2 DEF pool_intern
  <2>2. issued' = issued \cup {<<s, 0>>}
    BY <1>1, <1>2
  <2>3. AnswersAre(issued', buffer)
    BY <1>0, <1>2, <2>2 DEF AnswersAre, Blocks
  <2> QED
    BY <2>1, <2>3 DEF PoolInv
<1>3. CASE s # EmptyString
  <2>1. /\ slot_count' = n
        /\ IF hit THEN str_slots' = table /\ UNCHANGED <<slot_used, buffer, len>>
           ELSE /\ str_slots' = [table EXCEPT ![x] = len]
                /\ slot_used' = slot_used + 1
                /\ buffer' = Grown(buffer, len, s)
                /\ len' = len + Block(s)
    BY <1>3 DEF pool_intern, Grown
  <2>2. n \in Nat \ {0} /\ slot_used + 1 < n
    BY <1>0
  <2>3. SoundOffsets(table, n, buffer) /\ HoldsAll(table, n, buffer)
    <3>1. CASE full
      <4>1. table = slots_resize(n) /\ slot_used < n
        BY <1>0, <3>1, <2>2
      <4> HIDE DEF table, n
      <4> QED
        BY <2>2, <4>1, RoomyTable
    <3>2. CASE ~full
      BY <3>2 DEF PoolInv
    <3> QED
      BY <3>1, <3>2
  <2> HIDE DEF full, n, table
  <2>4. Cardinality(Offsets(buffer)) < n
    BY <1>0, <2>2
  <2>5. PICK f \in 0 .. n - 1 : table[f] = POOL_EMPTY
    BY <1>0, <2>2, <2>3, <2>4, EmptySlot DEF SoundOffsets
  <2>6. StringStopsAt(table, n, buffer, s, x)
    BY <2>2, <2>5, StringProbeStops
  <2> HIDE DEF x
  <2>7. /\ table[x] # POOL_EMPTY => table[x] \in Offsets(buffer) /\ buffer[table[x]] = s
        /\ \A o \in DOMAIN buffer : buffer[o] = s => table[x] = o
    BY <1>0, <1>3, <2>2, <2>3, <2>6, StringProbeAnswers
  <2>8. CASE hit
    <3>1. id = table[x] /\ id \in Offsets(buffer) /\ buffer[id] = s
      BY <1>3, <2>7, <2>8
    <3>2. str_slots' = table /\ slot_count' = n /\ UNCHANGED <<slot_used, buffer, len>>
      BY <2>1, <2>8
    <3> HIDE DEF id, hit
    <3>3. AnswersAre(issued', buffer)
      BY <1>0, <1>1, <3>1 DEF AnswersAre, Offsets
    <3>4. slot_used < n
      BY <1>0, <2>2
    <3> QED
      BY <1>0, <2>2, <2>3, <3>2, <3>3, <3>4 DEF PoolInv
  <2>9. CASE ~hit
    <3> DEFINE g == Grown(buffer, len, s)
    <3>1. id = len /\ table[x] = POOL_EMPTY
      BY <1>3, <2>9
    <3>2. /\ str_slots' = [table EXCEPT ![x] = len] /\ slot_count' = n
          /\ slot_used' = slot_used + 1 /\ buffer' = g /\ len' = len + Block(s)
      BY <2>1, <2>9
    <3> HIDE DEF id, hit
    <3>3. \A o \in DOMAIN buffer : buffer[o] # s
      BY <1>0, <2>7, <3>1, OffsetNotEmpty DEF Blocks
    <3>4. /\ Blocks(g) /\ Laid(g, len + Block(s)) /\ len \notin DOMAIN buffer
          /\ DOMAIN g = DOMAIN buffer \cup {len}
          /\ Offsets(g) = Offsets(buffer) \cup {len} /\ g[len] = s
          /\ \A o \in DOMAIN buffer : g[o] = buffer[o]
      <4>1. Blocks(buffer) /\ len \in Nat /\ Laid(buffer, len) /\ g = Grown(buffer, len, s)
        BY <1>0
      <4> HIDE DEF g
      <4> QED
        BY <1>3, <3>3, <4>1, GrownBlocks
    <3> HIDE DEF g
    <3>5. ASSUME NEW i \in 0 .. n - 1, table[i] # POOL_EMPTY
          PROVE  /\ table[i] \in Offsets(buffer) /\ table[i] \in Offsets(g)
                 /\ g[table[i]] = buffer[table[i]]
      <4>1. table[i] \in Offsets(buffer) /\ table[i] \in DOMAIN buffer
        BY <1>0, <2>2, <2>3, <3>5, OffsetFacts DEF SoundOffsets
      <4> QED
        BY <3>4, <4>1
    <3>6. SoundOffsets(table, n, g)
      <4>1. table \in OffsetTables(n, g)
        BY <2>3, <3>5 DEF SoundOffsets, OffsetTables
      <4>2. OffsetsDistinct(table, n)
        BY <2>3 DEF SoundOffsets
      <4>3. OffsetsReached(table, n, g)
        BY <2>3, <3>5 DEF SoundOffsets, OffsetsReached
      <4> QED
        BY <4>1, <4>2, <4>3 DEF SoundOffsets
    <3>7. StringStopsAt(table, n, g, s, x)
      BY <2>6, <3>1, <3>5 DEF StringStopsAt
    <3>8. len \in Offsets(g)
      BY <3>4
    <3> DEFINE U == [table EXCEPT ![x] = len]
    <3>9. /\ SoundOffsets(U, n, g) /\ x \in 0 .. n - 1 /\ U[x] = len
          /\ \A i \in 0 .. n - 1 : i # x => U[i] = table[i]
      <4>1. Blocks(g) /\ g[len] = s /\ n \in Nat \ {0} /\ table[x] = POOL_EMPTY
        BY <2>2, <3>1, <3>4
      <4>2. StringStopsAt(table, n, g, g[len], x)
        BY <3>7, <4>1
      <4> QED
        BY <3>6, <3>8, <4>1, <4>2, StoreSound
    <3>10. str_slots' = U
      BY <3>2
    <3> HIDE DEF U
    <3>11. HoldsAll(U, n, g)
      <4> SUFFICES ASSUME NEW o \in Offsets(g)
                   PROVE  \E i \in 0 .. n - 1 : U[i] = o
        BY DEF HoldsAll
      <4>1. CASE o = len
        BY <3>9, <4>1
      <4>2. CASE o \in Offsets(buffer)
        <5>1. PICK i \in 0 .. n - 1 : table[i] = o
          BY <2>3, <4>2 DEF HoldsAll
        <5>2. o # POOL_EMPTY
          BY <1>0, <4>2, OffsetNotEmpty DEF Offsets, Blocks
        <5>3. i # x
          BY <3>1, <5>1, <5>2
        <5> QED
          BY <3>9, <5>1, <5>3
      <4> QED
        BY <3>4, <4>1, <4>2
    <3>12. IsFiniteSet(Offsets(g)) /\ Cardinality(Offsets(g)) = slot_used + 1
      <4>1. len \notin Offsets(buffer)
        BY <3>4 DEF Offsets
      <4>2. /\ IsFiniteSet(Offsets(buffer) \cup {len})
            /\ Cardinality(Offsets(buffer) \cup {len}) = Cardinality(Offsets(buffer)) + 1
        BY <1>0, <4>1, FS_AddElement
      <4> QED
        BY <1>0, <3>4, <4>2
    <3>13. AnswersAre(issued', g)
      <4>1. issued' = issued \cup {<<s, len>>}
        BY <1>1, <3>1
      <4>2. issued' \subseteq Strings \X DOMAIN g
        BY <1>0, <3>4, <4>1 DEF AnswersAre
      <4>3. \A p \in issued' : g[p[2]] = p[1]
        <5> TAKE p \in issued'
        <5>1. CASE p \in issued
          <6>1. p[2] \in DOMAIN buffer /\ buffer[p[2]] = p[1]
            BY <1>0, <5>1 DEF AnswersAre
          <6> QED
            BY <3>4, <6>1
        <5>2. CASE p = <<s, len>>
          BY <3>4, <5>2
        <5> QED
          BY <4>1, <5>1, <5>2
      <4>4. \A o \in Offsets(g) : <<g[o], o>> \in issued'
        <5> TAKE o \in Offsets(g)
        <5>1. CASE o = len
          BY <3>4, <4>1, <5>1
        <5>2. CASE o \in Offsets(buffer)
          <6>1. g[o] = buffer[o]
            BY <3>4, <5>2 DEF Offsets
          <6> QED
            BY <1>0, <4>1, <5>2, <6>1 DEF AnswersAre
        <5> QED
          BY <3>4, <5>1, <5>2
      <4> QED
        BY <4>2, <4>3, <4>4 DEF AnswersAre
    <3>14. len + Block(s) \in Nat
      BY <1>0, BlockSize
    <3> QED
      BY <2>2, <3>2, <3>4, <3>9, <3>10, <3>11, <3>12, <3>13, <3>14 DEF PoolInv
  <2> QED
    BY <2>8, <2>9
<1> QED
  BY <1>2, <1>3

\* A reservation keeps it.
LEMMA ReserveKeepsInv ==
    ASSUME PoolInv, NEW more \in Batches, pool_reserve_slots(more)
    PROVE  PoolInv'
<1> DEFINE needed == slot_used + more
           targets == {t \in 1 .. MaxSlots : Doubled(t, needed) /\ t * 7 >= needed * 10}
           m == Min(targets)
<1>1. /\ targets # {} /\ slot_count < m
      /\ str_slots' = slots_resize(m) /\ slot_count' = m
      /\ UNCHANGED <<slot_used, buffer, len, issued>>
  BY DEF pool_reserve_slots
<1>2. targets \subseteq Nat
  BY StringPoolAssumption
<1> HIDE DEF targets
<1>3. m \in Nat
  <2>1. \E t \in targets : \A u \in targets : t <= u
    BY <1>1, <1>2, LeastOf
  <2>2. m \in targets
    BY <2>1 DEF Min
  <2> QED
    BY <1>2, <2>2
<1> HIDE DEF m
<1>4. slot_count \in Nat \ {0} /\ slot_used < slot_count /\ slot_used \in Nat
  BY FS_CardinalityType DEF PoolInv
<1>5. m \in Nat \ {0} /\ slot_used < m
  BY <1>1, <1>3, <1>4
<1>6. SoundOffsets(slots_resize(m), m, buffer) /\ HoldsAll(slots_resize(m), m, buffer)
  BY <1>5, RoomyTable
<1> QED
  BY <1>1, <1>5, <1>6 DEF PoolInv

\* Every call keeps it.
THEOREM PoolInductive ==
    PoolInv /\ [PoolNext]_stringVars => PoolInv'
<1> SUFFICES ASSUME PoolInv, [PoolNext]_stringVars
             PROVE  PoolInv'
  OBVIOUS
<1>1. ASSUME NEW s \in Strings, pool_intern(s)
      PROVE  PoolInv'
  BY <1>1, InternKeepsInv
<1>2. ASSUME NEW more \in Batches, pool_reserve_slots(more)
      PROVE  PoolInv'
  BY <1>2, ReserveKeepsInv
<1>3. CASE UNCHANGED stringVars
  BY <1>3 DEF stringVars, PoolInv
<1> QED
  BY <1>1, <1>2, <1>3 DEF PoolNext

\* The invariant holds in every state of every behaviour.
THEOREM PoolInvariance == PoolSpec => []PoolInv
<1>1. pool_init => PoolInv
  <2> SUFFICES ASSUME pool_init PROVE PoolInv
    OBVIOUS
  <2>1. /\ str_slots = NoStrings(POOL_SLOTS) /\ slot_count = POOL_SLOTS /\ slot_used = 0
        /\ buffer = [o \in {0} |-> EmptyString] /\ len = Block(EmptyString) /\ issued = {}
    BY DEF pool_init
  <2>2. POOL_SLOTS \in Nat \ {0} /\ EmptyString \in Strings
    BY StringPoolAssumption
  <2>3. DOMAIN buffer = {0} /\ buffer[0] = EmptyString /\ Offsets(buffer) = {}
    BY <2>1 DEF Offsets
  <2>4. Block(EmptyString) \in Nat
    BY <2>2, BlockSize
  <2>5. Blocks(buffer) /\ Laid(buffer, len) /\ AnswersAre(issued, buffer)
    BY <2>1, <2>2, <2>3, <2>4 DEF Blocks, Laid, AnswersAre
  <2>6. SoundOffsets(str_slots, slot_count, buffer) /\ HoldsAll(str_slots, slot_count, buffer)
    BY <2>1, <2>2, <2>3, NoStringsSound DEF HoldsAll
  <2>7. IsFiniteSet(Offsets(buffer)) /\ slot_used = Cardinality(Offsets(buffer))
    BY <2>1, <2>3, FS_EmptySet
  <2>8. slot_count \in Nat \ {0} /\ slot_used < slot_count /\ len \in Nat
    BY <2>1, <2>2, <2>4
  <2> QED
    BY <2>5, <2>6, <2>7, <2>8 DEF PoolInv
<1> QED
  BY <1>1, PoolInductive, PTL DEF PoolSpec

\* A string has one StrId and a StrId one string, for every set of strings
\* and every hash, through every growth of the table (pool_intern,
\* pool_lookup, pool_get).
THEOREM PoolCorrect == PoolSpec => []StrIdsAreNames
<1>1. PoolInv => StrIdsAreNames
  BY PoolInvAnswers
<1> QED
  BY <1>1, PoolInvariance, PTL

-----------------------------------------------------------------------------
(* The arena: chains of chunks and the words used before each.             *)

ChunkValues == [id : Nat \X Nat, used : Nat, capacity : Nat]
Chains == Seq(ChunkValues)

\* What a chunk of a chain is.
LEMMA ChunkFacts ==
    ASSUME NEW C \in Chains
    PROVE  /\ Len(C) \in Nat
           /\ \A i \in 1 .. Len(C) :
                 C[i] \in ChunkValues /\ C[i].used \in Nat /\ C[i].capacity \in Nat
<1>1. Len(C) \in Nat
  BY DEF Chains
<1>2. \A i \in 1 .. Len(C) : C[i] \in ChunkValues
  BY DEF Chains
<1> QED
  BY <1>1, <1>2 DEF ChunkValues

\* The sums of BaseOf.
LEMMA BaseRuns ==
    ASSUME NEW C \in Chains
    PROVE  \E sum \in [0 .. Len(C) -> Nat] :
              /\ sum[0] = 0
              /\ \A i \in 1 .. Len(C) : sum[i] = sum[i - 1] + C[i].used
              /\ \A i \in 1 .. Len(C) + 1 : BaseOf(C, i) = sum[i - 1]
<1> DEFINE n == Len(C)
           G == [p \in Nat \X (1 .. n) |-> p[1] + C[p[2]].used]
           Eq(f) == f = [j \in 0 .. n |-> IF j = 0 THEN 0 ELSE f[j - 1] + C[j].used]
           sum == CHOOSE f : Eq(f)
<1>0. n \in Nat
  BY DEF Chains
<1>1. \A j \in 1 .. n : C[j].used \in Nat
  BY ChunkFacts
<1>2. \A i : BaseOf(C, i) = sum[i - 1]
  BY DEF BaseOf
<1> HIDE DEF n
<1>3. G \in [Nat \X (1 .. n) -> Nat]
  BY <1>1
<1>4. PICK g \in [0 .. n -> Nat] : Runs(g, n, 0, G)
  <2> HIDE DEF G
  <2> QED
    BY <1>0, <1>3, RecursionExists
<1>5. g[0] = 0 /\ \A i \in 1 .. n : g[i] = g[i - 1] + C[i].used
  <2>1. ASSUME NEW i \in 1 .. n
        PROVE  g[i] = g[i - 1] + C[i].used
    <3>1. g[i - 1] \in Nat
      BY <1>0, <1>4
    <3>2. G[<<g[i - 1], i>>] = g[i - 1] + C[i].used
      BY <3>1
    <3> QED
      BY <1>4, <3>2 DEF Runs
  <2> QED
    BY <1>4, <2>1 DEF Runs
<1> HIDE DEF G
<1>6. Eq(g)
  <2> DEFINE h == [j \in 0 .. n |-> IF j = 0 THEN 0 ELSE g[j - 1] + C[j].used]
  <2>1. \A i \in 0 .. n : h[i] = g[i]
    <3> TAKE i \in 0 .. n
    <3>1. CASE i = 0
      BY <1>5, <3>1
    <3>2. CASE i # 0
      <4>1. i \in 1 .. n
        BY <1>0, <3>2
      <4> QED
        BY <1>5, <3>2, <4>1
    <3> QED
      BY <3>1, <3>2
  <2>2. DOMAIN h = 0 .. n /\ h = [i \in DOMAIN h |-> h[i]]
    OBVIOUS
  <2>3. DOMAIN g = 0 .. n /\ g = [i \in DOMAIN g |-> g[i]]
    BY <1>4
  <2> HIDE DEF h
  <2>4. h = g
    BY <2>1, <2>2, <2>3
  <2> QED
    BY <2>4 DEF h
<1>7. Eq(sum)
  BY <1>6
<1> HIDE DEF sum
<1>8. sum[0] = 0 /\ \A i \in 1 .. n : sum[i] = sum[i - 1] + C[i].used
  <2>1. \A i \in 0 .. n : sum[i] = IF i = 0 THEN 0 ELSE sum[i - 1] + C[i].used
    BY <1>7
  <2>2. 0 \in 0 .. n /\ \A i \in 1 .. n : i \in 0 .. n /\ i # 0
    BY <1>0
  <2> QED
    BY <2>1, <2>2
<1>9. \A i \in 0 .. n : sum[i] \in Nat
  <2> DEFINE I == {i \in 0 .. n : sum[i] \in Nat}
  <2>1. 0 \in I
    BY <1>0, <1>8
  <2>2. ASSUME NEW i \in 0 .. n - 1, i \in I
        PROVE  i + 1 \in I
    <3>1. i + 1 \in 1 .. n /\ i + 1 \in 0 .. n /\ (i + 1) - 1 = i
      BY <1>0
    <3>2. sum[i + 1] = sum[i] + C[i + 1].used /\ sum[i] \in Nat /\ C[i + 1].used \in Nat
      BY <1>1, <1>8, <2>2, <3>1
    <3> QED
      BY <3>1, <3>2
  <2> HIDE DEF I
  <2>3. 0 .. n \subseteq I
    BY <1>0, <2>1, <2>2, IntervalInduction
  <2> QED
    BY <2>3 DEF I
<1>10. sum \in [0 .. n -> Nat]
  BY <1>7, <1>9
<1>11. \A i \in 1 .. n + 1 : BaseOf(C, i) = sum[i - 1]
  BY <1>2
<1> QED
  BY <1>8, <1>10, <1>11 DEF n

\* Each chunk starts where the one before it ends.
LEMMA BaseSteps ==
    ASSUME NEW C \in Chains
    PROVE  /\ BaseOf(C, 1) = 0
           /\ \A i \in 1 .. Len(C) + 1 : BaseOf(C, i) \in Nat
           /\ \A i \in 1 .. Len(C) : BaseOf(C, i + 1) = BaseOf(C, i) + C[i].used
<1>0. Len(C) \in Nat
  BY DEF Chains
<1>1. PICK sum \in [0 .. Len(C) -> Nat] :
              /\ sum[0] = 0
              /\ \A i \in 1 .. Len(C) : sum[i] = sum[i - 1] + C[i].used
              /\ \A i \in 1 .. Len(C) + 1 : BaseOf(C, i) = sum[i - 1]
  BY BaseRuns
<1>2. 1 \in 1 .. Len(C) + 1 /\ 1 - 1 = 0
  BY <1>0
<1>3. ASSUME NEW i \in 1 .. Len(C) + 1
      PROVE  BaseOf(C, i) \in Nat
  <2>1. i - 1 \in 0 .. Len(C)
    BY <1>0
  <2> QED
    BY <1>1, <2>1
<1>4. ASSUME NEW i \in 1 .. Len(C)
      PROVE  BaseOf(C, i + 1) = BaseOf(C, i) + C[i].used
  <2>1. i \in 1 .. Len(C) + 1 /\ i + 1 \in 1 .. Len(C) + 1 /\ (i + 1) - 1 = i
    BY <1>0
  <2> QED
    BY <1>1, <2>1
<1> QED
  BY <1>1, <1>2, <1>3, <1>4

\* A chunk ends before every later one starts.
LEMMA BaseMonotone ==
    ASSUME NEW C \in Chains, NEW i \in 1 .. Len(C), NEW j \in i + 1 .. Len(C) + 1
    PROVE  BaseOf(C, i) + C[i].used <= BaseOf(C, j)
<1>0. Len(C) \in Nat
  BY DEF Chains
<1>1. \A k \in 1 .. Len(C) : C[k].used \in Nat
  BY ChunkFacts
<1> DEFINE N == Len(C) - i
           T == {d \in 0 .. N : BaseOf(C, i) + C[i].used <= BaseOf(C, i + 1 + d)}
<1>2. N \in Nat
  BY <1>0
<1>3. 0 \in T
  <2>1. BaseOf(C, i + 1) = BaseOf(C, i) + C[i].used /\ BaseOf(C, i) \in Nat /\ C[i].used \in Nat
    <3>1. i \in 1 .. Len(C) + 1
      BY <1>0
    <3> QED
      BY <1>1, <3>1, BaseSteps
  <2>2. i + 1 + 0 = i + 1
    OBVIOUS
  <2> QED
    BY <1>2, <2>1, <2>2
<1>4. ASSUME NEW d \in 0 .. N - 1, d \in T
      PROVE  d + 1 \in T
  <2> DEFINE k == i + 1 + d
  <2>1. k \in 1 .. Len(C) /\ k \in 1 .. Len(C) + 1 /\ i \in 1 .. Len(C) + 1
        /\ i + 1 + (d + 1) = k + 1 /\ d + 1 \in 0 .. N
    BY <1>0
  <2>2. BaseOf(C, i) + C[i].used <= BaseOf(C, k)
    BY <1>4
  <2> HIDE DEF k
  <2>3. /\ BaseOf(C, k + 1) = BaseOf(C, k) + C[k].used
        /\ BaseOf(C, k) \in Nat /\ BaseOf(C, i) \in Nat /\ C[k].used \in Nat /\ C[i].used \in Nat
    BY <1>1, <2>1, BaseSteps
  <2>4. BaseOf(C, i) + C[i].used <= BaseOf(C, k + 1)
    <3>1. \A a, u, b, w, c \in Nat : a + u <= b /\ c = b + w => a + u <= c
      OBVIOUS
    <3>2. BaseOf(C, k + 1) \in Nat
      <4>1. \A b, w \in Nat : b + w \in Nat
        OBVIOUS
      <4> QED
        BY <2>3, <4>1, Zenon
    <3> QED
      BY <2>2, <2>3, <3>1, <3>2, Zenon
  <2> QED
    BY <2>1, <2>4
<1>5. j - i - 1 \in 0 .. N /\ i + 1 + (j - i - 1) = j
  BY <1>0
<1> HIDE DEF N
<1>6. 0 .. N \subseteq T
  <2> HIDE DEF T
  <2> QED
    BY <1>2, <1>3, <1>4, IntervalInduction
<1> QED
  BY <1>5, <1>6

\* The first n chunks of C are those of D, the n-th perhaps filled otherwise.
Shares(C, D, n) ==
    /\ n \in 1 .. Len(C) /\ n \in 1 .. Len(D)
    /\ \A i \in 1 .. n : D[i].id = C[i].id
    /\ \A i \in 1 .. n - 1 : D[i].used = C[i].used

\* They start where they started.
LEMMA BasePrefix ==
    ASSUME NEW C \in Chains, NEW D \in Chains, NEW n, Shares(C, D, n)
    PROVE  \A i \in 1 .. n : BaseOf(D, i) = BaseOf(C, i)
<1>0. Len(C) \in Nat /\ Len(D) \in Nat
  BY DEF Chains
<1>1. n \in 1 .. Len(C) /\ n \in 1 .. Len(D) /\ n \in Nat /\ n - 1 \in Nat
  BY <1>0 DEF Shares
<1> DEFINE T == {d \in 0 .. n - 1 : BaseOf(D, d + 1) = BaseOf(C, d + 1)}
<1>2. 0 \in T
  <2>1. BaseOf(D, 0 + 1) = BaseOf(C, 0 + 1)
    <3>1. 0 + 1 = 1
      OBVIOUS
    <3> QED
      BY <3>1, BaseSteps
  <2> QED
    BY <1>1, <2>1
<1>3. ASSUME NEW d \in 0 .. (n - 1) - 1, d \in T
      PROVE  d + 1 \in T
  <2>1. d + 1 \in 1 .. Len(C) /\ d + 1 \in 1 .. Len(D) /\ d + 1 \in 1 .. n - 1 /\ d + 1 \in 0 .. n - 1
    BY <1>0, <1>1
  <2>2. D[d + 1].used = C[d + 1].used
    BY <2>1 DEF Shares
  <2>3. BaseOf(D, d + 1) = BaseOf(C, d + 1)
    BY <1>3
  <2>4. BaseOf(D, d + 1 + 1) = BaseOf(C, d + 1 + 1)
    BY <2>1, <2>2, <2>3, BaseSteps
  <2> QED
    BY <2>1, <2>4
<1>4. 0 .. n - 1 \subseteq T
  <2> HIDE DEF T
  <2> QED
    BY <1>1, <1>2, <1>3, IntervalInduction
<1>5. ASSUME NEW i \in 1 .. n
      PROVE  BaseOf(D, i) = BaseOf(C, i)
  <2>1. i - 1 \in 0 .. n - 1 /\ (i - 1) + 1 = i
    BY <1>1
  <2> QED
    BY <1>4, <2>1
<1> QED
  BY <1>5

\* The capacity of a new chunk is enough for the allocation it is made for.
LEMMA RoomyChunk ==
    ASSUME NEW size \in Nat \ {0}, CHUNK_WORDS \in Nat \ {0}, chunks \in Chains,
           \A i \in 1 .. Len(chunks) : chunks[i].capacity >= 1
    PROVE  next_chunk_capacity(size) \in Nat /\ next_chunk_capacity(size) >= size
<1> DEFINE base == IF chunks = <<>> THEN CHUNK_WORDS ELSE current.capacity
           Next2(d) == IF d < size THEN 2 * d ELSE d
           G == [p \in Nat \X (1 .. size) |-> Next2(p[1])]
           Eq(f) == f = [k \in 0 .. size |->
                           IF k = 0 THEN base
                           ELSE IF f[k - 1] < size THEN 2 * f[k - 1] ELSE f[k - 1]]
           doubled == CHOOSE f : Eq(f)
<1>1. base \in Nat /\ base >= 1
  <2>1. CASE chunks = <<>>
    BY <2>1
  <2>2. CASE chunks # <<>>
    <3>1. Len(chunks) \in 1 .. Len(chunks)
      BY <2>2 DEF Chains
    <3>2. current.capacity \in Nat /\ current.capacity >= 1
      BY <3>1, ChunkFacts DEF current
    <3> QED
      BY <2>2, <3>2
  <2> QED
    BY <2>1, <2>2
<1>2. next_chunk_capacity(size) = doubled[size]
  BY DEF next_chunk_capacity
<1> HIDE DEF base
<1>3. G \in [Nat \X (1 .. size) -> Nat]
  OBVIOUS
<1>4. PICK g \in [0 .. size -> Nat] : Runs(g, size, base, G)
  <2> HIDE DEF G
  <2> QED
    BY <1>1, <1>3, RecursionExists
<1>5. g[0] = base /\ \A i \in 1 .. size : g[i] = Next2(g[i - 1])
  <2>1. ASSUME NEW i \in 1 .. size
        PROVE  g[i] = Next2(g[i - 1])
    <3>1. g[i - 1] \in Nat
      BY <1>4
    <3>2. G[<<g[i - 1], i>>] = Next2(g[i - 1])
      BY <3>1
    <3> QED
      BY <1>4, <3>2 DEF Runs
  <2> QED
    BY <1>4, <2>1 DEF Runs
<1> HIDE DEF G
<1>6. Eq(g)
  <2> DEFINE h == [k \in 0 .. size |->
                     IF k = 0 THEN base
                     ELSE IF g[k - 1] < size THEN 2 * g[k - 1] ELSE g[k - 1]]
  <2>1. \A i \in 0 .. size : h[i] = g[i]
    <3> TAKE i \in 0 .. size
    <3>1. CASE i = 0
      BY <1>5, <3>1
    <3>2. CASE i # 0
      <4>1. i \in 1 .. size
        BY <3>2
      <4> QED
        BY <1>5, <3>2, <4>1
    <3> QED
      BY <3>1, <3>2
  <2>2. DOMAIN h = 0 .. size /\ h = [i \in DOMAIN h |-> h[i]]
    OBVIOUS
  <2>3. DOMAIN g = 0 .. size /\ g = [i \in DOMAIN g |-> g[i]]
    BY <1>4
  <2> HIDE DEF h
  <2>4. h = g
    BY <2>1, <2>2, <2>3
  <2> QED
    BY <2>4 DEF h
<1>7. Eq(doubled)
  BY <1>6
<1> HIDE DEF doubled
<1>8. doubled[0] = base /\ \A i \in 1 .. size : doubled[i] = Next2(doubled[i - 1])
  <2>1. \A i \in 0 .. size : doubled[i] = IF i = 0 THEN base ELSE Next2(doubled[i - 1])
    BY <1>7
  <2>2. 0 \in 0 .. size /\ \A i \in 1 .. size : i \in 0 .. size /\ i # 0
    OBVIOUS
  <2> QED
    BY <2>1, <2>2
<1>9. size \in {i \in 0 .. size : /\ doubled[i] \in Nat
                                  /\ doubled[i] >= size \/ doubled[i] >= i + 1}
  <2> DEFINE I == {i \in 0 .. size : /\ doubled[i] \in Nat
                                     /\ doubled[i] >= size \/ doubled[i] >= i + 1}
  <2>1. 0 \in I
    BY <1>1, <1>8
  <2>2. ASSUME NEW i \in 0 .. size - 1, i \in I
        PROVE  i + 1 \in I
    <3>1. i + 1 \in 1 .. size /\ i + 1 \in 0 .. size /\ (i + 1) - 1 = i
      OBVIOUS
    <3>2. /\ doubled[i + 1] = Next2(doubled[i]) /\ doubled[i] \in Nat
          /\ doubled[i] >= size \/ doubled[i] >= i + 1
      BY <1>8, <2>2, <3>1
    <3> QED
      BY <3>1, <3>2
  <2> HIDE DEF I
  <2>3. 0 .. size \subseteq I
    BY <2>1, <2>2, IntervalInduction
  <2>4. size \in 0 .. size
    OBVIOUS
  <2> QED
    BY <2>3, <2>4 DEF I
<1>10. doubled[size] \in Nat /\ doubled[size] >= size
  BY <1>9
<1> QED
  BY <1>2, <1>10

-----------------------------------------------------------------------------
(* The invariant of the arena.                                             *)

\* The second part of a chunk's identity is its place in the chain, the first
\* the generation it was made in.
ChainOK(C, g) ==
    /\ C \in Chains /\ g \in Nat
    /\ \A i \in 1 .. Len(C) :
          /\ C[i].id[2] = i /\ C[i].id[1] <= g
          /\ C[i].used <= C[i].capacity /\ C[i].capacity >= 1

PrevOK(C, t) == t = IF C = <<>> THEN 0 ELSE BaseOf(C, Len(C))

CacheOK(C, k) ==
    k = NoCache \/ \E i \in 1 .. Len(C) : k = [id |-> C[i].id, base |-> BaseOf(C, i)]

\* A mark of this generation has its chunk; an older one may have lost it, and
\* then no chunk has its identity.
MarkOK(C, g, m) ==
    m = NoMark \/
    /\ m \in [id : Nat \X Nat, used : Nat, total_prev : Nat]
    /\ m.id[1] <= g
    /\ m.id[1] = g => m.id[2] \in 1 .. Len(C) /\ C[m.id[2]].id = m.id
    /\ \A i \in 1 .. Len(C) : C[i].id = m.id => m.total_prev = BaseOf(C, i)

\* The allocation a lies in the used words of a chunk of C, at its offset.
Lies(C, a) ==
    /\ a.at.chunk[2] \in 1 .. Len(C)
    /\ C[a.at.chunk[2]].id = a.at.chunk
    /\ a.off = BaseOf(C, a.at.chunk[2]) + a.at.local
    /\ a.at.local + a.size <= C[a.at.chunk[2]].used

Allocations == [off : Nat, size : Nat \ {0}, at : [chunk : Nat \X Nat, local : Nat]]
LiveOK(C, L) == L \subseteq Allocations /\ \A a \in L : Lies(C, a)
Apart(L) == \A a, b \in L : a = b \/ a.off + a.size <= b.off \/ b.off + b.size <= a.off
BorrowOK(g, L, b) ==
    b = NoBorrow \/
    /\ b.src_gen \in Nat /\ b.src_gen <= g
    /\ b.src_gen = g => b.alloc \in L

\* Every offset the arena has given out is the place of its allocation in the
\* chain, which only ever loses chunks at its end.
ArenaInv ==
    /\ ChainOK(chunks, generation) /\ PrevOK(chunks, total_prev)
    /\ CacheOK(chunks, cached) /\ MarkOK(chunks, generation, saved)
    /\ LiveOK(chunks, live) /\ Apart(live)
    /\ BorrowOK(generation, live, borrowed)

\* The fields of an allocation.
LEMMA AllocationFacts ==
    ASSUME NEW a \in Allocations
    PROVE  /\ a.off \in Nat /\ a.size \in Nat /\ a.size >= 1 /\ a.at.local \in Nat
           /\ a.at = [chunk |-> a.at.chunk, local |-> a.at.local]
           /\ a.at.chunk \in Nat \X Nat
BY DEF Allocations

\* A chunk is found by its identity at its place.
LEMMA IndexFound ==
    ASSUME ChainOK(chunks, generation), NEW i \in 1 .. Len(chunks)
    PROVE  IndexOf(chunks[i].id) = i
<1> DEFINE found == {j \in DOMAIN chunks : chunks[j].id = chunks[i].id}
<1>1. DOMAIN chunks = 1 .. Len(chunks)
  BY DEF ChainOK, Chains
<1>2. \A j \in found : j = i
  BY <1>1 DEF ChainOK
<1>3. i \in found
  BY <1>1
<1>4. IndexOf(chunks[i].id) = IF found = {} THEN 0 ELSE CHOOSE j \in found : TRUE
  BY DEF IndexOf
<1> HIDE DEF found
<1> QED
  BY <1>2, <1>3, <1>4

\* An identity that is found is the one of the chunk it is found at.
LEMMA IndexFinds ==
    ASSUME chunks \in Chains, NEW id, IndexOf(id) # 0
    PROVE  IndexOf(id) \in 1 .. Len(chunks) /\ chunks[IndexOf(id)].id = id
<1> DEFINE found == {j \in DOMAIN chunks : chunks[j].id = id}
<1>1. DOMAIN chunks = 1 .. Len(chunks)
  BY DEF Chains
<1>2. IndexOf(id) = IF found = {} THEN 0 ELSE CHOOSE j \in found : TRUE
  BY DEF IndexOf
<1>3. IndexOf(id) \in found
  <2> HIDE DEF found
  <2> QED
    BY <1>2
<1> QED
  BY <1>1, <1>3

\* At most one chunk holds the word at an offset.
LEMMA OneHolder ==
    ASSUME NEW C \in Chains, NEW off \in Nat, NEW i \in 1 .. Len(C), NEW j \in 1 .. Len(C),
           Holds(BaseOf(C, i), C[i], off), Holds(BaseOf(C, j), C[j], off)
    PROVE  i = j
<1>0. /\ Len(C) \in Nat /\ C[i].used \in Nat /\ C[j].used \in Nat
      /\ BaseOf(C, i) \in Nat /\ BaseOf(C, j) \in Nat
  <2>1. Len(C) \in Nat /\ C[i].used \in Nat /\ C[j].used \in Nat
    BY ChunkFacts
  <2>2. i \in 1 .. Len(C) + 1 /\ j \in 1 .. Len(C) + 1
    BY <2>1
  <2> QED
    BY <2>1, <2>2, BaseSteps
<1>1. /\ off >= BaseOf(C, i) /\ off < BaseOf(C, i) + C[i].used
      /\ off >= BaseOf(C, j) /\ off < BaseOf(C, j) + C[j].used
  BY DEF Holds
<1>2. CASE i < j
  <2>1. j \in i + 1 .. Len(C) + 1
    BY <1>0, <1>2
  <2>2. BaseOf(C, i) + C[i].used <= BaseOf(C, j)
    BY <2>1, BaseMonotone
  <2> QED
    BY <1>0, <1>1, <2>2
<1>3. CASE j < i
  <2>1. i \in j + 1 .. Len(C) + 1
    BY <1>0, <1>3
  <2>2. BaseOf(C, j) + C[j].used <= BaseOf(C, i)
    BY <2>1, BaseMonotone
  <2> QED
    BY <1>0, <1>1, <2>2
<1> QED
  BY <1>0, <1>2, <1>3

\* The chunk of an allocation holds its offset.
LEMMA LiesHolds ==
    ASSUME NEW C \in Chains, NEW a \in Allocations, Lies(C, a)
    PROVE  Holds(BaseOf(C, a.at.chunk[2]), C[a.at.chunk[2]], a.off)
<1> DEFINE i == a.at.chunk[2]
<1>1. i \in 1 .. Len(C) /\ a.off = BaseOf(C, i) + a.at.local /\ a.at.local + a.size <= C[i].used
  BY DEF Lies
<1>2. a.off \in Nat /\ a.size \in Nat /\ a.size >= 1 /\ a.at.local \in Nat
  BY AllocationFacts
<1> HIDE DEF i
<1>3. Len(C) \in Nat /\ C[i].used \in Nat
  BY <1>1, ChunkFacts
<1>4. BaseOf(C, i) \in Nat
  <2>1. i \in 1 .. Len(C) + 1
    BY <1>1, <1>3
  <2> QED
    BY <2>1, BaseSteps
<1>5. Holds(BaseOf(C, i), C[i], a.off)
  BY <1>1, <1>2, <1>3, <1>4 DEF Holds
<1> QED
  BY <1>5 DEF i

\* The walk of the chain stops at the chunk of the allocation.
LEMMA HolderFound ==
    ASSUME chunks \in Chains, NEW a \in Allocations, Lies(chunks, a)
    PROVE  Holder(a.off) = a.at.chunk[2]
<1> DEFINE i == a.at.chunk[2]
           P(x) == /\ Holds(Base(x), chunks[x], a.off)
                   /\ \A j \in 1 .. x - 1 : ~Holds(Base(j), chunks[j], a.off)
<1>1. i \in 1 .. Len(chunks) /\ Holds(Base(i), chunks[i], a.off)
  BY LiesHolds DEF Lies, Base
<1>2. a.off \in Nat /\ Len(chunks) \in Nat /\ DOMAIN chunks = 1 .. Len(chunks)
  <2>1. a.off \in Nat
    BY AllocationFacts
  <2>2. Len(chunks) \in Nat /\ DOMAIN chunks = 1 .. Len(chunks)
    BY DEF Chains
  <2> QED
    BY <2>1, <2>2
<1> HIDE DEF i
<1>3. \A x \in 1 .. Len(chunks) : Holds(Base(x), chunks[x], a.off) => x = i
  BY <1>1, <1>2, OneHolder DEF Base
<1>4. P(i)
  <2>1. \A j \in 1 .. i - 1 : j \in 1 .. Len(chunks) /\ j # i
    BY <1>1, <1>2
  <2> QED
    BY <1>1, <1>3, <2>1
<1>5. \A x \in DOMAIN chunks : P(x) => x = i
  BY <1>2, <1>3
<1>6. Holder(a.off) = CHOOSE x \in DOMAIN chunks : P(x)
  BY DEF Holder
<1> HIDE DEF P
<1>7. i \in DOMAIN chunks
  BY <1>1, <1>2
<1>8. Holder(a.off) = i
  BY <1>4, <1>5, <1>6, <1>7
<1> QED
  BY <1>8 DEF i

\* The invariant is enough: an offset leads to the words of its allocation.
LEMMA ArenaInvAnswers ==
    ASSUME ArenaInv
    PROVE  OffsetsResolve
<1>0. /\ chunks \in Chains /\ ChainOK(chunks, generation) /\ CacheOK(chunks, cached)
      /\ live \subseteq Allocations
  BY DEF ArenaInv, ChainOK, LiveOK
<1>1. ASSUME NEW a \in live
      PROVE  /\ arena_get_ptr(a.off) = a.at
             /\ a.at.local + a.size <= chunks[IndexOf(a.at.chunk)].capacity
  <2> DEFINE i == a.at.chunk[2]
  <2>1. /\ a \in Allocations /\ Lies(chunks, a)
        /\ i \in 1 .. Len(chunks) /\ chunks[i].id = a.at.chunk
        /\ a.off = Base(i) + a.at.local /\ a.at.local + a.size <= chunks[i].used
    BY <1>1 DEF ArenaInv, LiveOK, Lies, Base
  <2>2. /\ a.off \in Nat /\ a.size \in Nat /\ a.at.local \in Nat
        /\ a.at = [chunk |-> a.at.chunk, local |-> a.at.local]
    BY <2>1, AllocationFacts
  <2>3. Holds(Base(i), chunks[i], a.off) /\ Holder(a.off) = i
    BY <1>0, <2>1, LiesHolds, HolderFound DEF Base
  <2>4. Base(i) \in Nat /\ chunks[i].used \in Nat /\ chunks[i].capacity \in Nat
        /\ chunks[i].used <= chunks[i].capacity
    <3>1. Len(chunks) \in Nat /\ chunks[i].used \in Nat /\ chunks[i].capacity \in Nat
      BY <1>0, <2>1, ChunkFacts
    <3>2. i \in 1 .. Len(chunks) + 1
      BY <2>1, <3>1
    <3>3. Base(i) \in Nat
      BY <1>0, <3>2, BaseSteps DEF Base
    <3> QED
      BY <1>0, <2>1, <3>1, <3>3 DEF ChainOK
  <2>5. a.off - Base(i) = a.at.local
    BY <2>1, <2>2, <2>4
  <2>6. IndexOf(a.at.chunk) = i
    <3>1. IndexOf(chunks[i].id) = i
      BY <1>0, <2>1, IndexFound
    <3> QED
      BY <2>1, <3>1
  <2> HIDE DEF i
  <2>7. a.at.local + a.size <= chunks[i].capacity
    BY <2>1, <2>2, <2>4
  <2>8. CASE CacheHit(a.off)
    <3>1. PICK k \in 1 .. Len(chunks) : cached = [id |-> chunks[k].id, base |-> Base(k)]
      BY <1>0, <2>8 DEF CacheHit, CacheOK, Base
    <3>2. cached.id = chunks[k].id /\ cached.base = Base(k)
      BY <3>1
    <3>3. IndexOf(cached.id) = k
      <4>1. IndexOf(chunks[k].id) = k
        BY <1>0, IndexFound
      <4> QED
        BY <3>2, <4>1
    <3>4. Holds(Base(k), chunks[k], a.off)
      BY <2>8, <3>2, <3>3 DEF CacheHit
    <3>5. k = i
      BY <1>0, <2>1, <2>2, <2>3, <3>4, OneHolder DEF Base
    <3>6. arena_get_ptr(a.off) = Place(a.at.chunk, a.at.local)
      BY <2>1, <2>5, <2>8, <3>2, <3>5 DEF arena_get_ptr
    <3> QED
      BY <2>2, <2>6, <2>7, <3>6 DEF Place
  <2>9. CASE ~CacheHit(a.off)
    <3>1. arena_get_ptr(a.off) = Place(a.at.chunk, a.at.local)
      BY <2>1, <2>3, <2>5, <2>9 DEF arena_get_ptr
    <3> QED
      BY <2>2, <2>6, <2>7, <3>1 DEF Place
  <2> QED
    BY <2>8, <2>9
<1>2. \A a, b \in live : a = b \/ a.off + a.size <= b.off \/ b.off + b.size <= a.off
  BY DEF ArenaInv, Apart
<1>3. borrowed # NoBorrow /\ borrowed.src_gen = generation => borrowed.alloc \in live
  BY DEF ArenaInv, BorrowOK
<1> QED
  BY <1>1, <1>2, <1>3 DEF OffsetsResolve

-----------------------------------------------------------------------------
(* The steps of the arena.                                                 *)

\* An allocation in a chunk the chains share stays where it lies.
LEMMA StaysPut ==
    ASSUME NEW C \in Chains, NEW D \in Chains, NEW n, Shares(C, D, n),
           NEW a, Lies(C, a), a.at.chunk[2] <= n,
           a.at.local + a.size <= D[a.at.chunk[2]].used
    PROVE  Lies(D, a)
<1> DEFINE i == a.at.chunk[2]
<1>1. /\ i \in 1 .. Len(C) /\ C[i].id = a.at.chunk /\ a.off = BaseOf(C, i) + a.at.local
      /\ i <= n /\ a.at.local + a.size <= D[i].used
  BY DEF Lies
<1> HIDE DEF i
<1>2. i \in 1 .. n /\ i \in 1 .. Len(D)
  <2>1. n \in 1 .. Len(C) /\ n \in 1 .. Len(D) /\ Len(C) \in Nat /\ Len(D) \in Nat
    BY ChunkFacts DEF Shares
  <2> QED
    BY <1>1, <2>1
<1>3. BaseOf(D, i) = BaseOf(C, i)
  BY <1>2, BasePrefix
<1>4. D[i].id = C[i].id
  BY <1>2 DEF Shares
<1> QED
  BY <1>1, <1>2, <1>3, <1>4 DEF Lies, i

\* A mark stays good when the chain loses chunks at its end and the
\* generation moves on.
LEMMA MarkSurvives ==
    ASSUME NEW C \in Chains, NEW D \in Chains, NEW g \in Nat, NEW m,
           Shares(C, D, Len(D)), MarkOK(C, g, m)
    PROVE  MarkOK(D, g + 1, m)
<1> SUFFICES ASSUME m # NoMark
             PROVE  MarkOK(D, g + 1, m)
  BY DEF MarkOK
<1>1. /\ m \in [id : Nat \X Nat, used : Nat, total_prev : Nat]
      /\ m.id[1] <= g
      /\ \A i \in 1 .. Len(C) : C[i].id = m.id => m.total_prev = BaseOf(C, i)
  BY DEF MarkOK
<1>2. m.id[1] \in Nat
  BY <1>1
<1>3. m.id[1] <= g + 1 /\ m.id[1] # g + 1
  BY <1>1, <1>2
<1>4. ASSUME NEW i \in 1 .. Len(D), D[i].id = m.id
      PROVE  m.total_prev = BaseOf(D, i)
  <2>1. i \in 1 .. Len(C)
    <3>1. Len(D) \in 1 .. Len(C) /\ Len(C) \in Nat /\ Len(D) \in Nat
      BY ChunkFacts DEF Shares
    <3> QED
      BY <3>1
  <2>2. BaseOf(D, i) = BaseOf(C, i)
    BY BasePrefix
  <2>3. D[i].id = C[i].id
    BY DEF Shares
  <2> QED
    BY <1>1, <1>4, <2>1, <2>2, <2>3
<1> QED
  BY <1>1, <1>3, <1>4 DEF MarkOK

\* A reset of the chain C to D, which shares its first chunks with it, keeps
\* the invariant when the allocations that stay lie in D.
LEMMA ResetKeepsInv ==
    ASSUME ArenaInv, NEW D, D = chunks', ChainOK(D, generation + 1), Len(D) \in Nat \ {0},
           Shares(chunks, D, Len(D)), total_prev' = BaseOf(chunks, Len(D)), cached' = NoCache,
           generation' = generation + 1, UNCHANGED <<saved, borrowed>>,
           live' \subseteq live, \A a \in live' : Lies(D, a)
    PROVE  ArenaInv'
<1>1. chunks \in Chains /\ D \in Chains /\ generation \in Nat
  BY DEF ArenaInv, ChainOK
<1>2. ChainOK(chunks', generation')
  OBVIOUS
<1>3. PrevOK(chunks', total_prev')
  <2>1. Len(D) \in 1 .. Len(D)
    OBVIOUS
  <2>2. BaseOf(D, Len(D)) = BaseOf(chunks, Len(D))
    BY <1>1, <2>1, BasePrefix
  <2>3. D # <<>>
    BY <1>1
  <2> QED
    BY <2>2, <2>3 DEF PrevOK
<1>4. CacheOK(chunks', cached')
  BY DEF CacheOK
<1>5. MarkOK(chunks', generation', saved')
  <2>1. MarkOK(D, generation + 1, saved)
    BY <1>1, MarkSurvives DEF ArenaInv
  <2> QED
    BY <2>1
<1>6. LiveOK(chunks', live')
  BY DEF LiveOK, ArenaInv
<1>7. Apart(live')
  BY DEF Apart, ArenaInv
<1>8. BorrowOK(generation', live', borrowed')
  BY <1>1 DEF BorrowOK, ArenaInv
<1> QED
  BY <1>2, <1>3, <1>4, <1>5, <1>6, <1>7, <1>8 DEF ArenaInv

\* A full reset keeps the invariant.
LEMMA FullResetKeepsInv ==
    ASSUME ArenaInv, arena_reset
    PROVE  ArenaInv'
<1> DEFINE c == [chunks[1] EXCEPT !.used = 0]
           D == <<c>>
<1>1. /\ chunks \in Chains /\ generation \in Nat /\ Len(chunks) \in Nat /\ 1 \in 1 .. Len(chunks)
      /\ chunks[1] \in ChunkValues
  <2>1. chunks \in Chains /\ generation \in Nat
    BY DEF ArenaInv, ChainOK
  <2>2. chunks # <<>>
    BY DEF arena_reset
  <2>3. 1 \in 1 .. Len(chunks)
    BY <2>1, <2>2 DEF Chains
  <2> QED
    BY <2>1, <2>3, ChunkFacts
<1>2. /\ c \in ChunkValues /\ c.id = chunks[1].id /\ c.used = 0
      /\ c.capacity = chunks[1].capacity
  BY <1>1 DEF ChunkValues
<1> HIDE DEF c
<1>3. D \in Chains /\ Len(D) = 1 /\ D[1] = c
  BY <1>2 DEF Chains
<1>4. D = chunks'
  BY DEF arena_reset, c
<1> HIDE DEF D
<1>5. ChainOK(D, generation + 1)
  <2>1. /\ chunks[1].id[2] = 1 /\ chunks[1].id[1] <= generation
        /\ chunks[1].capacity >= 1 /\ chunks[1].capacity \in Nat /\ chunks[1].id[1] \in Nat
    BY <1>1 DEF ArenaInv, ChainOK, ChunkValues
  <2>2. /\ D[1].id[2] = 1 /\ D[1].id[1] <= generation + 1
        /\ D[1].used <= D[1].capacity /\ D[1].capacity >= 1
    BY <1>1, <1>2, <1>3, <2>1
  <2>3. \A i \in 1 .. Len(D) : i = 1
    BY <1>3
  <2> QED
    BY <1>1, <1>3, <2>2, <2>3 DEF ChainOK
<1>6. Shares(chunks, D, Len(D))
  BY <1>1, <1>2, <1>3 DEF Shares
<1>7. total_prev' = BaseOf(chunks, Len(D))
  BY <1>1, <1>3, BaseSteps DEF arena_reset
<1>8. cached' = NoCache /\ generation' = generation + 1 /\ UNCHANGED <<saved, borrowed>> /\ live' = {}
  BY DEF arena_reset
<1>9. Len(D) \in Nat \ {0} /\ live' \subseteq live /\ \A a \in live' : Lies(D, a)
  BY <1>3, <1>8
<1> QED
  BY <1>4, <1>5, <1>6, <1>7, <1>8, <1>9, ResetKeepsInv

\* A reset to the mark keeps the invariant: the chunk of the mark is the one
\* it was taken of, so the words before it are what they were.
LEMMA MarkResetKeepsInv ==
    ASSUME ArenaInv, arena_reset_to(saved)
    PROVE  ArenaInv'
<1> DEFINE n == IndexOf(saved.id)
           D == [SubSeq(chunks, 1, n) EXCEPT ![n].used = saved.used]
<1>1. chunks \in Chains /\ generation \in Nat /\ Len(chunks) \in Nat
  BY ChunkFacts DEF ArenaInv, ChainOK
<1>2. n \in 1 .. Len(chunks) /\ chunks[n].id = saved.id
  BY <1>1, IndexFinds DEF arena_reset_to
<1>3. saved # NoMark
  <2>1. chunks[n].id \in Nat \X Nat
    BY <1>1, <1>2, ChunkFacts DEF ChunkValues
  <2>2. chunks[n].id # <<>>
    <3>1. PICK x \in Nat, y \in Nat : chunks[n].id = <<x, y>>
      BY <2>1
    <3>2. Len(<<x, y>>) = 2 /\ Len(<<>>) = 0
      OBVIOUS
    <3> QED
      BY <3>1, <3>2
  <2> QED
    BY <1>2, <2>2 DEF NoMark
<1>4. saved.used \in Nat /\ saved.total_prev = BaseOf(chunks, n)
  BY <1>2, <1>3 DEF ArenaInv, MarkOK
<1>5. /\ D = chunks' /\ saved.used <= chunks[n].capacity /\ total_prev' = saved.total_prev
      /\ cached' = NoCache /\ generation' = generation + 1 /\ UNCHANGED <<saved, borrowed>>
      /\ live' = {a \in live : \/ IndexOf(a.at.chunk) < n
                               \/ IndexOf(a.at.chunk) = n /\ a.at.local + a.size <= saved.used}
  BY DEF arena_reset_to
<1> HIDE DEF n
<1>6. /\ D \in Chains /\ Len(D) = n
      /\ \A i \in 1 .. n - 1 : D[i] = chunks[i]
      /\ D[n].id = chunks[n].id /\ D[n].used = saved.used /\ D[n].capacity = chunks[n].capacity
  <2> DEFINE S == SubSeq(chunks, 1, n)
  <2>1. S \in Chains /\ Len(S) = n /\ \A i \in 1 .. n : S[i] = chunks[i]
    BY <1>1, <1>2 DEF Chains
  <2>2. D = [S EXCEPT ![n] = [S[n] EXCEPT !.used = saved.used]]
    OBVIOUS
  <2> HIDE DEF S, D
  <2>3. /\ chunks[n] \in ChunkValues /\ n \in 1 .. n /\ n \in Nat
    BY <1>1, <1>2, ChunkFacts
  <2> DEFINE c == [chunks[n] EXCEPT !.used = saved.used]
  <2>4. c \in ChunkValues /\ c.id = chunks[n].id /\ c.used = saved.used /\ c.capacity = chunks[n].capacity
    BY <1>4, <2>3 DEF ChunkValues
  <2>5. D = [S EXCEPT ![n] = c]
    BY <2>1, <2>2, <2>3
  <2> HIDE DEF c
  <2>6. D \in Chains /\ Len(D) = n /\ D[n] = c /\ \A i \in 1 .. n - 1 : D[i] = S[i]
    BY <2>1, <2>3, <2>4, <2>5 DEF Chains
  <2>7. \A i \in 1 .. n - 1 : i \in 1 .. n
    BY <2>3
  <2> QED
    BY <2>1, <2>4, <2>6, <2>7
<1> HIDE DEF D
<1>7. ChainOK(D, generation + 1)
  <2>1. ASSUME NEW i \in 1 .. Len(D)
        PROVE  /\ D[i].id[2] = i /\ D[i].id[1] <= generation + 1
               /\ D[i].used <= D[i].capacity /\ D[i].capacity >= 1
    <3>1. i \in 1 .. Len(chunks) /\ (i \in 1 .. n - 1 \/ i = n)
      BY <1>1, <1>2, <1>6
    <3>2. /\ chunks[i].id[2] = i /\ chunks[i].id[1] <= generation
          /\ chunks[i].used <= chunks[i].capacity /\ chunks[i].capacity >= 1
      BY <3>1 DEF ArenaInv, ChainOK
    <3>3. chunks[i].id[1] \in Nat
      BY <1>1, <3>1, ChunkFacts DEF ChunkValues
    <3>4. chunks[i].id[1] <= generation + 1
      BY <1>1, <3>2, <3>3
    <3> QED
      BY <1>5, <1>6, <3>1, <3>2, <3>4
  <2> QED
    BY <1>1, <1>6, <2>1 DEF ChainOK
<1>8. Shares(chunks, D, Len(D))
  <2>1. n \in 1 .. n /\ \A i \in 1 .. n : i = n \/ i \in 1 .. n - 1
    BY <1>1, <1>2
  <2> QED
    BY <1>2, <1>6, <2>1 DEF Shares
<1>9. ASSUME NEW a \in live'
      PROVE  Lies(D, a)
  <2> DEFINE i == a.at.chunk[2]
  <2>1. /\ a \in live /\ Lies(chunks, a)
        /\ i \in 1 .. Len(chunks) /\ chunks[i].id = a.at.chunk /\ a.at.local + a.size <= chunks[i].used
    BY <1>5, <1>9 DEF ArenaInv, LiveOK, Lies
  <2>2. IndexOf(a.at.chunk) = i
    <3>1. IndexOf(chunks[i].id) = i
      BY <2>1, IndexFound DEF ArenaInv
    <3> QED
      BY <2>1, <3>1
  <2>3. i < n \/ (i = n /\ a.at.local + a.size <= saved.used)
    BY <1>5, <1>9, <2>2
  <2>4. i <= Len(D) /\ a.at.local + a.size <= D[i].used
    <3>1. CASE i < n
      <4>1. i \in 1 .. n - 1
        BY <1>1, <1>2, <2>1, <3>1
      <4> QED
        BY <1>1, <1>2, <1>6, <2>1, <3>1, <4>1
    <3>2. CASE i = n /\ a.at.local + a.size <= saved.used
      BY <1>1, <1>2, <1>6, <3>2
    <3> QED
      BY <2>3, <3>1, <3>2
  <2> QED
    BY <1>1, <1>6, <1>8, <2>1, <2>4, StaysPut
<1>10. /\ Len(D) \in Nat \ {0} /\ live' \subseteq live
       /\ total_prev' = BaseOf(chunks, Len(D))
  BY <1>1, <1>2, <1>4, <1>5, <1>6
<1> QED
  BY <1>5, <1>7, <1>8, <1>9, <1>10, ResetKeepsInv

\* Every allocation ends where the arena's words end, or before.
LEMMA LiesBelow ==
    ASSUME ArenaInv, NEW b \in live
    PROVE  b.off + b.size <= arena_total_used /\ arena_total_used \in Nat
<1> DEFINE i == b.at.chunk[2]
           n == Len(chunks)
<1>1. chunks \in Chains /\ n \in Nat
  BY ChunkFacts DEF ArenaInv, ChainOK
<1>2. /\ b \in Allocations /\ i \in 1 .. n
      /\ b.off = BaseOf(chunks, i) + b.at.local /\ b.at.local + b.size <= chunks[i].used
  BY DEF ArenaInv, LiveOK, Lies
<1>3. b.off \in Nat /\ b.size \in Nat /\ b.at.local \in Nat
  BY <1>2, AllocationFacts
<1>4. chunks # <<>> /\ n \in 1 .. n
  BY <1>1, <1>2
<1>5. arena_total_used = BaseOf(chunks, n) + chunks[n].used
  BY <1>4 DEF arena_total_used, ArenaInv, PrevOK, current
<1> HIDE DEF i, n
<1>6. /\ i \in 1 .. n + 1 /\ n \in 1 .. n + 1
  BY <1>1, <1>2, <1>4
<1>7. /\ BaseOf(chunks, i) \in Nat /\ BaseOf(chunks, n) \in Nat
      /\ chunks[i].used \in Nat /\ chunks[n].used \in Nat
  BY <1>1, <1>2, <1>4, <1>6, BaseSteps, ChunkFacts DEF n
<1>8. BaseOf(chunks, i) + chunks[i].used <= BaseOf(chunks, n) + chunks[n].used
  <2>1. CASE i = n
    BY <1>7, <2>1
  <2>2. CASE i # n
    <3>1. n \in i + 1 .. Len(chunks) + 1
      BY <1>1, <1>2, <2>2 DEF n
    <3>2. BaseOf(chunks, i) + chunks[i].used <= BaseOf(chunks, n)
      BY <1>1, <1>2, <3>1, BaseMonotone DEF n
    <3> QED
      BY <1>7, <3>2
  <2> QED
    BY <2>1, <2>2
<1> QED
  BY <1>2, <1>3, <1>5, <1>7, <1>8

\* The chain D is C with more words used in its last chunk, or one chunk more,
\* made in generation g.
Grows(C, D, g) ==
    /\ Len(C) <= Len(D)
    /\ C # <<>> => Shares(C, D, Len(C))
    /\ \A i \in 1 .. Len(C) : C[i].used <= D[i].used
    /\ \A i \in Len(C) + 1 .. Len(D) : D[i].id[1] = g

\* A chain that grows keeps the mark: no new chunk has its identity.
LEMMA MarkOutlives ==
    ASSUME NEW C \in Chains, NEW D \in Chains, NEW g \in Nat, NEW m,
           ChainOK(D, g), Grows(C, D, g), MarkOK(C, g, m)
    PROVE  MarkOK(D, g, m)
<1> SUFFICES ASSUME m # NoMark
             PROVE  MarkOK(D, g, m)
  BY DEF MarkOK
<1>0. Len(C) \in Nat /\ Len(D) \in Nat /\ Len(C) <= Len(D)
  BY ChunkFacts DEF Grows
<1>1. /\ m \in [id : Nat \X Nat, used : Nat, total_prev : Nat]
      /\ m.id[1] <= g
      /\ m.id[1] = g => m.id[2] \in 1 .. Len(C) /\ C[m.id[2]].id = m.id
      /\ \A i \in 1 .. Len(C) : C[i].id = m.id => m.total_prev = BaseOf(C, i)
  BY DEF MarkOK
<1>2. ASSUME NEW i \in 1 .. Len(C)
      PROVE  D[i].id = C[i].id /\ BaseOf(D, i) = BaseOf(C, i) /\ i \in 1 .. Len(D)
  <2>1. C # <<>>
    BY <1>0
  <2>2. Shares(C, D, Len(C))
    BY <2>1 DEF Grows
  <2>3. D[i].id = C[i].id
    BY <2>2 DEF Shares
  <2>4. BaseOf(D, i) = BaseOf(C, i)
    BY <2>2, BasePrefix
  <2> QED
    BY <1>0, <2>3, <2>4
<1>3. m.id[1] = g => m.id[2] \in 1 .. Len(D) /\ D[m.id[2]].id = m.id
  BY <1>1, <1>2
<1>4. ASSUME NEW i \in 1 .. Len(D), D[i].id = m.id
      PROVE  m.total_prev = BaseOf(D, i)
  <2>1. i \in 1 .. Len(C)
    <3> SUFFICES ASSUME i \notin 1 .. Len(C)
                 PROVE  FALSE
      OBVIOUS
    <3>1. i \in Len(C) + 1 .. Len(D)
      BY <1>0
    <3>2. m.id[1] = g
      BY <1>4, <3>1 DEF Grows
    <3>3. m.id[2] = i
      BY <1>4 DEF ChainOK
    <3> QED
      BY <1>1, <3>2, <3>3
  <2> QED
    BY <1>1, <1>2, <1>4, <2>1
<1> QED
  BY <1>1, <1>3, <1>4 DEF MarkOK

\* The allocation of new words at the end of the arena keeps the invariant.
LEMMA GrowthKeepsInv ==
    ASSUME ArenaInv, NEW D, D = chunks', ChainOK(D, generation), Grows(chunks, D, generation),
           PrevOK(D, total_prev'), UNCHANGED <<cached, generation, saved, borrowed>>,
           NEW a \in Allocations, Lies(D, a), a.off = arena_total_used, live' = live \cup {a}
    PROVE  ArenaInv'
<1>1. /\ chunks \in Chains /\ D \in Chains /\ generation \in Nat
      /\ Len(chunks) \in Nat /\ Len(D) \in Nat /\ Len(chunks) <= Len(D)
  <2>1. chunks \in Chains /\ D \in Chains /\ generation \in Nat
    BY DEF ArenaInv, ChainOK
  <2> QED
    BY <2>1, ChunkFacts DEF Grows
<1>2. ASSUME NEW i \in 1 .. Len(chunks)
      PROVE  /\ Shares(chunks, D, Len(chunks))
             /\ D[i].id = chunks[i].id /\ BaseOf(D, i) = BaseOf(chunks, i)
             /\ i \in 1 .. Len(D)
  <2>1. chunks # <<>>
    BY <1>1
  <2>2. Shares(chunks, D, Len(chunks))
    BY <2>1 DEF Grows
  <2>3. D[i].id = chunks[i].id
    BY <2>2 DEF Shares
  <2>4. BaseOf(D, i) = BaseOf(chunks, i)
    BY <1>1, <2>2, BasePrefix
  <2> QED
    BY <1>1, <2>2, <2>3, <2>4
<1>3. CacheOK(chunks', cached')
  <2>1. CASE cached = NoCache
    BY <2>1 DEF CacheOK
  <2>2. CASE cached # NoCache
    <3>1. PICK i \in 1 .. Len(chunks) : cached = [id |-> chunks[i].id, base |-> BaseOf(chunks, i)]
      BY <2>2 DEF ArenaInv, CacheOK
    <3>2. cached' = [id |-> D[i].id, base |-> BaseOf(D, i)] /\ i \in 1 .. Len(D)
      BY <1>2, <3>1
    <3> QED
      BY <3>2 DEF CacheOK
  <2> QED
    BY <2>1, <2>2
<1>4. MarkOK(chunks', generation', saved')
  <2>1. MarkOK(D, generation, saved)
    BY <1>1, MarkOutlives DEF ArenaInv
  <2> QED
    BY <2>1
<1>5. LiveOK(chunks', live')
  <2>1. ASSUME NEW b \in live
        PROVE  b \in Allocations /\ Lies(D, b)
    <3> DEFINE i == b.at.chunk[2]
    <3>1. /\ b \in Allocations /\ Lies(chunks, b) /\ i \in 1 .. Len(chunks)
          /\ b.at.local + b.size <= chunks[i].used
      BY DEF ArenaInv, LiveOK, Lies
    <3>2. b.at.local \in Nat /\ b.size \in Nat
      BY <3>1, AllocationFacts
    <3> HIDE DEF i
    <3>3. /\ chunks[i].used \in Nat /\ D[i].used \in Nat /\ chunks[i].used <= D[i].used
          /\ i <= Len(chunks) /\ Shares(chunks, D, Len(chunks))
      BY <1>1, <1>2, <3>1, ChunkFacts DEF Grows
    <3>4. b.at.local + b.size <= D[i].used
      BY <3>1, <3>2, <3>3
    <3> QED
      BY <1>1, <3>1, <3>3, <3>4, StaysPut DEF i
  <2> QED
    BY <2>1 DEF LiveOK
<1>6. Apart(live')
  <2>1. \A b \in live : b.off + b.size <= a.off
    BY LiesBelow
  <2> QED
    BY <2>1 DEF ArenaInv, Apart
<1>7. BorrowOK(generation', live', borrowed')
  BY DEF ArenaInv, BorrowOK
<1>8. ChainOK(chunks', generation') /\ PrevOK(chunks', total_prev')
  OBVIOUS
<1> QED
  BY <1>3, <1>4, <1>5, <1>6, <1>7, <1>8 DEF ArenaInv

\* An allocation in the current chunk keeps the invariant.
LEMMA FitKeepsInv ==
    ASSUME ArenaInv, NEW size \in Nat \ {0}, arena_alloc_raw(size),
           chunks # <<>>, size <= current.capacity - current.used
    PROVE  ArenaInv'
<1> DEFINE n == Len(chunks)
           c == [chunks[n] EXCEPT !.used = @ + size]
           D == [chunks EXCEPT ![n] = c]
           a == [off |-> arena_total_used, size |-> size, at |-> Place(chunks[n].id, chunks[n].used)]
<1>1. /\ chunks \in Chains /\ generation \in Nat /\ n \in Nat /\ n \in 1 .. n
      /\ chunks[n] \in ChunkValues
  <2>1. chunks \in Chains /\ generation \in Nat
    BY DEF ArenaInv, ChainOK
  <2>2. n \in Nat /\ n \in 1 .. n
    BY <2>1 DEF Chains
  <2> QED
    BY <2>1, <2>2, ChunkFacts
<1>2. /\ chunks[n].id \in Nat \X Nat /\ chunks[n].used \in Nat /\ chunks[n].capacity \in Nat
      /\ size <= chunks[n].capacity - chunks[n].used
  BY <1>1 DEF ChunkValues, current
<1>3. /\ c \in ChunkValues /\ c.id = chunks[n].id /\ c.used = chunks[n].used + size
      /\ c.capacity = chunks[n].capacity
  BY <1>1, <1>2 DEF ChunkValues
<1>4. size > current.capacity - current.used <=> FALSE
  BY <1>2 DEF current
<1>5. /\ D = chunks' /\ total_prev' = total_prev /\ live' = live \cup {a}
      /\ UNCHANGED <<cached, generation, saved, borrowed>>
  BY <1>4 DEF arena_alloc_raw, current
<1>6. a \in Allocations /\ a.off = arena_total_used /\ a.size = size
      /\ a.at.chunk = chunks[n].id /\ a.at.local = chunks[n].used
  <2>1. arena_total_used = BaseOf(chunks, n) + chunks[n].used
    BY DEF arena_total_used, ArenaInv, PrevOK, current
  <2>2. BaseOf(chunks, n) \in Nat
    <3>1. n \in 1 .. Len(chunks) + 1
      BY <1>1
    <3> QED
      BY <1>1, <3>1, BaseSteps
  <2>3. arena_total_used \in Nat
    BY <1>2, <2>1, <2>2
  <2> QED
    BY <1>2, <2>3 DEF Allocations, Place
<1>7. arena_total_used = BaseOf(chunks, n) + chunks[n].used
  BY DEF arena_total_used, ArenaInv, PrevOK, current
<1> HIDE DEF a, c
<1>8. D \in Chains /\ Len(D) = n /\ D[n] = c /\ \A i \in 1 .. n - 1 : D[i] = chunks[i]
  BY <1>1, <1>3 DEF Chains
<1> HIDE DEF D
<1>9. \A i \in 1 .. n : i = n \/ i \in 1 .. n - 1
  BY <1>1
<1>10. ChainOK(D, generation)
  <2>1. ASSUME NEW i \in 1 .. n
        PROVE  /\ D[i].id[2] = i /\ D[i].id[1] <= generation
               /\ D[i].used <= D[i].capacity /\ D[i].capacity >= 1
    <3>1. /\ chunks[i].id[2] = i /\ chunks[i].id[1] <= generation
          /\ chunks[i].used <= chunks[i].capacity /\ chunks[i].capacity >= 1
      BY DEF ArenaInv, ChainOK
    <3>2. CASE i = n
      BY <1>2, <1>3, <1>8, <3>1, <3>2
    <3>3. CASE i \in 1 .. n - 1
      BY <1>8, <3>1, <3>3
    <3> QED
      BY <1>9, <3>2, <3>3
  <2> QED
    BY <1>1, <1>8, <2>1 DEF ChainOK
<1>11. Shares(chunks, D, n)
  BY <1>1, <1>3, <1>8, <1>9 DEF Shares
<1>12. Grows(chunks, D, generation)
  <2>1. \A i \in 1 .. n : chunks[i].used <= D[i].used
    <3> TAKE i \in 1 .. n
    <3>1. chunks[i].used \in Nat
      BY <1>1, ChunkFacts
    <3> QED
      BY <1>2, <1>3, <1>8, <1>9, <3>1
  <2>2. n + 1 .. n = {} /\ n <= n
    BY <1>1
  <2> QED
    BY <1>8, <1>11, <2>1, <2>2 DEF Grows
<1>13. BaseOf(D, n) = BaseOf(chunks, n)
  BY <1>1, <1>8, <1>11, BasePrefix
<1>14. PrevOK(D, total_prev')
  <2>1. D # <<>>
    BY <1>1, <1>8
  <2>2. total_prev = BaseOf(chunks, n)
    BY DEF ArenaInv, PrevOK
  <2> QED
    BY <1>5, <1>8, <1>13, <2>1, <2>2 DEF PrevOK
<1>15. Lies(D, a)
  <2>1. chunks[n].id[2] = n
    BY <1>1 DEF ArenaInv, ChainOK
  <2>2. a.at.local + a.size <= D[n].used
    BY <1>2, <1>3, <1>6, <1>8
  <2> QED
    BY <1>1, <1>3, <1>6, <1>7, <1>8, <1>13, <2>1, <2>2 DEF Lies
<1> QED
  BY <1>5, <1>6, <1>10, <1>12, <1>14, <1>15, GrowthKeepsInv

\* An allocation that spills into a new chunk keeps the invariant.
LEMMA SpillKeepsInv ==
    ASSUME ArenaInv, CHUNK_WORDS \in Nat \ {0}, NEW size \in Nat \ {0}, arena_alloc_raw(size),
           chunks = <<>> \/ size > current.capacity - current.used
    PROVE  ArenaInv'
<1> DEFINE n == Len(chunks)
           id == <<generation, n + 1>>
           cap == next_chunk_capacity(size)
           c == [id |-> id, used |-> size, capacity |-> cap]
           D == Append(chunks, c)
           a == [off |-> arena_total_used, size |-> size, at |-> Place(id, 0)]
<1>1. chunks \in Chains /\ generation \in Nat /\ n \in Nat
  BY ChunkFacts DEF ArenaInv, ChainOK
<1>2. cap \in Nat /\ cap >= size
  <2>1. \A i \in 1 .. Len(chunks) : chunks[i].capacity >= 1
    BY DEF ArenaInv, ChainOK
  <2> QED
    BY <1>1, <2>1, RoomyChunk
<1>3. [Chunk(id, cap) EXCEPT !.used = size] = c
  BY DEF Chunk
<1>4. Chunk(id, cap).id = id /\ Chunk(id, cap).used = 0
  BY DEF Chunk
<1>5. /\ D = chunks' /\ live' = live \cup {a}
      /\ total_prev' = IF chunks # <<>> THEN total_prev + current.used ELSE total_prev
      /\ UNCHANGED <<cached, generation, saved, borrowed>>
  <2> HIDE DEF cap, c
  <2> QED
    BY <1>3, <1>4 DEF arena_alloc_raw, id, cap
<1> HIDE DEF cap
<1>6. id \in Nat \X Nat /\ id[1] = generation /\ id[2] = n + 1
  BY <1>1
<1> HIDE DEF id
<1>7. c \in ChunkValues /\ c.id = id /\ c.used = size /\ c.capacity = cap
  BY <1>2, <1>6 DEF ChunkValues
<1> HIDE DEF c
<1>8. D \in Chains /\ Len(D) = n + 1 /\ D[n + 1] = c /\ \A i \in 1 .. n : D[i] = chunks[i]
  BY <1>1, <1>7 DEF Chains
<1> HIDE DEF D
<1>9. \A i \in 1 .. n + 1 : i = n + 1 \/ i \in 1 .. n
  BY <1>1
<1>10. ChainOK(D, generation)
  <2>1. ASSUME NEW i \in 1 .. n + 1
        PROVE  /\ D[i].id[2] = i /\ D[i].id[1] <= generation
               /\ D[i].used <= D[i].capacity /\ D[i].capacity >= 1
    <3>1. CASE i = n + 1
      BY <1>1, <1>2, <1>6, <1>7, <1>8, <3>1
    <3>2. CASE i \in 1 .. n
      BY <1>8, <3>2 DEF ArenaInv, ChainOK
    <3> QED
      BY <1>9, <3>1, <3>2
  <2> QED
    BY <1>1, <1>8, <2>1 DEF ChainOK
<1>11. chunks # <<>> => Shares(chunks, D, n)
  <2> SUFFICES ASSUME chunks # <<>>
               PROVE  Shares(chunks, D, n)
    OBVIOUS
  <2>1. n \in 1 .. n /\ n \in 1 .. Len(D) /\ \A i \in 1 .. n - 1 : i \in 1 .. n
    BY <1>1, <1>8 DEF Chains
  <2> QED
    BY <1>8, <2>1 DEF Shares
<1>12. Grows(chunks, D, generation)
  <2>1. \A i \in 1 .. n : chunks[i].used <= D[i].used
    <3> TAKE i \in 1 .. n
    <3>1. chunks[i].used \in Nat
      BY <1>1, ChunkFacts
    <3> QED
      BY <1>8, <3>1
  <2>2. \A i \in n + 1 .. n + 1 : i = n + 1
    BY <1>1
  <2>3. n <= n + 1
    BY <1>1
  <2> QED
    BY <1>6, <1>7, <1>8, <1>11, <2>1, <2>2, <2>3 DEF Grows
<1>13. arena_total_used = BaseOf(D, n + 1) /\ total_prev' = BaseOf(D, n + 1)
       /\ BaseOf(D, n + 1) \in Nat
  <2>1. CASE chunks = <<>>
    <3>1. n = 0
      BY <2>1
    <3>2. BaseOf(D, n + 1) = 0
      BY <1>8, <3>1, BaseSteps
    <3> QED
      BY <1>5, <2>1, <3>2 DEF arena_total_used, ArenaInv, PrevOK
  <2>2. CASE chunks # <<>>
    <3>1. n \in 1 .. n /\ n \in 1 .. Len(D) /\ n + 1 \in 1 .. Len(D) + 1
      BY <1>1, <1>8, <2>2 DEF Chains
    <3>2. BaseOf(D, n + 1) = BaseOf(D, n) + D[n].used /\ BaseOf(D, n + 1) \in Nat
      BY <1>8, <3>1, BaseSteps
    <3>3. BaseOf(D, n) = BaseOf(chunks, n)
      BY <1>1, <1>8, <1>11, <2>2, <3>1, BasePrefix
    <3>4. D[n] = chunks[n]
      BY <1>8, <3>1
    <3>5. total_prev = BaseOf(chunks, n)
      BY <2>2 DEF ArenaInv, PrevOK
    <3> QED
      BY <1>5, <2>2, <3>2, <3>3, <3>4, <3>5 DEF arena_total_used, current
  <2> QED
    BY <2>1, <2>2
<1>14. PrevOK(D, total_prev')
  <2>1. D # <<>>
    BY <1>1, <1>8
  <2> QED
    BY <1>8, <1>13, <2>1 DEF PrevOK
<1>15. /\ a \in Allocations /\ a.off = arena_total_used /\ a.size = size
       /\ a.at.chunk = id /\ a.at.local = 0
  BY <1>6, <1>13 DEF Allocations, Place
<1> HIDE DEF a
<1>16. Lies(D, a)
  <2>1. n + 1 \in 1 .. n + 1 /\ 0 + size <= size
    BY <1>1
  <2>2. a.off = BaseOf(D, n + 1) + 0
    BY <1>13, <1>15
  <2> QED
    BY <1>6, <1>7, <1>8, <1>15, <2>1, <2>2 DEF Lies
<1> QED
  BY <1>5, <1>10, <1>12, <1>14, <1>15, <1>16, GrowthKeepsInv

\* A reader leaves the chunk of its allocation in the cache, or the cache as
\* it was, and holds the allocation of this generation.
LEMMA ReadKeepsInv ==
    ASSUME ArenaInv, NEW a \in live, ReadPayload(a)
    PROVE  ArenaInv'
<1>1. /\ chunks \in Chains /\ a \in Allocations /\ Lies(chunks, a)
      /\ a.at.chunk[2] \in 1 .. Len(chunks) /\ generation \in Nat
  BY DEF ArenaInv, ChainOK, LiveOK, Lies
<1>2. Holder(a.off) = a.at.chunk[2]
  BY <1>1, HolderFound
<1>3. CacheOK(chunks, cached')
  <2>1. CASE CacheHit(a.off)
    BY <2>1 DEF ReadPayload, ArenaInv
  <2>2. CASE ~CacheHit(a.off)
    <3>1. cached' = [id |-> chunks[a.at.chunk[2]].id, base |-> BaseOf(chunks, a.at.chunk[2])]
      BY <1>2, <2>2 DEF ReadPayload, Base
    <3> QED
      BY <1>1, <3>1 DEF CacheOK
  <2> QED
    BY <2>1, <2>2
<1>4. BorrowOK(generation, live, borrowed')
  <2>1. borrowed'.src_gen = generation /\ borrowed'.alloc = a
    BY DEF ReadPayload
  <2> QED
    BY <1>1, <2>1 DEF BorrowOK
<1>5. UNCHANGED <<chunks, total_prev, generation, saved, live>>
  BY DEF ReadPayload
<1> QED
  BY <1>3, <1>4, <1>5 DEF ArenaInv

\* A mark is of the current chunk.
LEMMA MarkKeepsInv ==
    ASSUME ArenaInv, arena_mark
    PROVE  ArenaInv'
<1> DEFINE n == Len(chunks)
<1>1. chunks \in Chains /\ generation \in Nat /\ n \in Nat /\ n \in 1 .. n
  <2>1. chunks \in Chains /\ generation \in Nat /\ chunks # <<>>
    BY DEF ArenaInv, ChainOK, arena_mark
  <2> QED
    BY <2>1 DEF Chains
<1>2. chunks[n] \in ChunkValues
  BY <1>1, ChunkFacts
<1>3. saved' = [id |-> chunks[n].id, used |-> chunks[n].used, total_prev |-> total_prev]
  BY DEF arena_mark, current
<1>4. total_prev = BaseOf(chunks, n)
  BY DEF ArenaInv, PrevOK, arena_mark
<1>5. BaseOf(chunks, n) \in Nat
  <2>1. n \in 1 .. Len(chunks) + 1
    BY <1>1
  <2> QED
    BY <1>1, <2>1, BaseSteps
<1>6. \A i \in 1 .. n : chunks[i].id[2] = i /\ chunks[i].id[1] <= generation
  BY DEF ArenaInv, ChainOK
<1>7. /\ saved' \in [id : Nat \X Nat, used : Nat, total_prev : Nat]
      /\ saved'.id = chunks[n].id /\ saved'.total_prev = BaseOf(chunks, n)
  BY <1>2, <1>3, <1>4, <1>5 DEF ChunkValues
<1>8. MarkOK(chunks, generation, saved')
  <2>1. saved'.id[1] <= generation /\ saved'.id[2] = n
    BY <1>1, <1>6, <1>7
  <2>2. \A i \in 1 .. n : chunks[i].id = saved'.id => i = n
    BY <1>6, <2>1
  <2> QED
    BY <1>1, <1>7, <2>1, <2>2 DEF MarkOK
<1>9. UNCHANGED <<chunks, total_prev, cached, generation, live, borrowed>>
  BY DEF arena_mark
<1> QED
  BY <1>8, <1>9 DEF ArenaInv

\* arena_init establishes the invariant, and every step of the arena keeps it.
THEOREM ArenaInductive ==
    /\ arena_init => ArenaInv
    /\ ArenaInv /\ [ArenaNext]_arenaVars => ArenaInv'
<1>1. arena_init => ArenaInv
  <2> SUFFICES ASSUME arena_init
               PROVE  ArenaInv
    OBVIOUS
  <2>1. ChainOK(chunks, generation)
    <3>1. <<>> \in Chains /\ Len(<<>>) = 0
      BY DEF Chains
    <3> QED
      BY <3>1 DEF arena_init, ChainOK
  <2>2. PrevOK(chunks, total_prev) /\ CacheOK(chunks, cached) /\ MarkOK(chunks, generation, saved)
    BY DEF arena_init, PrevOK, CacheOK, MarkOK
  <2>3. LiveOK(chunks, live) /\ Apart(live) /\ BorrowOK(generation, live, borrowed)
    BY DEF arena_init, LiveOK, Apart, BorrowOK
  <2> QED
    BY <2>1, <2>2, <2>3 DEF ArenaInv
<1>2. ArenaInv /\ [ArenaNext]_arenaVars => ArenaInv'
  <2> SUFFICES ASSUME ArenaInv, [ArenaNext]_arenaVars
               PROVE  ArenaInv'
    OBVIOUS
  <2>1. ASSUME NEW size \in AllocSizes, arena_alloc_raw(size)
        PROVE  ArenaInv'
    <3>1. size \in Nat \ {0} /\ CHUNK_WORDS \in Nat \ {0}
      BY ArenaAssumption
    <3>2. CASE chunks = <<>> \/ size > current.capacity - current.used
      BY <2>1, <3>1, <3>2, SpillKeepsInv
    <3>3. CASE ~(chunks = <<>> \/ size > current.capacity - current.used)
      <4>1. current.capacity \in Nat /\ current.used \in Nat /\ chunks # <<>>
        <5>1. chunks \in Chains /\ chunks # <<>>
          BY <3>3 DEF ArenaInv, ChainOK
        <5>2. Len(chunks) \in 1 .. Len(chunks)
          BY <5>1 DEF Chains
        <5> QED
          BY <5>1, <5>2, ChunkFacts DEF current
      <4>2. size <= current.capacity - current.used
        BY <3>1, <3>3, <4>1
      <4> QED
        BY <2>1, <3>1, <4>1, <4>2, FitKeepsInv
    <3> QED
      BY <3>2, <3>3
  <2>2. ASSUME NEW a \in live, ReadPayload(a)
        PROVE  ArenaInv'
    BY <2>2, ReadKeepsInv
  <2>3. CASE arena_mark
    BY <2>3, MarkKeepsInv
  <2>4. CASE arena_reset_to(saved)
    BY <2>4, MarkResetKeepsInv
  <2>5. CASE arena_reset
    BY <2>5, FullResetKeepsInv
  <2>6. CASE UNCHANGED arenaVars
    BY <2>6 DEF arenaVars, ArenaInv
  <2> QED
    BY <2>1, <2>2, <2>3, <2>4, <2>5, <2>6 DEF ArenaNext
<1> QED
  BY <1>1, <1>2

\* The invariant holds in every state of the arena.
THEOREM ArenaInvariance == ArenaSpec => []ArenaInv
<1>1. arena_init => ArenaInv
  BY ArenaInductive
<1>2. ArenaInv /\ [ArenaNext]_arenaVars => ArenaInv'
  BY ArenaInductive
<1> QED
  BY <1>1, <1>2, PTL DEF ArenaSpec

\* For every chunk size and every order of allocations, reads, marks and
\* resets, the offset of an allocation leads to its own words, which lie in
\* its chunk and are no other allocation's, and a borrowed pointer whose
\* generation still stands is to an allocation no reset has taken back
\* (arena_alloc_raw, arena_get_ptr, arena_reset, arena_reset_to).
THEOREM ArenaCorrect == ArenaSpec => []OffsetsResolve
<1>1. ArenaInv => OffsetsResolve
  BY ArenaInvAnswers
<1> QED
  BY <1>1, ArenaInvariance, PTL

-----------------------------------------------------------------------------
(* The intern pool: keys.                                                  *)

\* A key of the pool has its payload, and no field is said by being absent.
LEMMA FieldsFacts ==
    ASSUME NEW k, WellFormed(k)
    PROVE  /\ k = Key(k.kind, k.fields) /\ k.fields \in Seq(Int)
           /\ Len(k.fields) \in Nat /\ Len(k.fields) >= 1
           /\ k.kind \in Mutability \cup Single \cup Stored
BY DEF WellFormed

\* The keys asked for are well formed.
LEMMA AskedWellFormed ==
    ASSUME NEW k \in Asked
    PROVE  WellFormed(k)
<1>1. CASE k \in Keys
  BY <1>1, InternAssumption
<1>2. CASE k \in FreshVars
  <2>1. PICK kind \in {"row_var", "type_var"}, n \in 1 .. MaxFreshVars : k = Key(kind, <<n>>)
    BY <1>2 DEF FreshVars, VarKinds
  <2>2. n \in Int
    BY <2>1, InternAssumption
  <2>3. <<n>> \in Seq(Int) /\ Len(<<n>>) = 1
    BY <2>2
  <2>4. k.kind = kind /\ k.fields = <<n>>
    BY <2>1 DEF Key
  <2> QED
    BY <2>1, <2>3, <2>4 DEF WellFormed, Single
<1>3. CASE k \in Reserved
  <2>1. PICK i \in 1 .. 5 : k = ReservedCompounds[i]
    BY <1>3 DEF Reserved
  <2>2. IP_EMPTY_EFFECT_ROW \in Int
    BY InternAssumption DEF IP_EMPTY_EFFECT_ROW, ReservedBase
  <2>3. CASE i = 5
    <3>1. k = Key("effect_row", <<0, IP_EMPTY_EFFECT_ROW>>)
      BY <2>1, <2>3 DEF ReservedCompounds
    <3>2. k.kind = "effect_row" /\ k.fields = <<0, IP_EMPTY_EFFECT_ROW>>
      BY <3>1 DEF Key
    <3>3. <<0, IP_EMPTY_EFFECT_ROW>> \in Seq(Int) /\ Len(<<0, IP_EMPTY_EFFECT_ROW>>) = 2
      BY <2>2
    <3> DEFINE t == <<0, IP_EMPTY_EFFECT_ROW>>
    <3>4. k = Key("effect_row", t) /\ k.fields = t /\ t \in Seq(Int) /\ Len(t) = 2
      BY <3>1, <3>2, <3>3
    <3> HIDE DEF t
    <3>5. k = Key(k.kind, k.fields) /\ k.fields \in Seq(Int) /\ Len(k.fields) >= 1
      BY <3>2, <3>4
    <3>6. k.kind \in Stored
      BY <3>2 DEF Stored
    <3> QED
      BY <3>5, <3>6 DEF WellFormed
  <2>4. CASE i # 5
    <3>1. \E kind \in {"ptr", "slice"}, p \in {IP_U8_TYPE, IP_VOID_TYPE}, c \in {0, 1} :
            k = Key(kind, <<p, c>>)
      BY <2>1, <2>4 DEF ReservedCompounds
    <3>2. PICK kind \in {"ptr", "slice"}, p \in {IP_U8_TYPE, IP_VOID_TYPE}, c \in {0, 1} :
            k = Key(kind, <<p, c>>)
      BY <3>1
    <3>3. k.kind = kind /\ k.fields = <<p, c>>
      BY <3>2 DEF Key
    <3>4. p \in Int /\ c \in Int
      BY DEF IP_U8_TYPE, IP_VOID_TYPE
    <3>5. <<p, c>> \in Seq(Int) /\ Len(<<p, c>>) = 2 /\ <<p, c>>[2] \in {0, 1}
      BY <3>4
    <3> QED
      BY <3>2, <3>3, <3>5 DEF WellFormed, Mutability
  <2> QED
    BY <2>3, <2>4
<1> QED
  BY <1>1, <1>2, <1>3 DEF Asked

\* Closing a key keeps its kind, and a closed key is closed.
LEMMA ClosedFacts ==
    ASSUME NEW k, WellFormed(k)
    PROVE  /\ WellFormed(Closed(k)) /\ Closed(k).kind = k.kind
           /\ Closed(Closed(k)) = Closed(k)
           /\ k.kind \notin Stored => Closed(k) = k
<1> DEFINE e == IP_EMPTY_EFFECT_ROW
           last == Len(k.fields)
           g == [k.fields EXCEPT ![last] = e]
<1>1. e \in Int /\ e # IP_NONE
  BY InternAssumption DEF IP_EMPTY_EFFECT_ROW, ReservedBase, IP_NONE
<1>2. /\ k = Key(k.kind, k.fields) /\ k.fields \in Seq(Int) /\ last \in 1 .. Len(k.fields)
      /\ last \in Nat
  BY FieldsFacts
<1>3. CASE k.kind \in {"fn", "effect_row"} /\ k.fields[last] = IP_NONE
  <2>1. Closed(k) = Key(k.kind, g)
    BY <1>3 DEF Closed
  <2>2. g \in Seq(Int) /\ Len(g) = last /\ g[last] = e
    BY <1>1, <1>2
  <2> HIDE DEF g
  <2>3. Closed(k).kind = k.kind /\ Closed(k).fields = g
    BY <2>1 DEF Key
  <2>4. Closed(Closed(k)) = Closed(k)
    <3> DEFINE c == Closed(k)
    <3>1. c.fields[Len(c.fields)] # IP_NONE
      BY <1>1, <2>2, <2>3
    <3> HIDE DEF c
    <3> QED
      BY <3>1 DEF Closed, c
  <2>5. k.kind \in Stored
    BY <1>3 DEF Stored
  <2> QED
    BY <1>2, <2>1, <2>2, <2>3, <2>4, <2>5 DEF WellFormed
<1>4. CASE ~(k.kind \in {"fn", "effect_row"} /\ k.fields[last] = IP_NONE)
  <2>1. Closed(k) = k
    BY <1>4 DEF Closed
  <2> QED
    BY <2>1
<1> QED
  BY <1>3, <1>4

\* The keys in the pool.
LEMMA PoolKeyFacts ==
    ASSUME NEW k \in PoolKeys
    PROVE  /\ WellFormed(k) /\ Closed(k) = k /\ hash_key(k) \in [bucket : Nat, high : Nat]
           /\ hash_key(k).bucket \in Nat /\ hash_key(k).high \in Nat
<1>1. PICK a \in Asked : k = Closed(a)
  BY DEF PoolKeys
<1>2. WellFormed(a)
  BY AskedWellFormed
<1>3. WellFormed(k) /\ Closed(k) = k
  BY <1>1, <1>2, ClosedFacts
<1>4. hash_key(k) \in [bucket : Nat, high : Nat]
  BY <1>3, InternAssumption DEF hash_key
<1> QED
  BY <1>3, <1>4

\* A key asked for and the key it is stored as.
LEMMA AskedFacts ==
    ASSUME NEW k \in Asked
    PROVE  /\ WellFormed(k) /\ Closed(k) \in PoolKeys
           /\ hash_key(k) = hash_key(Closed(k))
<1>1. WellFormed(k)
  BY AskedWellFormed
<1>2. Closed(k) \in PoolKeys
  BY DEF PoolKeys
<1>3. Closed(Closed(k)) = Closed(k)
  BY <1>1, ClosedFacts
<1> QED
  BY <1>1, <1>2, <1>3 DEF hash_key

-----------------------------------------------------------------------------
(* The intern pool: buckets.                                               *)

\* A probe stops at the first slot of S on its way.
LEMMA FirstFromStops ==
    ASSUME NEW n \in Nat \ {0}, NEW r \in 0 .. n - 1, NEW S, NEW f \in 0 .. n - 1, f \in S
    PROVE  /\ FirstFrom(S, r, n) \in 0 .. n - 1 /\ FirstFrom(S, r, n) \in S
           /\ \A m \in 0 .. n - 1 : InArc(m, r, FirstFrom(S, r, n)) => m \notin S
<1> DEFINE At(d) == (r + d) % n
           First(d) == At(d) \in S /\ \A c \in 0 .. d - 1 : At(c) \notin S
           D == {d \in 0 .. n - 1 : At(d) \in S}
           x == CHOOSE d \in 0 .. n - 1 : First(d)
<1>1. FirstFrom(S, r, n) = At(x)
  BY DEF FirstFrom
<1>2. \A d \in 0 .. n - 1 : At(d) = IF r + d < n THEN r + d ELSE r + d - n
  BY CyclicValue DEF Cyclic
<1> HIDE DEF At
<1>3. \A m \in 0 .. n - 1 : \E d \in 0 .. n - 1 :
        /\ At(d) = m
        /\ d = IF r <= m THEN m - r ELSE m - r + n
  <2> TAKE m \in 0 .. n - 1
  <2> DEFINE d == IF r <= m THEN m - r ELSE m - r + n
  <2>1. d \in 0 .. n - 1 /\ (IF r + d < n THEN r + d ELSE r + d - n) = m
    OBVIOUS
  <2>3. d = IF r <= m THEN m - r ELSE m - r + n
    OBVIOUS
  <2> HIDE DEF d
  <2>2. At(d) = m
    BY <1>2, <2>1
  <2> QED
    BY <2>1, <2>2, <2>3
<1>4. D \subseteq Nat /\ D # {}
  <2>1. PICK d \in 0 .. n - 1 : At(d) = f
    BY <1>3
  <2> QED
    BY <2>1
<1>5. PICK d \in D : \A c \in D : d <= c
  <2> HIDE DEF D
  <2> QED
    BY <1>4, LeastOf
<1>6. d \in 0 .. n - 1 /\ First(d)
  BY <1>5
<1>7. x \in 0 .. n - 1 /\ First(x)
  <2> HIDE DEF First
  <2> QED
    BY <1>6
<1> HIDE DEF x
<1>8. At(x) = IF r + x < n THEN r + x ELSE r + x - n
  BY <1>2, <1>7
<1>9. At(x) \in 0 .. n - 1
  BY <1>7, <1>8
<1>10. ASSUME NEW m \in 0 .. n - 1, InArc(m, r, At(x))
       PROVE  m \notin S
  <2>1. PICK c \in 0 .. n - 1 :
          /\ At(c) = m
          /\ c = IF r <= m THEN m - r ELSE m - r + n
    BY <1>3
  <2>2. c \in 0 .. x - 1
    BY <1>7, <1>8, <1>10, <2>1 DEF InArc
  <2> QED
    BY <1>7, <2>1, <2>2
<1> QED
  BY <1>1, <1>7, <1>9, <1>10

\* The slots that are not free.
Used(b) == Slots(b) \ Free(b)

\* The way from the slot the key x hashes to, to slot i, in a table of n slots.
OnWay(m, k, n, i) == InArc(m, hash_key(k).bucket % n, i)

(***************************************************************************)
(* The buckets b are sound for the items L with the keys K: each of them   *)
(* has one bucket, with the hash of its key, and no slot on the way to it  *)
(* is free.  The other buckets are of the items R, which are removed.      *)
(***************************************************************************)
SoundBuckets(L, R, K, b) ==
    /\ b.count \in Nat /\ b.count > 1
    /\ b.slot \in [Slots(b) -> [high : Nat, item : Nat]]
    /\ b.used = Cardinality(Used(b)) /\ b.used < b.count
    /\ \A i \in Used(b) : b.slot[i].item \in L \cup R
    /\ \A i, j \in Used(b) : b.slot[i].item \in L /\ b.slot[i].item = b.slot[j].item => i = j
    /\ \A x \in L : \E i \in Used(b) : b.slot[i].item = x
    /\ \A i \in Used(b) :
          b.slot[i].item \in L => b.slot[i].high = hash_key(K[b.slot[i].item]).high
    /\ \A i \in Used(b), m \in Slots(b) :
          b.slot[i].item \in L /\ OnWay(m, K[b.slot[i].item], b.count, i) => m \in Used(b)

\* In the pool, the items P decode to different keys K, and R are removed.
Decodes(pool, arena, P, R, K) ==
    /\ P \subseteq Nat \ {0} /\ R \subseteq Nat \ {0}
    /\ K \in [P -> PoolKeys] /\ \A x, y \in P : K[x] = K[y] => x = y
    /\ \A x \in P : pool[x].tag # Removed /\ ip_key_internal(pool, arena, x - 1) = K[x]
    /\ \A x \in R : pool[x].tag = Removed

\* The slots of a table.
LEMMA BucketSlots ==
    ASSUME NEW b, b.count \in Nat
    PROVE  /\ \A i \in Slots(b) : i \in Used(b) <=> b.slot[i] # NoBucket
           /\ Used(b) \subseteq Slots(b) /\ IsFiniteSet(Used(b))
           /\ Cardinality(Used(b)) \in Nat
<1>1. IsFiniteSet(Slots(b))
  <2>1. 0 \in Int /\ b.count - 1 \in Int
    OBVIOUS
  <2> QED
    BY <2>1, FS_Interval DEF Slots
<1>2. Used(b) \subseteq Slots(b)
  BY DEF Used
<1>3. IsFiniteSet(Used(b))
  BY <1>1, <1>2, FS_Subset
<1>4. Cardinality(Used(b)) \in Nat
  BY <1>3, FS_CardinalityType
<1> QED
  BY <1>2, <1>3, <1>4 DEF Used, Free

\* There is a free slot when fewer are used than there are.
LEMMA FreeBucket ==
    ASSUME NEW b, b.count \in Nat, Cardinality(Used(b)) < b.count
    PROVE  \E f \in Slots(b) : f \in Free(b)
<1> SUFFICES ASSUME \A f \in Slots(b) : f \notin Free(b)
             PROVE  FALSE
  OBVIOUS
<1>1. Used(b) = Slots(b)
  BY DEF Used
<1>2. Cardinality(0 .. b.count - 1) = b.count
  <2>1. 0 \in Int /\ b.count - 1 \in Int /\ (b.count - 1) - 0 + 1 = b.count
          /\ Cardinality(Used(b)) \in Nat
    BY BucketSlots
  <2>2. ~(0 > b.count - 1)
    BY <2>1
  <2> QED
    BY <2>1, <2>2, FS_Interval
<1> QED
  BY <1>1, <1>2 DEF Slots

\* A bucket in a free slot that its key's probe reaches leaves the table sound.
LEMMA FillSound ==
    ASSUME NEW L, NEW R, NEW K, NEW b, SoundBuckets(L, R, K, b), b.used + 1 < b.count,
           NEW x \in Nat \ {0}, x \notin L \cup R, NEW k, hash_key(k) = hash_key(K[x]),
           hash_key(k).high \in Nat,
           NEW at \in Slots(b), at \in Free(b),
           \A m \in Slots(b) : OnWay(m, k, b.count, at) => m \in Used(b)
    PROVE  /\ SoundBuckets(L \cup {x}, R, K, Filled(b, at, k, x - 1))
           /\ Filled(b, at, k, x - 1).count = b.count
           /\ Filled(b, at, k, x - 1).used = b.used + 1
<1> DEFINE c == Filled(b, at, k, x - 1)
           e == [high |-> hash_key(k).high, item |-> x]
<1>1. b.count \in Nat /\ b.slot \in [Slots(b) -> [high : Nat, item : Nat]]
  BY DEF SoundBuckets
<1>2. x - 1 + 1 = x
  OBVIOUS
<1>3. /\ c.slot = [b.slot EXCEPT ![at] = e] /\ c.count = b.count /\ c.used = b.used + 1
  BY <1>2 DEF Filled, Bucket
<1>4. e \in [high : Nat, item : Nat] /\ e.item = x /\ e.high = hash_key(k).high /\ e # NoBucket
  BY DEF NoBucket
<1> HIDE DEF c, e
<1>5. Slots(c) = Slots(b) /\ c.count \in Nat
  BY <1>1, <1>3 DEF Slots
<1>6. /\ c.slot \in [Slots(c) -> [high : Nat, item : Nat]] /\ c.slot[at] = e
      /\ \A i \in Slots(c) : i # at => c.slot[i] = b.slot[i]
  BY <1>1, <1>3, <1>4, <1>5
<1>7. Used(c) = Used(b) \cup {at} /\ at \notin Used(b) /\ Used(b) \subseteq Slots(b)
  <2>1. at \notin Used(b)
    BY DEF Used
  <2>2. \A i \in Slots(b) : i \in Used(b) <=> b.slot[i] # NoBucket
    BY <1>1, BucketSlots
  <2>3. \A i \in Slots(c) : i \in Used(c) <=> c.slot[i] # NoBucket
    BY <1>5, BucketSlots
  <2>4. Used(b) \subseteq Slots(b) /\ Used(c) \subseteq Slots(c)
    BY <1>1, <1>5, BucketSlots
  <2> QED
    BY <1>4, <1>5, <1>6, <2>1, <2>2, <2>3, <2>4
<1>8. Cardinality(Used(c)) = Cardinality(Used(b)) + 1
  <2> DEFINE U == Used(b)
  <2>1. IsFiniteSet(U) /\ at \notin U
    BY <1>1, <1>7, BucketSlots
  <2> HIDE DEF U
  <2>2. Cardinality(U \cup {at}) = Cardinality(U) + 1
    BY <2>1, FS_AddElement
  <2> QED
    BY <1>7, <2>2 DEF U
<1>9. \A i \in Used(b) : c.slot[i] = b.slot[i] /\ i # at
  BY <1>5, <1>6, <1>7
<1>10. c.count > 1 /\ c.used = Cardinality(Used(c)) /\ c.used < c.count
  BY <1>3, <1>8 DEF SoundBuckets
<1>11. \A i \in Used(c) : c.slot[i].item \in (L \cup {x}) \cup R
  <2> TAKE i \in Used(c)
  <2>1. CASE i = at
    BY <1>4, <1>6, <2>1
  <2>2. CASE i # at
    BY <1>7, <1>9, <2>2 DEF SoundBuckets
  <2> QED
    BY <2>1, <2>2
<1>12. ASSUME NEW i \in Used(c), NEW j \in Used(c), c.slot[i].item \in L \cup {x},
              c.slot[i].item = c.slot[j].item
       PROVE  i = j
  <2>1. \A p \in Used(b) : b.slot[p].item # x
    BY <1>12 DEF SoundBuckets
  <2>2. CASE i = at /\ j # at
    BY <1>4, <1>6, <1>7, <1>9, <1>12, <2>1, <2>2
  <2>3. CASE i # at /\ j = at
    BY <1>4, <1>6, <1>7, <1>9, <1>12, <2>1, <2>3
  <2>4. CASE i # at /\ j # at
    <3>1. i \in Used(b) /\ j \in Used(b)
      BY <1>7, <2>4
    <3>2. b.slot[i].item \in L /\ b.slot[i].item = b.slot[j].item
      BY <1>9, <1>12, <2>1, <3>1
    <3> QED
      BY <3>1, <3>2 DEF SoundBuckets
  <2> QED
    BY <2>2, <2>3, <2>4
<1>13. \A y \in L \cup {x} : \E i \in Used(c) : c.slot[i].item = y
  <2> TAKE y \in L \cup {x}
  <2>1. CASE y = x
    BY <1>4, <1>6, <1>7, <2>1
  <2>2. CASE y \in L
    <3>1. PICK i \in Used(b) : b.slot[i].item = y
      BY <2>2 DEF SoundBuckets
    <3> QED
      BY <1>7, <1>9, <3>1
  <2> QED
    BY <2>1, <2>2
<1>14. ASSUME NEW i \in Used(c), c.slot[i].item \in L \cup {x}
       PROVE  c.slot[i].high = hash_key(K[c.slot[i].item]).high
  <2>1. CASE i = at
    BY <1>4, <1>6, <2>1
  <2>2. CASE i # at
    <3>1. i \in Used(b) /\ c.slot[i] = b.slot[i] /\ b.slot[i].item \in L \cup R
      BY <1>7, <1>9, <2>2 DEF SoundBuckets
    <3>2. b.slot[i].item \in L
      BY <1>14, <3>1
    <3> QED
      BY <3>1, <3>2 DEF SoundBuckets
  <2> QED
    BY <2>1, <2>2
<1>15. ASSUME NEW i \in Used(c), NEW m \in Slots(c), c.slot[i].item \in L \cup {x},
              OnWay(m, K[c.slot[i].item], c.count, i)
       PROVE  m \in Used(c)
  <2>1. CASE i = at
    <3>1. OnWay(m, K[x], b.count, at)
      BY <1>3, <1>4, <1>6, <1>15, <2>1
    <3>2. OnWay(m, k, b.count, at)
      BY <3>1 DEF OnWay
    <3> QED
      BY <1>5, <1>7, <3>2
  <2>2. CASE i # at
    <3>1. i \in Used(b) /\ c.slot[i] = b.slot[i] /\ b.slot[i].item \in L \cup R
      BY <1>7, <1>9, <2>2 DEF SoundBuckets
    <3>2. b.slot[i].item \in L
      BY <1>15, <3>1
    <3>3. OnWay(m, K[b.slot[i].item], b.count, i) /\ m \in Slots(b)
      BY <1>3, <1>5, <1>15, <3>1
    <3> QED
      BY <1>7, <3>1, <3>2, <3>3 DEF SoundBuckets
  <2> QED
    BY <2>1, <2>2
<1>16. SoundBuckets(L \cup {x}, R, K, c)
  BY <1>5, <1>6, <1>10, <1>11, <1>12, <1>13, <1>14, <1>15 DEF SoundBuckets
<1> QED
  BY <1>3, <1>16 DEF c

\* An empty table is sound for no items.
LEMMA NoBucketsSound ==
    ASSUME NEW n \in Nat, n > 1, NEW R, NEW K
    PROVE  /\ SoundBuckets({}, R, K, NoBuckets(n))
           /\ NoBuckets(n).count = n /\ NoBuckets(n).used = 0
<1> DEFINE b == NoBuckets(n)
<1>1. b.slot = [i \in 0 .. n - 1 |-> NoBucket] /\ b.count = n /\ b.used = 0
  BY DEF NoBuckets
<1>2. NoBucket \in [high : Nat, item : Nat]
  BY DEF NoBucket
<1> HIDE DEF b
<1>3. Slots(b) = 0 .. n - 1 /\ b.count \in Nat
  BY <1>1 DEF Slots
<1>4. b.slot \in [Slots(b) -> [high : Nat, item : Nat]] /\ \A i \in Slots(b) : b.slot[i] = NoBucket
  BY <1>1, <1>2, <1>3
<1>5. Used(b) = {}
  BY <1>4 DEF Used, Free
<1>6. Cardinality(Used(b)) = 0
  BY <1>5, FS_EmptySet
<1>7. SoundBuckets({}, R, K, b)
  BY <1>1, <1>3, <1>4, <1>5, <1>6 DEF SoundBuckets
<1> QED
  BY <1>1, <1>7 DEF b

\* The first free slot of a key's probe.
LEMMA FirstFreeStops ==
    ASSUME NEW b, b.count \in Nat \ {0}, Cardinality(Used(b)) < b.count,
           NEW k, hash_key(k).bucket \in Nat
    PROVE  /\ FirstFree(b, k) \in Slots(b) /\ FirstFree(b, k) \in Free(b)
           /\ \A m \in Slots(b) : OnWay(m, k, b.count, FirstFree(b, k)) => m \in Used(b)
<1> DEFINE n == b.count
           S == Free(b)
           r == BucketHome(k, n)
<1>1. r \in 0 .. n - 1
  BY RemainderRange DEF BucketHome
<1>2. PICK f \in 0 .. n - 1 : f \in S
  BY FreeBucket DEF Slots
<1>3. n \in Nat \ {0}
  OBVIOUS
<1>4. FirstFree(b, k) = FirstFrom(S, r, n)
  BY DEF FirstFree
<1> HIDE DEF n, S, r
<1>5. /\ FirstFrom(S, r, n) \in 0 .. n - 1 /\ FirstFrom(S, r, n) \in S
      /\ \A m \in 0 .. n - 1 : InArc(m, r, FirstFrom(S, r, n)) => m \notin S
  BY <1>1, <1>2, <1>3, FirstFromStops
<1> QED
  BY <1>4, <1>5 DEF n, S, r, Slots, OnWay, BucketHome, Used

\* An item is registered.
LEMMA FreeFillSound ==
    ASSUME NEW L, NEW R, NEW K, NEW b, SoundBuckets(L, R, K, b), b.used + 1 < b.count,
           NEW x \in Nat \ {0}, x \notin L \cup R, K[x] \in PoolKeys
    PROVE  LET c == Filled(b, FirstFree(b, K[x]), K[x], x - 1)
           IN  SoundBuckets(L \cup {x}, R, K, c) /\ c.count = b.count /\ c.used = b.used + 1
<1> DEFINE k == K[x]
           at == FirstFree(b, k)
<1>1. hash_key(k).bucket \in Nat /\ hash_key(k).high \in Nat
  BY PoolKeyFacts
<1>2. b.count \in Nat \ {0} /\ Cardinality(Used(b)) < b.count
  BY DEF SoundBuckets
<1>3. /\ at \in Slots(b) /\ at \in Free(b)
      /\ \A m \in Slots(b) : OnWay(m, k, b.count, at) => m \in Used(b)
  BY <1>1, <1>2, FirstFreeStops
<1>4. hash_key(k) = hash_key(K[x])
  OBVIOUS
<1> HIDE DEF at, k
<1>5. /\ SoundBuckets(L \cup {x}, R, K, Filled(b, at, k, x - 1))
      /\ Filled(b, at, k, x - 1).count = b.count /\ Filled(b, at, k, x - 1).used = b.used + 1
  BY <1>1, <1>3, <1>4, FillSound
<1> QED
  BY <1>5 DEF at, k
-----------------------------------------------------------------------------
(* The intern pool: growth.                                                *)

\* The bucket of an item that is not removed.
LEMMA DecodedBucket ==
    ASSUME NEW pool, NEW arena, NEW P, NEW R, NEW K, Decodes(pool, arena, P, R, K),
           NEW L \in SUBSET P, NEW b, SoundBuckets(L, R, K, b), NEW i \in Slots(b)
    PROVE  LET x == b.slot[i].item
           IN  /\ i \notin Used(b) => b.slot[i] = NoBucket
               /\ i \in Used(b) /\ x \notin L => pool[x].tag = Removed
               /\ i \in Used(b) /\ x \in L =>
                    /\ b.slot[i] # NoBucket /\ x \in Nat \ {0} /\ x \notin R
                    /\ pool[x].tag # Removed
                    /\ ip_key_internal(pool, arena, x - 1) = K[x] /\ K[x] \in PoolKeys
<1>1. i \in Used(b) <=> b.slot[i] # NoBucket
  BY BucketSlots DEF SoundBuckets
<1>2. i \in Used(b) => b.slot[i].item \in L \cup R
  BY DEF SoundBuckets
<1> DEFINE x == b.slot[i].item
<1>3. x \in L => /\ x \in Nat \ {0} /\ pool[x].tag # Removed
                 /\ ip_key_internal(pool, arena, x - 1) = K[x] /\ K[x] \in PoolKeys
  <2> HIDE DEF x
  <2> QED
    BY DEF Decodes
<1>4. x \in R => pool[x].tag = Removed
  <2> HIDE DEF x
  <2> QED
    BY DEF Decodes
<1> QED
  BY <1>1, <1>2, <1>3, <1>4

\* The tables on the way of a growth of the buckets b.
Regrows(pool, arena, b, g) ==
    /\ g[0] = NoBuckets(2 * b.count)
    /\ \A i \in 1 .. b.count : g[i] = Rebucket(pool, arena, g[i - 1], b.slot[i - 1])

\* A growth goes through such tables.
LEMMA GrowRuns ==
    ASSUME NEW pool, NEW arena, NEW P, NEW R, NEW K, Decodes(pool, arena, P, R, K),
           NEW L \in SUBSET P, NEW b, SoundBuckets(L, R, K, b)
    PROVE  \E g : Regrows(pool, arena, b, g) /\ buckets_grow(pool, arena, b) = g[b.count]
<1> DEFINE n == b.count
           m == 2 * n
           V == [0 .. m - 1 -> [high : Nat, item : Nat]]
           S == [slot : V, count : {m}, used : Nat]
           Step(U, i) == Rebucket(pool, arena, U, b.slot[i - 1])
           G == [p \in S \X (1 .. n) |-> Step(p[1], p[2])]
           Eq(f) == f = [i \in 0 .. n |-> IF i = 0 THEN NoBuckets(m) ELSE Step(f[i - 1], i)]
<1>0. n \in Nat /\ m \in Nat
  BY DEF SoundBuckets
<1>1. NoBuckets(m) \in S
  <2>1. NoBucket \in [high : Nat, item : Nat]
    BY DEF NoBucket
  <2>2. [i \in 0 .. m - 1 |-> NoBucket] \in V
    BY <2>1
  <2> HIDE DEF m, V
  <2> QED
    BY <2>2 DEF NoBuckets
<1>2. ASSUME NEW U \in S, NEW i \in 1 .. n
      PROVE  Step(U, i) \in S
  <2> DEFINE e == b.slot[i - 1]
             key == ip_key_internal(pool, arena, e.item - 1)
             at == FirstFree(U, key)
  <2>1. i - 1 \in Slots(b)
    BY <1>0 DEF Slots
  <2> DEFINE j == i - 1
  <2> HIDE DEF j
  <2>5. /\ j \notin Used(b) => b.slot[j] = NoBucket
        /\ j \in Used(b) /\ b.slot[j].item \notin L => pool[b.slot[j].item].tag = Removed
        /\ j \in Used(b) /\ b.slot[j].item \in L =>
             /\ b.slot[j].item \in Nat \ {0} /\ K[b.slot[j].item] \in PoolKeys
             /\ ip_key_internal(pool, arena, b.slot[j].item - 1) = K[b.slot[j].item]
    <3>1. j \in Slots(b)
      BY <2>1 DEF j
    <3> QED
      BY <3>1, DecodedBucket
  <2>2. \/ e = NoBucket
        \/ pool[e.item].tag = Removed
        \/ e.item \in Nat \ {0} /\ key \in PoolKeys
    BY <2>5 DEF j
  <2>3. CASE e = NoBucket \/ pool[e.item].tag = Removed
    <3>1. Step(U, i) = U
      BY <2>3 DEF Rebucket
    <3> QED
      BY <3>1
  <2>4. CASE ~(e = NoBucket \/ pool[e.item].tag = Removed)
    <3>1. Step(U, i) = Filled(U, at, key, e.item - 1)
      BY <2>4 DEF Rebucket
    <3>2. e.item \in Nat \ {0} /\ hash_key(key).high \in Nat
      BY <2>2, <2>4, PoolKeyFacts
    <3>3. e.item - 1 + 1 = e.item
      BY <3>2
    <3> HIDE DEF e, key, at, m, V
    <3>4. Bucket(key, e.item - 1) \in [high : Nat, item : Nat]
      BY <3>2, <3>3 DEF Bucket
    <3>5. U.slot \in V /\ U.count = m /\ U.used \in Nat
      OBVIOUS
    <3>6. [U.slot EXCEPT ![at] = Bucket(key, e.item - 1)] \in V
      BY <3>4, <3>5 DEF V
    <3>7. U.used + 1 \in Nat
      BY <3>5
    <3>8. Filled(U, at, key, e.item - 1) \in S
      BY <3>5, <3>6, <3>7 DEF Filled
    <3> QED
      BY <3>1, <3>8
  <2> QED
    BY <2>3, <2>4
<1>4. buckets_grow(pool, arena, b) = (CHOOSE f : Eq(f))[n]
  BY DEF buckets_grow
<1> HIDE DEF S, n, m, V, Step
<1>3. G \in [S \X (1 .. n) -> S]
  BY <1>2
<1>5. PICK g \in [0 .. n -> S] : Runs(g, n, NoBuckets(m), G)
  <2> HIDE DEF G
  <2> QED
    BY <1>0, <1>1, <1>3, RecursionExists
<1>6. g[0] = NoBuckets(m) /\ \A i \in 1 .. n : g[i] = Step(g[i - 1], i)
  <2>1. ASSUME NEW i \in 1 .. n
        PROVE  g[i] = Step(g[i - 1], i)
    <3>1. g[i - 1] \in S
      BY <1>0, <1>5
    <3>2. G[<<g[i - 1], i>>] = Step(g[i - 1], i)
      BY <3>1
    <3> QED
      BY <1>5, <3>2 DEF Runs
  <2> QED
    BY <1>5, <2>1 DEF Runs
<1> HIDE DEF G
<1>7. Eq(g)
  <2> DEFINE h == [i \in 0 .. n |-> IF i = 0 THEN NoBuckets(m) ELSE Step(g[i - 1], i)]
  <2>1. \A i \in 0 .. n : h[i] = g[i]
    <3> TAKE i \in 0 .. n
    <3>1. CASE i = 0
      BY <1>6, <3>1
    <3>2. CASE i # 0
      <4>1. i \in 1 .. n
        BY <1>0, <3>2
      <4> QED
        BY <1>6, <3>2, <4>1
    <3> QED
      BY <3>1, <3>2
  <2>2. DOMAIN h = 0 .. n /\ h = [i \in DOMAIN h |-> h[i]]
    OBVIOUS
  <2>3. DOMAIN g = 0 .. n /\ g = [i \in DOMAIN g |-> g[i]]
    BY <1>5
  <2> HIDE DEF h
  <2>4. h = g
    BY <2>1, <2>2, <2>3
  <2> QED
    BY <2>4 DEF h
<1> DEFINE f == CHOOSE f : Eq(f)
<1>8. Eq(f)
  BY <1>7
<1>9. buckets_grow(pool, arena, b) = f[n]
  BY <1>4
<1> HIDE DEF f
<1>10. f[0] = NoBuckets(m) /\ \A i \in 1 .. n : f[i] = Step(f[i - 1], i)
  <2>1. \A i \in 0 .. n : f[i] = IF i = 0 THEN NoBuckets(m) ELSE Step(f[i - 1], i)
    BY <1>8
  <2>2. 0 \in 0 .. n /\ \A i \in 1 .. n : i \in 0 .. n /\ i # 0
    BY <1>0
  <2> QED
    BY <2>1, <2>2
<1> QED
  BY <1>9, <1>10 DEF Regrows, Step, n, m

\* The items of L among the first i buckets of b.
Regrown(L, b, i) == {x \in L : \E j \in Used(b) : j < i /\ b.slot[j].item = x}

\* One bucket of a growth is carried over, unless its item is removed.
LEMMA RegrowStep ==
    ASSUME NEW pool, NEW arena, NEW P, NEW R, NEW K, Decodes(pool, arena, P, R, K),
           NEW L \in SUBSET P, NEW b, SoundBuckets(L, R, K, b), NEW i \in Slots(b),
           NEW U, SoundBuckets(Regrown(L, b, i), R, K, U), U.count = 2 * b.count,
           U.used \in Nat, U.used <= i
    PROVE  LET W == Rebucket(pool, arena, U, b.slot[i])
           IN  /\ SoundBuckets(Regrown(L, b, i + 1), R, K, W) /\ W.count = 2 * b.count
               /\ W.used \in Nat /\ W.used <= i + 1
<1>0. /\ i \notin Used(b) => b.slot[i] = NoBucket
      /\ i \in Used(b) /\ b.slot[i].item \notin L => pool[b.slot[i].item].tag = Removed
      /\ i \in Used(b) /\ b.slot[i].item \in L =>
           /\ b.slot[i] # NoBucket /\ b.slot[i].item \in Nat \ {0} /\ b.slot[i].item \notin R
           /\ pool[b.slot[i].item].tag # Removed
           /\ ip_key_internal(pool, arena, b.slot[i].item - 1) = K[b.slot[i].item]
           /\ K[b.slot[i].item] \in PoolKeys
  BY DecodedBucket
<1> DEFINE e == b.slot[i]
           x == e.item
           C == Regrown(L, b, i)
           W == Rebucket(pool, arena, U, e)
<1>1. b.count \in Nat /\ i \in Nat /\ i < b.count /\ Used(b) \subseteq Nat
  <2>1. b.count \in Nat
    BY DEF SoundBuckets
  <2>2. Used(b) \subseteq Slots(b)
    BY DEF Used
  <2> QED
    BY <2>1, <2>2 DEF Slots
<1>2. \A j \in Used(b) : j < i + 1 <=> j < i \/ j = i
  BY <1>1
<1>3. CASE i \notin Used(b) \/ (i \in Used(b) /\ x \notin L)
  <2>1. Regrown(L, b, i + 1) = C
    BY <1>2, <1>3 DEF Regrown
  <2>2. e = NoBucket \/ pool[x].tag = Removed
    BY <1>0, <1>3
  <2>3. W = U
    BY <2>2 DEF Rebucket
  <2>4. U.used <= i + 1
    BY <1>1
  <2> HIDE DEF W, C
  <2> QED
    BY <2>1, <2>3, <2>4 DEF W, C
<1>4. CASE i \in Used(b) /\ x \in L
  <2>1. /\ e # NoBucket /\ x \in Nat \ {0} /\ x \notin R /\ pool[x].tag # Removed
        /\ ip_key_internal(pool, arena, x - 1) = K[x] /\ K[x] \in PoolKeys
    BY <1>0, <1>4
  <2>2. Regrown(L, b, i + 1) = C \cup {x}
    BY <1>2, <1>4 DEF Regrown
  <2>3. x \notin C
    <3> SUFFICES ASSUME NEW j \in Used(b), j < i, b.slot[j].item = x
                 PROVE  FALSE
      BY DEF Regrown
    <3>1. j = i
      BY <1>4 DEF SoundBuckets
    <3> QED
      BY <1>1, <3>1
  <2>4. W = Filled(U, FirstFree(U, K[x]), K[x], x - 1)
    BY <2>1 DEF Rebucket
  <2>5. U.used + 1 < U.count /\ U.used + 1 \in Nat /\ U.used + 1 <= i + 1
    BY <1>1
  <2> HIDE DEF W, C, e, x
  <2>6. SoundBuckets(C, R, K, U)
    BY DEF C
  <2>7. SoundBuckets(C \cup {x}, R, K, W) /\ W.count = U.count /\ W.used = U.used + 1
    <3>1. x \notin C \cup R
      BY <2>1, <2>3
    <3> QED
      BY <2>1, <2>4, <2>5, <2>6, <3>1, FreeFillSound
  <2> QED
    BY <2>2, <2>5, <2>7 DEF W, e
<1> QED
  BY <1>3, <1>4

\* A growth keeps every item, at a slot its probe finds, and has room for more.
LEMMA GrowSound ==
    ASSUME NEW pool, NEW arena, NEW P, NEW R, NEW K, Decodes(pool, arena, P, R, K),
           NEW L \in SUBSET P, NEW b, SoundBuckets(L, R, K, b)
    PROVE  LET c == buckets_grow(pool, arena, b)
           IN  SoundBuckets(L, R, K, c) /\ c.used + 1 < c.count
<1> DEFINE n == b.count
<1>0. n \in Nat /\ n > 1 /\ Slots(b) = 0 .. n - 1
  BY DEF SoundBuckets, Slots
<1>1. PICK g : Regrows(pool, arena, b, g) /\ buckets_grow(pool, arena, b) = g[n]
  BY GrowRuns
<1> DEFINE Goes(U, i) == /\ SoundBuckets(Regrown(L, b, i), R, K, U) /\ U.count = 2 * n
                         /\ U.used \in Nat /\ U.used <= i
           I == {i \in 0 .. n : Goes(g[i], i)}
<1>2. 0 \in I
  <2>1. Used(b) \subseteq Nat
    BY <1>0 DEF Used
  <2>2. Regrown(L, b, 0) = {}
    BY <2>1 DEF Regrown
  <2>3. 2 * n \in Nat /\ 2 * n > 1
    BY <1>0
  <2>4. /\ SoundBuckets({}, R, K, NoBuckets(2 * n))
        /\ NoBuckets(2 * n).count = 2 * n /\ NoBuckets(2 * n).used = 0
    BY <2>3, NoBucketsSound
  <2>5. g[0] = NoBuckets(2 * n) /\ 0 \in 0 .. n
    BY <1>0, <1>1 DEF Regrows
  <2>6. g[0].used \in Nat /\ g[0].used <= 0
    BY <2>4, <2>5
  <2>7. Goes(g[0], 0)
    BY <2>2, <2>4, <2>5, <2>6
  <2> HIDE DEF Goes
  <2> QED
    BY <2>5, <2>7
<1>3. ASSUME NEW i \in 0 .. n - 1, i \in I
      PROVE  i + 1 \in I
  <2>1. i + 1 \in 1 .. n /\ i + 1 \in 0 .. n /\ (i + 1) - 1 = i
    BY <1>0
  <2>2. g[i + 1] = Rebucket(pool, arena, g[i], b.slot[i])
    BY <1>1, <2>1 DEF Regrows
  <2>3. Goes(g[i], i) /\ i \in Slots(b)
    BY <1>0, <1>3
  <2>4. Goes(Rebucket(pool, arena, g[i], b.slot[i]), i + 1)
    BY <2>3, RegrowStep
  <2> HIDE DEF Goes
  <2> QED
    BY <2>1, <2>2, <2>4
<1> HIDE DEF I
<1>4. 0 .. n \subseteq I
  <2> HIDE DEF n
  <2> QED
    BY <1>0, <1>2, <1>3, IntervalInduction
<1>5. Goes(g[n], n)
  BY <1>0, <1>4 DEF I
<1>6. Regrown(L, b, n) = L
  <2>1. \A x \in L : \E j \in Used(b) : b.slot[j].item = x
    BY DEF SoundBuckets
  <2>2. \A j \in Used(b) : j < n
    BY <1>0 DEF Used
  <2> QED
    BY <2>1, <2>2 DEF Regrown
<1> DEFINE c == g[n]
<1>7. SoundBuckets(L, R, K, c) /\ c.count = 2 * n /\ c.used \in Nat /\ c.used <= n
  BY <1>5, <1>6
<1> HIDE DEF c
<1>8. c.used + 1 < c.count
  BY <1>0, <1>7
<1> QED
  BY <1>1, <1>7, <1>8 DEF c

\* The buckets an insertion is made in have room for it.
LEMMA RoomySound ==
    ASSUME NEW pool, NEW arena, NEW P, NEW R, NEW K, Decodes(pool, arena, P, R, K),
           NEW L \in SUBSET P, NEW b, SoundBuckets(L, R, K, b)
    PROVE  LET c == Roomy(pool, arena, b)
           IN  SoundBuckets(L, R, K, c) /\ c.used + 1 < c.count
<1>1. CASE Crowded(b)
  BY <1>1, GrowSound DEF Roomy
<1>2. CASE ~Crowded(b)
  <2>1. b.count \in Nat /\ b.count > 1 /\ b.used = Cardinality(Used(b))
    BY DEF SoundBuckets
  <2>2. b.used \in Nat
    BY <2>1, BucketSlots
  <2>3. (b.used + 1) * 4 <= b.count * 3
    BY <1>2, <2>1, <2>2 DEF Crowded
  <2>4. b.used + 1 < b.count
    BY <2>1, <2>2, <2>3
  <2> QED
    BY <1>2, <2>4 DEF Roomy
<1> QED
  BY <1>1, <1>2

\* An item is registered.
LEMMA RegisterSound ==
    ASSUME NEW pool, NEW arena, NEW P, NEW R, NEW K, Decodes(pool, arena, P, R, K),
           NEW L \in SUBSET P, NEW b, SoundBuckets(L, R, K, b), NEW x \in P, x \notin L
    PROVE  SoundBuckets(L \cup {x}, R, K, register_bucket(pool, arena, b, x - 1))
<1> DEFINE c == Roomy(pool, arena, b)
<1>1. SoundBuckets(L, R, K, c) /\ c.used + 1 < c.count
  BY RoomySound
<1>2. /\ x \in Nat \ {0} /\ x \notin L \cup R /\ K[x] \in PoolKeys
      /\ ip_key_internal(pool, arena, x - 1) = K[x]
  BY DEF Decodes
<1>3. register_bucket(pool, arena, b, x - 1) = Filled(c, FirstFree(c, K[x]), K[x], x - 1)
  BY <1>2 DEF register_bucket
<1> HIDE DEF c
<1> QED
  BY <1>1, <1>2, <1>3, FreeFillSound
-----------------------------------------------------------------------------
(* The intern pool: a lookup.                                              *)

\* A probe for a key asked for hashes to a slot of the table.
LEMMA AskedHome ==
    ASSUME NEW k \in Asked, NEW n \in Nat \ {0}
    PROVE  BucketHome(k, n) \in 0 .. n - 1
<1>1. hash_key(k).bucket \in Nat
  <2>1. hash_key(k) = hash_key(Closed(k)) /\ Closed(k) \in PoolKeys
    BY AskedFacts
  <2> QED
    BY <2>1, PoolKeyFacts
<1> QED
  BY <1>1, RemainderRange DEF BucketHome

\* The buckets that match a key asked for are those of the item with that key.
LEMMA MatchingIs ==
    ASSUME NEW pool, NEW arena, NEW P, NEW R, NEW K, Decodes(pool, arena, P, R, K),
           NEW b, SoundBuckets(P, R, K, b), NEW k \in Asked, NEW i \in Slots(b)
    PROVE  i \in Matching(pool, arena, b, k)
             <=> i \in Used(b) /\ b.slot[i].item \in P /\ K[b.slot[i].item] = Closed(k)
<1> DEFINE x == b.slot[i].item
<1>1. P \in SUBSET P
  OBVIOUS
<1>2. /\ i \notin Used(b) => b.slot[i] = NoBucket
      /\ i \in Used(b) /\ b.slot[i].item \notin P => pool[b.slot[i].item].tag = Removed
      /\ i \in Used(b) /\ b.slot[i].item \in P =>
           /\ pool[b.slot[i].item].tag # Removed
           /\ ip_key_internal(pool, arena, b.slot[i].item - 1) = K[b.slot[i].item]
           /\ K[b.slot[i].item] \in PoolKeys
  BY <1>1, DecodedBucket
<1>3. i \in Matching(pool, arena, b, k) <=>
        /\ i \in Used(b) /\ b.slot[i].high = hash_key(k).high /\ pool[x].tag # Removed
        /\ Closed(ip_key_internal(pool, arena, x - 1)) = Closed(k)
  BY DEF Matching, Used, ip_key_eql
<1>4. CASE i \in Used(b) /\ x \in P
  <2>1. Closed(K[x]) = K[x]
    BY <1>2, <1>4, PoolKeyFacts
  <2>2. b.slot[i].high = hash_key(K[x]).high
    BY <1>4 DEF SoundBuckets
  <2>3. K[x] = Closed(k) => hash_key(K[x]) = hash_key(k)
    BY AskedFacts
  <2> HIDE DEF x
  <2>4. pool[x].tag # Removed /\ ip_key_internal(pool, arena, x - 1) = K[x]
    BY <1>2, <1>4 DEF x
  <2>5. Closed(ip_key_internal(pool, arena, x - 1)) = K[x]
    BY <2>1, <2>4
  <2> QED
    BY <1>3, <1>4, <2>2, <2>3, <2>4, <2>5 DEF x
<1>5. CASE ~(i \in Used(b) /\ x \in P)
  BY <1>2, <1>3, <1>5
<1> QED
  BY <1>4, <1>5

\* Where a lookup stops.
LEMMA FoundStops ==
    ASSUME NEW pool, NEW arena, NEW b, b.count \in Nat \ {0}, Cardinality(Used(b)) < b.count,
           NEW k \in Asked
    PROVE  LET at == Found(pool, arena, b, k)
               S  == Free(b) \cup Matching(pool, arena, b, k)
           IN  /\ at \in Slots(b) /\ at \in S
               /\ \A m \in Slots(b) : OnWay(m, k, b.count, at) => m \notin S
<1> DEFINE n == b.count
           S == Free(b) \cup Matching(pool, arena, b, k)
           r == BucketHome(k, n)
<1>1. r \in 0 .. n - 1
  BY AskedHome
<1>2. PICK f \in 0 .. n - 1 : f \in S
  BY FreeBucket DEF Slots
<1>3. n \in Nat \ {0}
  OBVIOUS
<1>4. Found(pool, arena, b, k) = FirstFrom(S, r, n)
  BY DEF Found
<1> HIDE DEF n, S, r
<1>5. /\ FirstFrom(S, r, n) \in 0 .. n - 1 /\ FirstFrom(S, r, n) \in S
      /\ \A m \in 0 .. n - 1 : InArc(m, r, FirstFrom(S, r, n)) => m \notin S
  BY <1>1, <1>2, <1>3, FirstFromStops
<1>6. Slots(b) = 0 .. n - 1
  BY DEF Slots, n
<1>7. \A m : OnWay(m, k, b.count, FirstFrom(S, r, n)) <=> InArc(m, r, FirstFrom(S, r, n))
  BY DEF OnWay, r, BucketHome, n
<1> QED
  BY <1>4, <1>5, <1>6, <1>7 DEF S

\* A lookup finds the item of the key.
LEMMA FoundHit ==
    ASSUME NEW pool, NEW arena, NEW P, NEW R, NEW K, Decodes(pool, arena, P, R, K),
           NEW b, SoundBuckets(P, R, K, b), NEW k \in Asked, NEW x \in P, K[x] = Closed(k)
    PROVE  LET at == Found(pool, arena, b, k)
           IN  at \in Slots(b) /\ b.slot[at] # NoBucket /\ b.slot[at].item = x
<1> DEFINE at == Found(pool, arena, b, k)
           n == b.count
           r == BucketHome(k, n)
<1>1. n \in Nat \ {0} /\ Cardinality(Used(b)) < n /\ Slots(b) = 0 .. n - 1
  BY DEF SoundBuckets, Slots
<1>2. /\ at \in Slots(b) /\ at \in Free(b) \cup Matching(pool, arena, b, k)
      /\ \A m \in Slots(b) : OnWay(m, k, n, at) => m \notin Free(b) \cup Matching(pool, arena, b, k)
  BY <1>1, FoundStops
<1> HIDE DEF at
<1>3. PICK p \in Used(b) : b.slot[p].item = x
  BY DEF SoundBuckets
<1>4. p \in Slots(b) /\ p \in Matching(pool, arena, b, k)
  <2>1. p \in Slots(b)
    BY DEF Used
  <2> QED
    BY <1>3, <2>1, MatchingIs
<1>5. ~InArc(p, r, at)
  BY <1>2, <1>4 DEF OnWay, BucketHome
<1>6. InArc(at, r, p) => at \in Used(b)
  <2>1. hash_key(K[x]) = hash_key(k)
    BY AskedFacts
  <2>2. InArc(at, r, p) => OnWay(at, K[b.slot[p].item], b.count, p)
    BY <1>3, <2>1 DEF OnWay, BucketHome
  <2> QED
    BY <1>2, <1>3, <2>2 DEF SoundBuckets
<1>7. at \in Used(b) => at = p
  <2> SUFFICES ASSUME at \in Used(b) PROVE at = p
    OBVIOUS
  <2>1. at \in Matching(pool, arena, b, k)
    BY <1>2 DEF Used
  <2>2. b.slot[at].item \in P /\ K[b.slot[at].item] = K[x]
    BY <1>2, <2>1, MatchingIs
  <2>3. b.slot[at].item = x
    BY <2>2 DEF Decodes
  <2> QED
    BY <1>3, <2>3 DEF SoundBuckets
<1>8. at = p
  <2>1. r \in 0 .. n - 1 /\ at \in 0 .. n - 1 /\ p \in 0 .. n - 1 /\ n \in Nat
    BY <1>1, <1>2, <1>4, AskedHome
  <2> HIDE DEF r, n
  <2> QED
    BY <1>5, <1>6, <1>7, <2>1 DEF InArc
<1>9. b.slot[p] # NoBucket
  BY <1>1, <1>3, <1>4, BucketSlots
<1> QED
  BY <1>3, <1>4, <1>8, <1>9 DEF at

\* A lookup of a key that is not there stops at the free slot for it.
LEMMA FoundMiss ==
    ASSUME NEW pool, NEW arena, NEW P, NEW R, NEW K, Decodes(pool, arena, P, R, K),
           NEW b, SoundBuckets(P, R, K, b), NEW k \in Asked, \A x \in P : K[x] # Closed(k)
    PROVE  LET at == Found(pool, arena, b, k)
           IN  /\ at \in Slots(b) /\ at \in Free(b) /\ b.slot[at] = NoBucket
               /\ \A m \in Slots(b) : OnWay(m, k, b.count, at) => m \in Used(b)
<1> DEFINE at == Found(pool, arena, b, k)
<1>1. b.count \in Nat \ {0} /\ Cardinality(Used(b)) < b.count
  BY DEF SoundBuckets
<1>2. /\ at \in Slots(b) /\ at \in Free(b) \cup Matching(pool, arena, b, k)
      /\ \A m \in Slots(b) : OnWay(m, k, b.count, at) => m \notin Free(b) \cup Matching(pool, arena, b, k)
  BY <1>1, FoundStops
<1> HIDE DEF at
<1>3. at \notin Matching(pool, arena, b, k)
  BY <1>2, MatchingIs
<1>4. at \in Free(b) /\ b.slot[at] = NoBucket
  BY <1>2, <1>3 DEF Free
<1>5. \A m \in Slots(b) : m \notin Free(b) => m \in Used(b)
  BY DEF Used
<1> QED
  BY <1>2, <1>4, <1>5 DEF at

-----------------------------------------------------------------------------
(* The intern pool: items.                                                 *)

Kinds == UNION {Mutability, Single, Stored, {"primitive", "reserved_value", "removed", "none"}}
ItemSpace == [tag : [kind : Kinds, const : BOOLEAN], data : Int]

\* What an item of a compound key decodes to.
Decoded(it, arena) ==
    IF it.tag.kind \in Mutability
    THEN Key(it.tag.kind, <<it.data, IF it.tag.const THEN 1 ELSE 0>>)
    ELSE IF it.tag.kind \in Single THEN Key(it.tag.kind, <<it.data>>)
    ELSE Key(it.tag.kind, arena[it.data + 1])

\* It does so to a key of the pool.
Decodable(it, arena) ==
    /\ it.tag.kind \in Mutability \cup Single \cup Stored
    /\ it.tag.kind \in Stored => it.data \in 0 .. Len(arena) - 1
    /\ Decoded(it, arena) \in PoolKeys

\* The compound items that are not removed, the ones that are, and the keys.
LiveItems(pool) == {x \in ReservedBase + 1 .. Len(pool) : pool[x].tag # Removed}
GoneItems(pool) == {x \in ReservedBase + 1 .. Len(pool) : pool[x].tag = Removed}
ItemKeys(pool, arena) == [x \in LiveItems(pool) |-> Decoded(pool[x], arena)]

SoundItems(pool, arena) ==
    /\ pool \in Seq(ItemSpace) /\ arena \in Seq(Seq(Int)) /\ Len(pool) >= IP_RESERVED_COUNT
    /\ \A x \in LiveItems(pool) : Decodable(pool[x], arena)
    /\ \A x, y \in LiveItems(pool) : Decoded(pool[x], arena) = Decoded(pool[y], arena) => x = y

\* The kinds with a mutability, with one field and with a payload.
LEMMA KindsDiffer ==
    /\ \A kind \in Mutability : kind \notin Single /\ kind \notin Stored
    /\ \A kind \in Single : kind \notin Stored
    /\ \A kind \in Mutability \cup Single \cup Stored :
          /\ kind # "primitive" /\ kind # "reserved_value" /\ kind # "removed" /\ kind # "none"
<1>1. \A kind \in Mutability : kind \notin Single /\ kind \notin Stored
  BY DEF Mutability, Single, Stored
<1>2. \A kind \in Single : kind \notin Stored
  BY DEF Single, Stored
<1>3. \A kind \in Mutability :
        /\ kind # "primitive" /\ kind # "reserved_value" /\ kind # "removed" /\ kind # "none"
  BY DEF Mutability
<1>4. \A kind \in Single :
        /\ kind # "primitive" /\ kind # "reserved_value" /\ kind # "removed" /\ kind # "none"
  BY DEF Single
<1>5. \A kind \in Stored :
        /\ kind # "primitive" /\ kind # "reserved_value" /\ kind # "removed" /\ kind # "none"
  BY DEF Stored
<1> QED
  BY <1>1, <1>2, <1>3, <1>4, <1>5

\* The pool decodes its compound items so.
LEMMA KeyInternal ==
    ASSUME NEW pool, NEW arena, Len(pool) \in Nat, NEW x \in 1 .. Len(pool),
           pool[x].tag.kind \in Mutability \cup Single \cup Stored
    PROVE  ip_key_internal(pool, arena, x - 1) = Decoded(pool[x], arena)
<1> DEFINE it == pool[x]
           kind == it.tag.kind
           beyond == x - 1 >= Len(pool)
           plain == kind \in {"primitive", "reserved_value"}
           a == Key(kind, <<it.data, IF it.tag.const THEN 1 ELSE 0>>)
           b == Key(kind, <<it.data>>)
           c == Key(kind, arena[it.data + 1])
<1>1. x - 1 + 1 = x /\ ~beyond
  OBVIOUS
<1>2. ~plain
  BY KindsDiffer
<1>3. ip_key_internal(pool, arena, x - 1) =
        CASE beyond -> ErrorKey
          [] plain -> Key(kind, <<x - 1>>)
          [] kind \in Mutability -> a
          [] kind \in Single -> b
          [] kind \in Stored -> c
          [] OTHER -> ErrorKey
  BY <1>1 DEF ip_key_internal
<1>4. Decoded(pool[x], arena) = IF kind \in Mutability THEN a ELSE IF kind \in Single THEN b ELSE c
  BY DEF Decoded
<1>5. kind \in Mutability \cup Single \cup Stored
  OBVIOUS
<1> HIDE DEF it, kind, beyond, plain, a, b, c
<1>6. CASE kind \in Mutability
  BY <1>1, <1>2, <1>3, <1>4, <1>6, KindsDiffer
<1>7. CASE kind \in Single
  BY <1>1, <1>2, <1>3, <1>4, <1>7, KindsDiffer
<1>8. CASE kind \in Stored
  BY <1>1, <1>2, <1>3, <1>4, <1>8, KindsDiffer
<1> QED
  BY <1>5, <1>6, <1>7, <1>8

\* The items of a sound pool.
LEMMA LiveDecodes ==
    ASSUME NEW pool, NEW arena, SoundItems(pool, arena)
    PROVE  Decodes(pool, arena, LiveItems(pool), GoneItems(pool), ItemKeys(pool, arena))
<1> DEFINE P == LiveItems(pool)
           R == GoneItems(pool)
           K == ItemKeys(pool, arena)
<1>1. Len(pool) \in Nat /\ ReservedBase \in Nat
  BY InternAssumption DEF SoundItems, ReservedBase
<1>2. /\ \A x \in P : x \in Nat \ {0} /\ x \in 1 .. Len(pool) /\ pool[x].tag # Removed
      /\ \A x \in R : x \in Nat \ {0} /\ pool[x].tag = Removed
  BY <1>1 DEF LiveItems, GoneItems
<1> HIDE DEF P, R
<1>3. \A x \in P : K[x] = Decoded(pool[x], arena) /\ K[x] \in PoolKeys
  BY DEF SoundItems, Decodable, ItemKeys, P
<1>4. K \in [P -> PoolKeys]
  BY <1>3 DEF ItemKeys, P
<1> HIDE DEF K
<1>5. ASSUME NEW x \in P, NEW y \in P, K[x] = K[y]
      PROVE  x = y
  BY <1>3, <1>5 DEF SoundItems, P
<1>6. ASSUME NEW x \in P
      PROVE  ip_key_internal(pool, arena, x - 1) = K[x]
  <2>1. pool[x].tag.kind \in Mutability \cup Single \cup Stored
    BY DEF SoundItems, Decodable, P
  <2>2. x \in 1 .. Len(pool)
    BY <1>2
  <2> QED
    BY <1>1, <1>3, <2>1, <2>2, KeyInternal
<1>7. Decodes(pool, arena, P, R, K)
  BY <1>2, <1>4, <1>5, <1>6 DEF Decodes
<1> QED
  BY <1>7 DEF P, R, K
\* A key that is encoded decodes to itself, closed.
LEMMA EncodeDecodes ==
    ASSUME NEW k, WellFormed(k), NEW arena \in Seq(Seq(Int))
    PROVE  LET it == Item(tag_for_key(k), encode_items_data(k, arena))
               grown == encode_payload(k, arena)
           IN  /\ it \in ItemSpace /\ it.tag # Removed /\ it.tag.kind = k.kind
               /\ grown \in Seq(Seq(Int)) /\ Len(grown) \in Nat /\ Len(grown) >= Len(arena)
               /\ \A i \in 1 .. Len(arena) : grown[i] = arena[i]
               /\ k.kind \in Stored => it.data \in 0 .. Len(grown) - 1
               /\ Decoded(it, grown) = Closed(k)
<1> DEFINE data == encode_items_data(k, arena)
           it == Item(tag_for_key(k), data)
           grown == encode_payload(k, arena)
           const == k.kind \in Mutability /\ k.fields[2] = 1
<1>0. /\ k = Key(k.kind, k.fields) /\ k.fields \in Seq(Int) /\ Len(k.fields) \in Nat
      /\ Len(k.fields) >= 1 /\ k.kind \in Mutability \cup Single \cup Stored /\ Len(arena) \in Nat
  BY FieldsFacts
<1>1. /\ it.tag.kind = k.kind /\ it.tag.const = const /\ it.data = data
      /\ it = [tag |-> [kind |-> k.kind, const |-> const], data |-> data]
  BY DEF Item, tag_for_key, Tag
<1>2. it.tag # Removed
  <2>1. k.kind # "removed"
    BY <1>0, KindsDiffer
  <2>2. Removed.kind = "removed"
    BY DEF Removed, Tag
  <2> QED
    BY <1>1, <2>1, <2>2
<1>3. data \in Int
  <2>1. 1 \in 1 .. Len(k.fields)
    BY <1>0
  <2>2. k.fields[1] \in Int
    BY <1>0, <2>1
  <2> QED
    BY <1>0, <2>2 DEF encode_items_data
<1>4. it \in ItemSpace
  <2>1. k.kind \in Kinds /\ const \in BOOLEAN
    BY <1>0 DEF Kinds
  <2> HIDE DEF data, const, it
  <2> QED
    BY <1>1, <1>3, <2>1 DEF ItemSpace
<1>5. CASE k.kind \in Stored
  <2> DEFINE F == Closed(k).fields
  <2>1. F \in Seq(Int) /\ Closed(k) = Key(k.kind, F)
    <3>1. WellFormed(Closed(k)) /\ Closed(k).kind = k.kind
      BY ClosedFacts
    <3> QED
      BY <3>1, FieldsFacts
  <2>2. grown = Append(arena, F) /\ data = Len(arena)
    BY <1>5 DEF encode_payload, encode_items_data
  <2> HIDE DEF F, grown, data
  <2>3. /\ grown \in Seq(Seq(Int)) /\ Len(grown) = Len(arena) + 1
        /\ \A i \in 1 .. Len(arena) : grown[i] = arena[i]
        /\ grown[Len(arena) + 1] = F
    BY <2>1, <2>2
  <2>4. data \in 0 .. Len(grown) - 1 /\ Len(grown) \in Nat /\ Len(grown) >= Len(arena)
    BY <1>0, <2>2, <2>3
  <2>5. Decoded(it, grown) = Key(k.kind, grown[data + 1])
    <3>1. k.kind \notin Mutability /\ k.kind \notin Single
      BY <1>5, KindsDiffer
    <3> QED
      BY <1>1, <3>1 DEF Decoded
  <2>6. Decoded(it, grown) = Closed(k)
    BY <2>1, <2>2, <2>3, <2>5
  <2> HIDE DEF it
  <2> QED
    BY <1>1, <1>2, <1>4, <2>3, <2>4, <2>6 DEF it, data, grown
<1>6. CASE k.kind \notin Stored
  <2>1. grown = arena /\ data = k.fields[1] /\ Closed(k) = k
    BY <1>6, ClosedFacts DEF encode_payload, encode_items_data
  <2>2. Decoded(it, grown) = k
    <3>1. CASE k.kind \in Mutability
      <4>1. Len(k.fields) = 2 /\ k.fields[2] \in {0, 1}
        BY <3>1, KindsDiffer DEF WellFormed
      <4>2. k.fields = <<k.fields[1], k.fields[2]>>
        BY <1>0, <4>1
      <4>3. k.fields[2] = IF const THEN 1 ELSE 0
        BY <3>1, <4>1
      <4> HIDE DEF const, data, it
      <4>4. Decoded(it, grown) = Key(k.kind, <<data, IF const THEN 1 ELSE 0>>)
        BY <1>1, <3>1 DEF Decoded
      <4> QED
        BY <1>0, <2>1, <4>2, <4>3, <4>4
    <3>2. CASE k.kind \in Single
      <4>1. Len(k.fields) = 1 /\ k.kind \notin Mutability
        BY <3>2, KindsDiffer DEF WellFormed
      <4>2. k.fields = <<k.fields[1]>>
        BY <1>0, <4>1
      <4> HIDE DEF const, data, it
      <4>3. Decoded(it, grown) = Key(k.kind, <<data>>)
        BY <1>1, <3>2, <4>1 DEF Decoded
      <4> QED
        BY <1>0, <2>1, <4>2, <4>3
    <3> QED
      BY <1>0, <1>6, <3>1, <3>2
  <2> HIDE DEF it, grown, data
  <2>3. /\ grown \in Seq(Seq(Int)) /\ Len(grown) \in Nat /\ Len(grown) >= Len(arena)
        /\ \A i \in 1 .. Len(arena) : grown[i] = arena[i]
    BY <1>0, <2>1
  <2> QED
    BY <1>1, <1>2, <1>4, <1>6, <2>1, <2>2, <2>3 DEF it, data, grown
<1> QED
  BY <1>5, <1>6

\* More payloads do not change what an item decodes to.
LEMMA DecodesOn ==
    ASSUME NEW it, NEW arena, Decodable(it, arena), Len(arena) \in Nat, NEW grown,
           Len(grown) \in Nat, Len(grown) >= Len(arena),
           \A i \in 1 .. Len(arena) : grown[i] = arena[i]
    PROVE  Decodable(it, grown) /\ Decoded(it, grown) = Decoded(it, arena)
<1>1. it.tag.kind \in Mutability \cup Single \cup Stored /\ Decoded(it, arena) \in PoolKeys
        /\ (it.tag.kind \in Stored => it.data \in 0 .. Len(arena) - 1)
  BY DEF Decodable
<1>2. it.tag.kind \in Stored => /\ it.data \in 0 .. Len(grown) - 1
                                /\ grown[it.data + 1] = arena[it.data + 1]
  <2> SUFFICES ASSUME it.tag.kind \in Stored
               PROVE  it.data \in 0 .. Len(grown) - 1 /\ grown[it.data + 1] = arena[it.data + 1]
    OBVIOUS
  <2>1. it.data \in 0 .. Len(arena) - 1
    BY <1>1
  <2>2. it.data + 1 \in 1 .. Len(arena) /\ it.data \in 0 .. Len(grown) - 1
    BY <2>1
  <2> QED
    BY <2>2
<1>3. Decoded(it, grown) = Decoded(it, arena)
  BY <1>1, <1>2 DEF Decoded
<1> QED
  BY <1>1, <1>2, <1>3 DEF Decodable

\* Only the keys of the items matter.
LEMMA SameKeysSound ==
    ASSUME NEW L, NEW R, NEW K, NEW b, SoundBuckets(L, R, K, b), NEW Q,
           \A x \in L : Q[x] = K[x]
    PROVE  SoundBuckets(L, R, Q, b)
<1>1. \A i \in Used(b) :
        b.slot[i].item \in L => b.slot[i].high = hash_key(Q[b.slot[i].item]).high
  BY DEF SoundBuckets
<1>2. \A i \in Used(b), m \in Slots(b) :
        b.slot[i].item \in L /\ OnWay(m, Q[b.slot[i].item], b.count, i) => m \in Used(b)
  BY DEF SoundBuckets
<1> QED
  BY <1>1, <1>2 DEF SoundBuckets

\* An item that is removed leaves its bucket behind.
LEMMA RemovedSound ==
    ASSUME NEW L, NEW R, NEW K, NEW b, SoundBuckets(L, R, K, b),
           NEW M \in SUBSET L, NEW S, L \cup R \subseteq M \cup S
    PROVE  SoundBuckets(M, S, K, b)
BY DEF SoundBuckets
\* The positions of a pool.
LEMMA ItemRange ==
    ASSUME NEW pool, NEW arena, SoundItems(pool, arena)
    PROVE  /\ ReservedBase \in Nat /\ IP_RESERVED_COUNT = ReservedBase + 5
           /\ Len(pool) \in Nat /\ Len(pool) >= IP_RESERVED_COUNT /\ Len(arena) \in Nat
           /\ \A x \in 1 .. Len(pool) : pool[x] \in ItemSpace
           /\ \A x \in LiveItems(pool) \cup GoneItems(pool) : x \in 1 .. Len(pool)
<1>1. ReservedBase \in Nat /\ IP_RESERVED_COUNT = ReservedBase + 5
  BY InternAssumption DEF ReservedBase, IP_RESERVED_COUNT
<1>2. pool \in Seq(ItemSpace) /\ arena \in Seq(Seq(Int)) /\ Len(pool) >= IP_RESERVED_COUNT
  BY DEF SoundItems
<1>3. Len(pool) \in Nat /\ Len(arena) \in Nat /\ \A x \in 1 .. Len(pool) : pool[x] \in ItemSpace
  BY <1>2
<1>4. \A x \in ReservedBase + 1 .. Len(pool) : x \in 1 .. Len(pool)
  BY <1>1, <1>3
<1> QED
  BY <1>1, <1>2, <1>3, <1>4 DEF LiveItems, GoneItems

\* A new key is added at the end.
LEMMA AppendSound ==
    ASSUME NEW pool, NEW arena, SoundItems(pool, arena), NEW k \in Asked,
           \A x \in LiveItems(pool) : ItemKeys(pool, arena)[x] # Closed(k)
    PROVE  LET more  == Append(pool, Item(tag_for_key(k), encode_items_data(k, arena)))
               grown == encode_payload(k, arena)
               x     == Len(pool) + 1
           IN  /\ SoundItems(more, grown)
               /\ LiveItems(more) = LiveItems(pool) \cup {x}
               /\ GoneItems(more) = GoneItems(pool)
               /\ \A y \in LiveItems(pool) : ItemKeys(more, grown)[y] = ItemKeys(pool, arena)[y]
               /\ ItemKeys(more, grown)[x] = Closed(k)
<1> DEFINE it == Item(tag_for_key(k), encode_items_data(k, arena))
           more == Append(pool, it)
           grown == encode_payload(k, arena)
           x == Len(pool) + 1
<1>1. /\ ReservedBase \in Nat /\ IP_RESERVED_COUNT = ReservedBase + 5
      /\ Len(pool) \in Nat /\ Len(pool) >= IP_RESERVED_COUNT /\ Len(arena) \in Nat
      /\ \A y \in LiveItems(pool) \cup GoneItems(pool) : y \in 1 .. Len(pool)
  BY ItemRange
<1>2. pool \in Seq(ItemSpace) /\ arena \in Seq(Seq(Int))
  BY DEF SoundItems
<1>3. WellFormed(k) /\ Closed(k) \in PoolKeys
  BY AskedFacts
<1>4. /\ it \in ItemSpace /\ it.tag # Removed /\ it.tag.kind = k.kind
      /\ grown \in Seq(Seq(Int)) /\ Len(grown) \in Nat /\ Len(grown) >= Len(arena)
      /\ \A i \in 1 .. Len(arena) : grown[i] = arena[i]
      /\ k.kind \in Stored => it.data \in 0 .. Len(grown) - 1
      /\ Decoded(it, grown) = Closed(k)
  BY <1>2, <1>3, EncodeDecodes
<1>5. Decodable(it, grown)
  <2>1. k.kind \in Mutability \cup Single \cup Stored
    BY <1>3, FieldsFacts
  <2> HIDE DEF it, grown
  <2> QED
    BY <1>3, <1>4, <2>1 DEF Decodable
<1> HIDE DEF it, grown
<1>6. /\ more \in Seq(ItemSpace) /\ Len(more) = Len(pool) + 1 /\ more[Len(pool) + 1] = it
      /\ \A y \in 1 .. Len(pool) : more[y] = pool[y]
  BY <1>2, <1>4
<1> HIDE DEF more
<1>7. \A y \in ReservedBase + 1 .. Len(more) :
        y = x \/ (y # x /\ y \in ReservedBase + 1 .. Len(pool) /\ more[y] = pool[y])
  <2> TAKE y \in ReservedBase + 1 .. Len(more)
  <2>1. CASE y # Len(pool) + 1
    <3>1. y \in ReservedBase + 1 .. Len(pool) /\ y \in 1 .. Len(pool)
      BY <1>1, <1>6, <2>1
    <3> QED
      BY <1>6, <2>1, <3>1
  <2> QED
    BY <2>1
<1>8. x \in ReservedBase + 1 .. Len(more) /\ x \notin 1 .. Len(pool) /\ more[x] = it
        /\ \A y \in ReservedBase + 1 .. Len(pool) : y \in ReservedBase + 1 .. Len(more)
  BY <1>1, <1>6
<1> HIDE DEF x
<1>9. LiveItems(more) = LiveItems(pool) \cup {x}
  <2>1. \A y \in LiveItems(pool) : y \in ReservedBase + 1 .. Len(pool) /\ y # x /\ pool[y].tag # Removed
    BY <1>1, <1>8 DEF LiveItems
  <2> QED
    BY <1>4, <1>7, <1>8, <2>1 DEF LiveItems
<1>10. GoneItems(more) = GoneItems(pool)
  <2>1. \A y \in GoneItems(pool) : y \in ReservedBase + 1 .. Len(pool) /\ y # x /\ pool[y].tag = Removed
    BY <1>1, <1>8 DEF GoneItems
  <2> QED
    BY <1>4, <1>7, <1>8, <2>1 DEF GoneItems
<1>11. ASSUME NEW y \in LiveItems(pool)
       PROVE  /\ more[y] = pool[y] /\ y # x /\ Decodable(more[y], grown)
              /\ Decoded(more[y], grown) = ItemKeys(pool, arena)[y]
              /\ ItemKeys(pool, arena)[y] = Decoded(pool[y], arena)
  <2>1. Decodable(pool[y], arena) /\ y \in 1 .. Len(pool)
    BY <1>1 DEF SoundItems
  <2>2. more[y] = pool[y] /\ y # x
    BY <1>6, <1>8, <2>1
  <2>3. Decodable(pool[y], grown) /\ Decoded(pool[y], grown) = Decoded(pool[y], arena)
    BY <1>1, <1>4, <2>1, DecodesOn
  <2>4. ItemKeys(pool, arena)[y] = Decoded(pool[y], arena)
    BY DEF ItemKeys
  <2> QED
    BY <2>2, <2>3, <2>4
<1>12. \A y \in LiveItems(more) : Decodable(more[y], grown)
  BY <1>5, <1>8, <1>9, <1>11
<1>13. ASSUME NEW y \in LiveItems(more), NEW z \in LiveItems(more),
              Decoded(more[y], grown) = Decoded(more[z], grown)
       PROVE  y = z
  <2>1. CASE y = x /\ z # x
    BY <1>4, <1>8, <1>9, <1>11, <1>13, <2>1
  <2>2. CASE y # x /\ z = x
    BY <1>4, <1>8, <1>9, <1>11, <1>13, <2>2
  <2>3. CASE y # x /\ z # x
    <3>1. y \in LiveItems(pool) /\ z \in LiveItems(pool)
      BY <1>9, <2>3
    <3>2. Decoded(pool[y], arena) = Decoded(pool[z], arena)
      BY <1>11, <1>13, <3>1
    <3> QED
      BY <3>1, <3>2 DEF SoundItems
  <2> QED
    BY <2>1, <2>2, <2>3
<1>14. Len(more) >= IP_RESERVED_COUNT
  BY <1>1, <1>6
<1>15. SoundItems(more, grown)
  BY <1>4, <1>6, <1>12, <1>13, <1>14 DEF SoundItems
<1>16. \A y \in LiveItems(more) : ItemKeys(more, grown)[y] = Decoded(more[y], grown)
  BY DEF ItemKeys
<1>17. \A y \in LiveItems(pool) : ItemKeys(more, grown)[y] = ItemKeys(pool, arena)[y]
  BY <1>9, <1>11, <1>16
<1>18. ItemKeys(more, grown)[x] = Closed(k)
  BY <1>4, <1>8, <1>9, <1>16
<1> QED
  BY <1>9, <1>10, <1>15, <1>17, <1>18 DEF x, more, grown, it

\* An item is removed.
LEMMA RemoveSound ==
    ASSUME NEW pool, NEW arena, SoundItems(pool, arena),
           NEW x \in IP_RESERVED_COUNT + 1 .. Len(pool),
           NEW less \in Seq(ItemSpace), Len(less) = Len(pool), less[x].tag = Removed,
           \A y \in 1 .. Len(pool) : y # x => less[y] = pool[y]
    PROVE  /\ SoundItems(less, arena)
           /\ LiveItems(less) = LiveItems(pool) \ {x}
           /\ LiveItems(pool) \cup GoneItems(pool) \subseteq LiveItems(less) \cup GoneItems(less)
           /\ \A y \in LiveItems(less) : ItemKeys(less, arena)[y] = ItemKeys(pool, arena)[y]
<1>1. /\ ReservedBase \in Nat /\ IP_RESERVED_COUNT = ReservedBase + 5
      /\ Len(pool) \in Nat /\ Len(pool) >= IP_RESERVED_COUNT
      /\ \A y \in LiveItems(pool) \cup GoneItems(pool) : y \in 1 .. Len(pool)
  BY ItemRange
<1>2. x \in 1 .. Len(pool) /\ x \in ReservedBase + 1 .. Len(pool)
  BY <1>1
<1>5. pool \in Seq(ItemSpace) /\ arena \in Seq(Seq(Int))
  BY DEF SoundItems
<1>7. \A y \in ReservedBase + 1 .. Len(pool) : y # x => less[y] = pool[y]
  BY <1>1
<1>8. LiveItems(less) = LiveItems(pool) \ {x}
  BY <1>2, <1>7 DEF LiveItems
<1>9. LiveItems(pool) \cup GoneItems(pool) \subseteq LiveItems(less) \cup GoneItems(less)
  BY DEF LiveItems, GoneItems
<1>10. \A y \in LiveItems(less) : y \in LiveItems(pool) /\ less[y] = pool[y]
  BY <1>1, <1>8
<1>11. SoundItems(less, arena)
  BY <1>1, <1>5, <1>10 DEF SoundItems
<1>12. \A y \in LiveItems(less) : ItemKeys(less, arena)[y] = ItemKeys(pool, arena)[y]
  BY <1>10 DEF ItemKeys
<1> QED
  BY <1>8, <1>9, <1>11, <1>12
-----------------------------------------------------------------------------
(* The intern pool: the reserved items.                                    *)

\* The reserved keys are well formed, closed and different.
LEMMA ReservedKeys ==
    /\ \A i \in 1 .. 5 : /\ ReservedCompounds[i] \in Asked /\ WellFormed(ReservedCompounds[i])
                         /\ Closed(ReservedCompounds[i]) = ReservedCompounds[i]
                         /\ ReservedCompounds[i] \in PoolKeys
                         /\ (i < 5 => ReservedCompounds[i].kind \in Mutability)
    /\ ReservedCompounds[5].kind \in Stored
    /\ \A i, j \in 1 .. 5 : ReservedCompounds[i] = ReservedCompounds[j] => i = j
<1> DEFINE RC == ReservedCompounds
           e == IP_EMPTY_EFFECT_ROW
<1>0. e \in Int /\ e # IP_NONE
  BY InternAssumption DEF IP_EMPTY_EFFECT_ROW, ReservedBase, IP_NONE
<1>1. \A i \in 1 .. 5 : RC[i] \in Asked
  BY DEF Asked, Reserved
<1>2. \A i \in 1 .. 5 : WellFormed(RC[i])
  BY <1>1, AskedWellFormed
<1>3. /\ RC[1].kind = "ptr" /\ RC[2].kind = "ptr" /\ RC[3].kind = "ptr" /\ RC[4].kind = "slice"
      /\ RC[5].kind = "effect_row"
  BY DEF ReservedCompounds, Key
<1>4. \A i \in 1 .. 5 : i < 5 => RC[i].kind \in Mutability
  <2>1. "ptr" \in Mutability /\ "slice" \in Mutability
    BY DEF Mutability
  <2>2. \A i \in 1 .. 5 : i < 5 => i = 1 \/ i = 2 \/ i = 3 \/ i = 4
    OBVIOUS
  <2> HIDE DEF RC
  <2> QED
    BY <1>3, <2>1, <2>2
<1>5. RC[5].kind \in Stored
  BY <1>3 DEF Stored
<1>6. RC[5].fields = <<0, e>>
  BY DEF ReservedCompounds, Key
<1>7. Closed(RC[5]) = RC[5]
  <2>1. RC[5].fields[Len(RC[5].fields)] = e
    BY <1>6
  <2> HIDE DEF RC, e
  <2> QED
    BY <1>0, <2>1 DEF Closed
<1>8. \A i \in 1 .. 5 : Closed(RC[i]) = RC[i]
  <2> TAKE i \in 1 .. 5
  <2>1. CASE i < 5
    <3>1. RC[i].kind \notin Stored
      BY <1>4, <2>1, KindsDiffer
    <3> QED
      BY <1>2, <3>1, ClosedFacts
  <2>2. CASE i = 5
    BY <1>7, <2>2
  <2> QED
    BY <2>1, <2>2
<1>9. \A i \in 1 .. 5 : RC[i] \in PoolKeys
  BY <1>1, <1>8 DEF PoolKeys
<1>10. /\ RC[1].fields = <<2, 1>> /\ RC[2].fields = <<3, 0>> /\ RC[3].fields = <<3, 1>>
  BY DEF ReservedCompounds, Key, IP_U8_TYPE, IP_VOID_TYPE
<1>11. \A i, j \in 1 .. 5 : RC[i] = RC[j] => i = j
  <2>1. /\ RC[1].fields[1] = 2 /\ RC[1].fields[2] = 1 /\ RC[2].fields[1] = 3
        /\ RC[2].fields[2] = 0 /\ RC[3].fields[1] = 3 /\ RC[3].fields[2] = 1
    BY <1>10
  <2>2. RC[1] # RC[2] /\ RC[1] # RC[3] /\ RC[2] # RC[3]
    <3> HIDE DEF RC
    <3> QED
      BY <2>1
  <2>3. "ptr" # "slice" /\ "ptr" # "effect_row" /\ "slice" # "effect_row"
    OBVIOUS
  <2>4. /\ RC[1] # RC[4] /\ RC[2] # RC[4] /\ RC[3] # RC[4]
        /\ RC[1] # RC[5] /\ RC[2] # RC[5] /\ RC[3] # RC[5] /\ RC[4] # RC[5]
    <3> HIDE DEF RC
    <3> QED
      BY <1>3, <2>3
  <2>5. \A i \in 1 .. 5 : i = 1 \/ i = 2 \/ i = 3 \/ i = 4 \/ i = 5
    OBVIOUS
  <2> HIDE DEF RC
  <2> QED
    BY <2>2, <2>4, <2>5
<1> QED
  BY <1>1, <1>2, <1>4, <1>5, <1>8, <1>9, <1>11

\* The pool starts with the reserved items.
LEMMA ReservedSound ==
    /\ SoundItems(ReservedItems, ReservedExtra)
    /\ ReservedBase \in Nat
    /\ LiveItems(ReservedItems) = {ReservedBase + i : i \in 1 .. 5}
    /\ GoneItems(ReservedItems) = {}
    /\ \A i \in 1 .. 5 : /\ ReservedBase + i \in LiveItems(ReservedItems)
                         /\ ItemKeys(ReservedItems, ReservedExtra)[ReservedBase + i] = ReservedCompounds[i]
<1> DEFINE pool == ReservedItems
           arena == ReservedExtra
           RC == ReservedCompounds
           It(i) == Item(tag_for_key(RC[i]), encode_items_data(RC[i], <<>>))
<1>1. Primitives \in Nat /\ ReservedBase = Primitives + 2 /\ IP_RESERVED_COUNT = ReservedBase + 5
  BY InternAssumption DEF ReservedBase, IP_RESERVED_COUNT
<1>2. /\ pool = [p \in 1 .. IP_RESERVED_COUNT |-> ReservedItem(p - 1)]
      /\ IP_RESERVED_COUNT \in Nat
  BY <1>1 DEF ReservedItems
<1>3. <<>> \in Seq(Seq(Int)) /\ Len(<<>>) = 0
  OBVIOUS
<1>4. ASSUME NEW i \in 1 .. 5
      PROVE  /\ It(i) \in ItemSpace /\ It(i).tag # Removed /\ It(i).tag.kind = RC[i].kind
             /\ Decoded(It(i), encode_payload(RC[i], <<>>)) = RC[i]
             /\ RC[i].kind \in Stored => It(i).data \in 0 .. Len(encode_payload(RC[i], <<>>)) - 1
  <2>1. WellFormed(RC[i]) /\ Closed(RC[i]) = RC[i]
    BY ReservedKeys
  <2> QED
    BY <1>3, <2>1, EncodeDecodes
<1>5. arena = encode_payload(RC[5], <<>>) /\ arena \in Seq(Seq(Int)) /\ Len(arena) = 1
  <2>1. encode_payload(RC[5], <<>>) = Append(<<>>, RC[5].fields)
    BY ReservedKeys DEF encode_payload
  <2>2. RC[5].fields \in Seq(Int)
    BY ReservedKeys, FieldsFacts
  <2> DEFINE F == RC[5].fields
  <2> HIDE DEF F
  <2>3. Append(<<>>, F) = <<F>> /\ (F \in Seq(Int) => <<F>> \in Seq(Seq(Int))) /\ Len(<<F>>) = 1
    OBVIOUS
  <2>4. arena = <<F>>
    BY DEF ReservedExtra, F
  <2> QED
    BY <2>1, <2>2, <2>3, <2>4 DEF F
<1> HIDE DEF It
<1>6. ASSUME NEW i \in 1 .. 5
      PROVE  Decodable(It(i), arena) /\ Decoded(It(i), arena) = RC[i]
  <2>1. RC[i] \in PoolKeys /\ (i < 5 => RC[i].kind \in Mutability) /\ RC[5].kind \in Stored
    BY ReservedKeys
  <2>2. CASE i = 5
    <3>1. Decoded(It(i), arena) = RC[i] /\ It(i).tag.kind = RC[i].kind /\ RC[i].kind \in Stored
            /\ It(i).data \in 0 .. Len(arena) - 1
      BY <1>4, <1>5, <2>1, <2>2
    <3> HIDE DEF arena, RC
    <3> QED
      BY <2>1, <3>1 DEF Decodable
  <2>3. CASE i < 5
    <3>1. It(i).tag.kind \in Mutability /\ It(i).tag.kind \notin Stored
      BY <1>4, <2>1, <2>3, KindsDiffer
    <3>2. Decoded(It(i), arena) = Decoded(It(i), encode_payload(RC[i], <<>>))
      BY <3>1 DEF Decoded
    <3>3. Decoded(It(i), arena) = RC[i]
      BY <1>4, <3>2
    <3> HIDE DEF arena, RC
    <3> QED
      BY <2>1, <3>1, <3>3 DEF Decodable
  <2> QED
    BY <2>2, <2>3
<1>7. ASSUME NEW i \in 1 .. 5
      PROVE  pool[ReservedBase + i] = It(i)
  <2>1. ReservedBase + i \in 1 .. IP_RESERVED_COUNT
    BY <1>1
  <2> DEFINE q == (ReservedBase + i) - 1
  <2>2. q # 0 /\ ~(q <= Primitives) /\ ~(q < ReservedBase) /\ q - ReservedBase + 1 = i
    BY <1>1
  <2>3. pool[ReservedBase + i] = ReservedItem(q)
    BY <1>2, <2>1
  <2> HIDE DEF q
  <2>4. ReservedItem(q) = It(i)
    BY <2>2 DEF ReservedItem, It
  <2> QED
    BY <2>3, <2>4
<1>8. \A x \in ReservedBase + 1 .. IP_RESERVED_COUNT : \E i \in 1 .. 5 : x = ReservedBase + i
  <2> TAKE x \in ReservedBase + 1 .. IP_RESERVED_COUNT
  <2>1. x - ReservedBase \in 1 .. 5 /\ x = ReservedBase + (x - ReservedBase)
    BY <1>1
  <2> QED
    BY <2>1
<1>9. \A i \in 1 .. 5 : ReservedBase + i \in ReservedBase + 1 .. IP_RESERVED_COUNT
  BY <1>1
<1>10. \A p \in 1 .. IP_RESERVED_COUNT : ReservedItem(p - 1) \in ItemSpace
  <2> TAKE p \in 1 .. IP_RESERVED_COUNT
  <2>1. CASE p - 1 < ReservedBase
    <3>1. /\ Item(Dead, 0) \in ItemSpace /\ Item(Tag("primitive", FALSE), 0) \in ItemSpace
          /\ Item(Tag("reserved_value", FALSE), 0) \in ItemSpace
      BY DEF Item, Dead, Tag, ItemSpace, Kinds
    <3> QED
      BY <2>1, <3>1 DEF ReservedItem
  <2>2. CASE ~(p - 1 < ReservedBase)
    <3>1. p \in ReservedBase + 1 .. IP_RESERVED_COUNT
      BY <1>1, <1>2, <2>2
    <3>2. PICK i \in 1 .. 5 : p = ReservedBase + i
      BY <1>8, <3>1
    <3>3. pool[p] = It(i) /\ pool[p] = ReservedItem(p - 1)
      BY <1>2, <1>7, <3>2
    <3> QED
      BY <1>4, <3>3
  <2> QED
    BY <2>1, <2>2
<1>11. pool \in Seq(ItemSpace) /\ Len(pool) = IP_RESERVED_COUNT
  <2>1. pool \in [1 .. IP_RESERVED_COUNT -> ItemSpace]
    BY <1>2, <1>10
  <2> HIDE DEF pool
  <2> QED
    BY <1>2, <2>1
<1> HIDE DEF pool, arena, RC
<1>12. LiveItems(pool) = {ReservedBase + i : i \in 1 .. 5} /\ GoneItems(pool) = {}
  BY <1>4, <1>7, <1>8, <1>9, <1>11 DEF LiveItems, GoneItems
<1>13. \A x \in LiveItems(pool) : \E i \in 1 .. 5 : x = ReservedBase + i /\ pool[x] = It(i)
  BY <1>7, <1>12
<1>14. \A x \in LiveItems(pool) : Decodable(pool[x], arena)
  BY <1>6, <1>13
<1>15. ASSUME NEW x \in LiveItems(pool), NEW y \in LiveItems(pool),
              Decoded(pool[x], arena) = Decoded(pool[y], arena)
       PROVE  x = y
  <2>1. PICK i \in 1 .. 5 : x = ReservedBase + i /\ pool[x] = It(i)
    BY <1>13
  <2>2. PICK j \in 1 .. 5 : y = ReservedBase + j /\ pool[y] = It(j)
    BY <1>13
  <2>3. RC[i] = RC[j]
    BY <1>6, <1>15, <2>1, <2>2
  <2>4. i = j
    BY <2>3, ReservedKeys DEF RC
  <2> QED
    BY <2>1, <2>2, <2>4
<1>16. SoundItems(pool, arena)
  <2>1. Len(pool) >= IP_RESERVED_COUNT
    BY <1>2, <1>11
  <2>2. pool \in Seq(ItemSpace) /\ arena \in Seq(Seq(Int))
    BY <1>5, <1>11
  <2> QED
    BY <1>14, <1>15, <2>1, <2>2 DEF SoundItems
<1>17. \A i \in 1 .. 5 : /\ ReservedBase + i \in LiveItems(pool)
                         /\ ItemKeys(pool, arena)[ReservedBase + i] = RC[i]
  BY <1>6, <1>7, <1>12 DEF ItemKeys
<1> QED
  BY <1>1, <1>12, <1>16, <1>17 DEF pool, arena, RC

\* Their buckets, in a table of any size.
LEMMA PopulateSound ==
    ASSUME NEW n \in Nat, n > 1
    PROVE  SoundBuckets(LiveItems(ReservedItems), GoneItems(ReservedItems),
                        ItemKeys(ReservedItems, ReservedExtra), populate_reserved(n))
<1> DEFINE pool == ReservedItems
           arena == ReservedExtra
           P == LiveItems(pool)
           R == GoneItems(pool)
           K == ItemKeys(pool, arena)
           B == ReservedBase
           b0 == NoBuckets(n)
           b1 == register_bucket(pool, arena, b0, B)
           b2 == register_bucket(pool, arena, b1, B + 1)
           b3 == register_bucket(pool, arena, b2, B + 2)
           b4 == register_bucket(pool, arena, b3, B + 3)
           b5 == register_bucket(pool, arena, b4, B + 4)
<1>1. Decodes(pool, arena, P, R, K)
  BY ReservedSound, LiveDecodes
<1>2. /\ B \in Nat /\ P = {B + i : i \in 1 .. 5} /\ B + 1 \in P /\ B + 2 \in P /\ B + 3 \in P
      /\ B + 4 \in P /\ B + 5 \in P
  BY ReservedSound
<1>3. populate_reserved(n) = b5
  <2>1. B \in Nat /\ B + 0 = B
    BY <1>2
  <2> HIDE DEF B
  <2>2. populate_reserved(n) =
          register_bucket(pool, arena, register_bucket(pool, arena, register_bucket(pool, arena,
            register_bucket(pool, arena, register_bucket(pool, arena, b0, B + 0), B + 1), B + 2), B + 3), B + 4)
    BY DEF populate_reserved, B
  <2> QED
    BY <2>1, <2>2
<1>4. SoundBuckets({}, R, K, b0)
  BY NoBucketsSound
<1> HIDE DEF pool, arena, P, R, K, B, b0, b1, b2, b3, b4, b5
<1>5. SoundBuckets({B + 1}, R, K, b1)
  <2>1. {} \in SUBSET P /\ B + 1 \in P /\ B + 1 \notin {} /\ (B + 1) - 1 = B /\ {} \cup {B + 1} = {B + 1}
    BY <1>2
  <2>2. SoundBuckets({} \cup {B + 1}, R, K, register_bucket(pool, arena, b0, (B + 1) - 1))
    BY <1>1, <1>4, <2>1, RegisterSound
  <2> QED
    BY <2>1, <2>2 DEF b1
<1>6. SoundBuckets({B + 1, B + 2}, R, K, b2)
  <2>1. /\ {B + 1} \in SUBSET P /\ B + 2 \in P /\ B + 2 \notin {B + 1} /\ (B + 2) - 1 = B + 1
        /\ {B + 1} \cup {B + 2} = {B + 1, B + 2}
    BY <1>2
  <2>2. SoundBuckets({B + 1} \cup {B + 2}, R, K, register_bucket(pool, arena, b1, (B + 2) - 1))
    BY <1>1, <1>5, <2>1, RegisterSound
  <2> QED
    BY <2>1, <2>2 DEF b2
<1>7. SoundBuckets({B + 1, B + 2, B + 3}, R, K, b3)
  <2>1. /\ {B + 1, B + 2} \in SUBSET P /\ B + 3 \in P /\ B + 3 \notin {B + 1, B + 2}
        /\ (B + 3) - 1 = B + 2 /\ {B + 1, B + 2} \cup {B + 3} = {B + 1, B + 2, B + 3}
    BY <1>2
  <2>2. SoundBuckets({B + 1, B + 2} \cup {B + 3}, R, K, register_bucket(pool, arena, b2, (B + 3) - 1))
    BY <1>1, <1>6, <2>1, RegisterSound
  <2> QED
    BY <2>1, <2>2 DEF b3
<1>8. SoundBuckets({B + 1, B + 2, B + 3, B + 4}, R, K, b4)
  <2> DEFINE L == {B + 1, B + 2, B + 3}
  <2>1. /\ L \in SUBSET P /\ B + 4 \in P /\ B + 4 \notin L
        /\ (B + 4) - 1 = B + 3 /\ L \cup {B + 4} = {B + 1, B + 2, B + 3, B + 4}
    BY <1>2
  <2>2. SoundBuckets(L, R, K, b3)
    BY <1>7
  <2> HIDE DEF L
  <2>3. SoundBuckets(L \cup {B + 4}, R, K, register_bucket(pool, arena, b3, (B + 4) - 1))
    BY <1>1, <2>1, <2>2, RegisterSound
  <2> QED
    BY <2>1, <2>3 DEF b4
<1>9. SoundBuckets(P, R, K, b5)
  <2> DEFINE L == {B + 1, B + 2, B + 3, B + 4}
  <2>1. /\ L \in SUBSET P /\ B + 5 \in P /\ B + 5 \notin L /\ (B + 5) - 1 = B + 4
    BY <1>2
  <2>2. L \cup {B + 5} = P
    <3>1. \A i \in 1 .. 5 : i = 1 \/ i = 2 \/ i = 3 \/ i = 4 \/ i = 5
      OBVIOUS
    <3> QED
      BY <1>2, <2>1, <3>1
  <2>3. SoundBuckets(L, R, K, b4)
    BY <1>8
  <2> HIDE DEF L
  <2>4. SoundBuckets(L \cup {B + 5}, R, K, register_bucket(pool, arena, b4, (B + 5) - 1))
    BY <1>1, <2>1, <2>3, RegisterSound
  <2> QED
    BY <2>1, <2>2, <2>4 DEF b5
<1> QED
  BY <1>3, <1>9 DEF P, R, K, pool, arena
-----------------------------------------------------------------------------
(* The intern pool: its invariant.                                         *)

\* The answers given are the indices of items that have those keys.
AnswersHold(given, pool, arena) ==
    \A k \in DOMAIN given :
        /\ given[k] \in Nat /\ given[k] + 1 \in LiveItems(pool)
        /\ k \in PoolKeys /\ ItemKeys(pool, arena)[given[k] + 1] = k

(***************************************************************************)
(* The inductive invariant: no two items that are not removed decode to    *)
(* the same key; each of them has one bucket, which its probe reaches; and *)
(* every index that was answered is still that of its key.                 *)
(***************************************************************************)
InternInv ==
    /\ SoundItems(items, extra)
    /\ SoundBuckets(LiveItems(items), GoneItems(items), ItemKeys(items, extra), buckets)
    /\ AnswersHold(answered, items, extra)
    /\ next_var \in [VarKinds -> Nat]

\* The pool as it is set up, in a table of any size.
LEMMA ReservedAnswersHold == AnswersHold(ReservedAnswers, ReservedItems, ReservedExtra)
<1> SUFFICES ASSUME NEW k \in Reserved
             PROVE  /\ ReservedAnswers[k] \in Nat
                    /\ ReservedAnswers[k] + 1 \in LiveItems(ReservedItems)
                    /\ k \in PoolKeys
                    /\ ItemKeys(ReservedItems, ReservedExtra)[ReservedAnswers[k] + 1] = k
  BY DEF AnswersHold, ReservedAnswers
<1> DEFINE i == CHOOSE j \in 1 .. 5 : ReservedCompounds[j] = k
<1>1. i \in 1 .. 5 /\ ReservedCompounds[i] = k
  BY DEF Reserved
<1>2. ReservedAnswers[k] = ReservedBase - 1 + i
  BY DEF ReservedAnswers
<1> HIDE DEF i
<1>3. ReservedBase \in Nat
  BY ReservedSound
<1>4. ReservedAnswers[k] \in Nat /\ ReservedAnswers[k] + 1 = ReservedBase + i
  BY <1>1, <1>2, <1>3
<1>5. /\ ReservedBase + i \in LiveItems(ReservedItems)
      /\ ItemKeys(ReservedItems, ReservedExtra)[ReservedBase + i] = k
  BY <1>1, ReservedSound
<1>6. k \in PoolKeys
  BY <1>1, ReservedKeys
<1> QED
  BY <1>4, <1>5, <1>6

\* The invariant is enough: an index stands for one key, and is found again.
LEMMA InternInvAnswers ==
    ASSUME InternInv
    PROVE  IndexIsIdentity
<1> DEFINE P == LiveItems(items)
           R == GoneItems(items)
           K == ItemKeys(items, extra)
<1>1. SoundItems(items, extra) /\ SoundBuckets(P, R, K, buckets) /\ AnswersHold(answered, items, extra)
  BY DEF InternInv
<1>2. Decodes(items, extra, P, R, K)
  BY <1>1, LiveDecodes
<1>3. /\ ReservedBase \in Nat /\ Len(items) \in Nat
  BY <1>1, ItemRange
<1>4. ProbesEnd
  <2>1. buckets.count \in Nat /\ Cardinality(Used(buckets)) < buckets.count
    BY <1>1 DEF SoundBuckets
  <2>2. \E f \in Slots(buckets) : f \in Free(buckets)
    BY <2>1, FreeBucket
  <2> QED
    BY <2>2 DEF ProbesEnd
<1>5. ASSUME NEW x \in P
      PROVE  ip_key(x - 1) = K[x] /\ Closed(K[x]) = K[x] /\ K[x] \in PoolKeys
  <2>1. ip_key(x - 1) = K[x] /\ K[x] \in PoolKeys
    <3> HIDE DEF P, R, K
    <3> QED
      BY <1>2 DEF Decodes, ip_key
  <2> QED
    BY <2>1, PoolKeyFacts
<1>6. ASSUME NEW i \in ReservedBase .. Len(items) - 1, NEW j \in ReservedBase .. Len(items) - 1,
             i # j, items[i + 1].tag # Removed, items[j + 1].tag # Removed
      PROVE  ~ip_key_eql(ip_key(i), ip_key(j))
  <2>1. /\ i + 1 \in ReservedBase + 1 .. Len(items) /\ j + 1 \in ReservedBase + 1 .. Len(items)
        /\ i + 1 # j + 1 /\ (i + 1) - 1 = i /\ (j + 1) - 1 = j
    BY <1>3, <1>6
  <2>2. i + 1 \in P /\ j + 1 \in P
    BY <1>6, <2>1 DEF LiveItems
  <2> HIDE DEF P, R, K
  <2>3. K[i + 1] # K[j + 1]
    BY <1>2, <2>1, <2>2 DEF Decodes
  <2>4. ip_key(i) = K[i + 1] /\ Closed(K[i + 1]) = K[i + 1]
    BY <1>5, <2>1, <2>2
  <2>5. ip_key(j) = K[j + 1] /\ Closed(K[j + 1]) = K[j + 1]
    BY <1>5, <2>1, <2>2
  <2> QED
    BY <2>3, <2>4, <2>5 DEF ip_key_eql
<1>7. ASSUME NEW k \in DOMAIN answered
      PROVE  /\ ip_key_eql(ip_key(answered[k]), k)
             /\ LET at == Found(items, extra, buckets, k)
                IN  buckets.slot[at] # NoBucket /\ buckets.slot[at].item = answered[k] + 1
  <2> DEFINE x == answered[k] + 1
  <2>1. answered[k] \in Nat /\ x \in P /\ k \in PoolKeys /\ K[x] = k
    BY <1>1 DEF AnswersHold
  <2>2. x - 1 = answered[k]
    BY <2>1
  <2> HIDE DEF x, P, R, K
  <2>3. ip_key(answered[k]) = k
    BY <1>5, <2>1, <2>2
  <2>4. PICK a \in Asked : k = Closed(a)
    BY <2>1 DEF PoolKeys
  <2>5. Closed(k) = k /\ Closed(k) = Closed(a) /\ hash_key(k) = hash_key(a)
    <3>1. Closed(k) = k
      BY <2>1, PoolKeyFacts
    <3> QED
      BY <2>4, <3>1 DEF hash_key
  <2>6. Found(items, extra, buckets, k) = Found(items, extra, buckets, a)
    <3>1. Matching(items, extra, buckets, k) = Matching(items, extra, buckets, a)
      BY <2>5 DEF Matching, ip_key_eql
    <3>2. BucketHome(k, buckets.count) = BucketHome(a, buckets.count)
      BY <2>5 DEF BucketHome
    <3> QED
      BY <3>1, <3>2 DEF Found
  <2>7. LET at == Found(items, extra, buckets, a)
        IN  buckets.slot[at] # NoBucket /\ buckets.slot[at].item = x
    <3>1. K[x] = Closed(a)
      BY <2>1, <2>5
    <3> QED
      BY <1>1, <1>2, <2>1, <3>1, FoundHit
  <2> QED
    BY <2>3, <2>6, <2>7 DEF ip_key_eql, x
<1> QED
  BY <1>4, <1>6, <1>7 DEF IndexIsIdentity

\* An intern keeps the invariant.
LEMMA GetKeepsInv ==
    ASSUME InternInv, NEW key \in Asked, ip_get_compound(key)
    PROVE  /\ SoundItems(items', extra')
           /\ SoundBuckets(LiveItems(items'), GoneItems(items'), ItemKeys(items', extra'), buckets')
           /\ AnswersHold(answered', items', extra')
<1> DEFINE P == LiveItems(items)
           R == GoneItems(items)
           K == ItemKeys(items, extra)
           room == Roomy(items, extra, buckets)
           at == Found(items, extra, room, key)
           miss == room.slot[at] = NoBucket
           idx == IF miss THEN Len(items) ELSE room.slot[at].item - 1
           c == Closed(key)
<1>1. SoundItems(items, extra) /\ SoundBuckets(P, R, K, buckets) /\ AnswersHold(answered, items, extra)
  BY DEF InternInv
<1>2. Decodes(items, extra, P, R, K) /\ P \in SUBSET P
  BY <1>1, LiveDecodes
<1>3. SoundBuckets(P, R, K, room) /\ room.used + 1 < room.count
  <2> HIDE DEF P, R, K
  <2> QED
    BY <1>1, <1>2, RoomySound
<1>4. /\ buckets' = IF miss THEN Filled(room, at, key, idx) ELSE room
      /\ items' = IF miss THEN Append(items, Item(tag_for_key(key), encode_items_data(key, extra)))
                  ELSE items
      /\ extra' = IF miss THEN encode_payload(key, extra) ELSE extra
      /\ answered' = [k \in DOMAIN answered \cup {c} |-> IF k = c THEN idx ELSE answered[k]]
  BY DEF ip_get_compound
<1>5. c \in PoolKeys /\ hash_key(key) = hash_key(c)
  BY AskedFacts
<1>6. ASSUME NEW pool, NEW arena, idx \in Nat, idx + 1 \in LiveItems(pool),
             ItemKeys(pool, arena)[idx + 1] = c,
             \A x \in P : x \in LiveItems(pool) /\ ItemKeys(pool, arena)[x] = K[x]
      PROVE  AnswersHold(answered', pool, arena)
  <2> SUFFICES ASSUME NEW k \in DOMAIN answered'
               PROVE  /\ answered'[k] \in Nat /\ answered'[k] + 1 \in LiveItems(pool)
                      /\ k \in PoolKeys /\ ItemKeys(pool, arena)[answered'[k] + 1] = k
    BY DEF AnswersHold
  <2> HIDE DEF idx, c
  <2>1. CASE k = c
    <3>1. answered'[k] = idx
      BY <1>4, <2>1
    <3> QED
      BY <1>5, <1>6, <2>1, <3>1
  <2>2. CASE k # c
    <3>1. k \in DOMAIN answered /\ answered'[k] = answered[k]
      BY <1>4, <2>2
    <3>2. /\ answered[k] \in Nat /\ answered[k] + 1 \in P /\ k \in PoolKeys
          /\ K[answered[k] + 1] = k
      BY <1>1, <3>1 DEF AnswersHold
    <3> QED
      BY <1>6, <3>1, <3>2
  <2> QED
    BY <2>1, <2>2
<1>7. CASE \E x \in P : K[x] = c
  <2>1. PICK x \in P : K[x] = c
    BY <1>7
  <2>2. room.slot[at] # NoBucket /\ room.slot[at].item = x
    <3> HIDE DEF P, R, K
    <3> QED
      BY <1>2, <1>3, <2>1, FoundHit
  <2>3. x \in Nat \ {0}
    <3> HIDE DEF P, R, K
    <3> QED
      BY <1>2, <2>1 DEF Decodes
  <2>4. ~miss /\ idx = x - 1
    BY <2>2
  <2>5. idx \in Nat /\ idx + 1 = x
    <3> HIDE DEF idx
    <3> QED
      BY <2>3, <2>4
  <2> HIDE DEF miss, idx, room, at
  <2>6. buckets' = room /\ items' = items /\ extra' = extra
    BY <1>4, <2>4
  <2>7. AnswersHold(answered', items, extra)
    BY <1>6, <2>1, <2>5
  <2> QED
    BY <1>1, <1>3, <2>6, <2>7
<1>8. CASE \A x \in P : K[x] # c
  <2>1. /\ at \in Slots(room) /\ at \in Free(room) /\ room.slot[at] = NoBucket
        /\ \A m \in Slots(room) : OnWay(m, key, room.count, at) => m \in Used(room)
    <3> HIDE DEF P, R, K
    <3> QED
      BY <1>2, <1>3, <1>8, FoundMiss
  <2> DEFINE it == Item(tag_for_key(key), encode_items_data(key, extra))
             more == Append(items, it)
             grown == encode_payload(key, extra)
             x == Len(items) + 1
             Q == ItemKeys(more, grown)
  <2>2. /\ SoundItems(more, grown) /\ LiveItems(more) = P \cup {x} /\ GoneItems(more) = R
        /\ (\A y \in P : Q[y] = K[y]) /\ Q[x] = c
    BY <1>1, <1>8, AppendSound
  <2>3. miss /\ idx = Len(items)
    BY <2>1
  <2>4. Len(items) \in Nat /\ \A y \in P \cup R : y \in 1 .. Len(items)
    BY <1>1, ItemRange
  <2>5. x \in Nat \ {0} /\ x \notin P \cup R /\ x - 1 = Len(items)
    <3> HIDE DEF P, R
    <3> QED
      BY <2>4
  <2>6. items' = more /\ extra' = grown /\ buckets' = Filled(room, at, key, x - 1)
    BY <1>4, <2>3, <2>5
  <2> HIDE DEF x, more, grown, Q, P, R, K, room, at, miss, c
  <2>7. SoundBuckets(P, R, Q, room)
    BY <1>3, <2>2, SameKeysSound
  <2>8. hash_key(key) = hash_key(Q[x]) /\ hash_key(key).high \in Nat
    BY <1>5, <2>2, PoolKeyFacts
  <2>9. SoundBuckets(P \cup {x}, R, Q, Filled(room, at, key, x - 1))
    BY <1>3, <2>1, <2>5, <2>7, <2>8, FillSound
  <2>10. idx \in Nat /\ idx + 1 = x
    <3> HIDE DEF idx
    <3> QED
      BY <2>3, <2>4 DEF x
  <2>11. AnswersHold(answered', more, grown)
    <3>1. idx + 1 \in LiveItems(more) /\ ItemKeys(more, grown)[idx + 1] = c
      BY <2>2, <2>10 DEF Q
    <3>2. \A y \in P : y \in LiveItems(more) /\ ItemKeys(more, grown)[y] = K[y]
      BY <2>2 DEF Q
    <3> QED
      BY <1>6, <2>10, <3>1, <3>2
  <2> QED
    BY <2>2, <2>6, <2>9, <2>11 DEF Q
<1> QED
  BY <1>7, <1>8

\* The state after ip_init or ip_clear.
LEMMA ResetInv ==
    ASSUME NEW n \in Nat, n > 1
    PROVE  /\ SoundItems(ReservedItems, ReservedExtra)
           /\ SoundBuckets(LiveItems(ReservedItems), GoneItems(ReservedItems),
                           ItemKeys(ReservedItems, ReservedExtra), populate_reserved(n))
           /\ AnswersHold(ReservedAnswers, ReservedItems, ReservedExtra)
           /\ [kind \in VarKinds |-> 0] \in [VarKinds -> Nat]
<1>1. [kind \in VarKinds |-> 0] \in [VarKinds -> Nat]
  OBVIOUS
<1> QED
  BY <1>1, ReservedSound, PopulateSound, ReservedAnswersHold

\* A removal keeps the invariant.
LEMMA RemoveItemKeepsInv ==
    ASSUME InternInv, NEW idx \in IP_RESERVED_COUNT .. Len(items) - 1, ip_remove(idx)
    PROVE  InternInv'
<1> DEFINE P == LiveItems(items)
           R == GoneItems(items)
           K == ItemKeys(items, extra)
           x == idx + 1
           less == [items EXCEPT ![x].tag = Removed]
           Q == ItemKeys(less, extra)
<1>1. /\ SoundItems(items, extra) /\ SoundBuckets(P, R, K, buckets)
      /\ AnswersHold(answered, items, extra) /\ next_var \in [VarKinds -> Nat]
  BY DEF InternInv
<1>2. /\ items' = less /\ buckets' = buckets /\ extra' = extra /\ next_var' = next_var
      /\ answered' = [k \in {y \in DOMAIN answered : answered[y] # idx} |-> answered[k]]
  BY DEF ip_remove
<1>3. x \in IP_RESERVED_COUNT + 1 .. Len(items) /\ idx \in Nat
  <2>1. Len(items) \in Nat /\ ReservedBase \in Nat /\ IP_RESERVED_COUNT = ReservedBase + 5
    BY <1>1, ItemRange
  <2> QED
    BY <2>1
<1>7. /\ less \in Seq(ItemSpace) /\ Len(less) = Len(items) /\ less[x].tag = Removed
      /\ \A y \in 1 .. Len(items) : y # x => less[y] = items[y]
  <2> DEFINE it == [items[x] EXCEPT !.tag = Removed]
  <2>1. items \in Seq(ItemSpace) /\ x \in 1 .. Len(items) /\ items[x] \in ItemSpace
    <3>1. /\ Len(items) \in Nat /\ ReservedBase \in Nat /\ IP_RESERVED_COUNT = ReservedBase + 5
          /\ \A y \in 1 .. Len(items) : items[y] \in ItemSpace
      BY <1>1, ItemRange
    <3>2. x \in 1 .. Len(items)
      BY <1>3, <3>1
    <3> QED
      BY <1>1, <3>1, <3>2 DEF SoundItems
  <2>2. it \in ItemSpace /\ it.tag = Removed
    <3>1. Removed \in [kind : Kinds, const : BOOLEAN]
      BY DEF Removed, Tag, Kinds
    <3> QED
      BY <2>1, <3>1 DEF ItemSpace
  <2>3. less = [items EXCEPT ![x] = it]
    OBVIOUS
  <2> HIDE DEF it, less, x
  <2> QED
    BY <2>1, <2>2, <2>3
<1> HIDE DEF x, less
<1>4. /\ SoundItems(less, extra) /\ LiveItems(less) = P \ {x}
      /\ P \cup R \subseteq LiveItems(less) \cup GoneItems(less)
      /\ \A y \in LiveItems(less) : Q[y] = K[y]
  BY <1>1, <1>3, <1>7, RemoveSound
<1> HIDE DEF Q
<1>5. SoundBuckets(LiveItems(less), GoneItems(less), Q, buckets)
  <2>1. LiveItems(less) \in SUBSET P
    BY <1>4
  <2> HIDE DEF P, R, K
  <2>2. SoundBuckets(LiveItems(less), GoneItems(less), K, buckets)
    BY <1>1, <1>4, <2>1, RemovedSound
  <2> QED
    BY <1>4, <2>2, SameKeysSound
<1>6. AnswersHold(answered', less, extra)
  <2> SUFFICES ASSUME NEW k \in DOMAIN answered'
               PROVE  /\ answered'[k] \in Nat /\ answered'[k] + 1 \in LiveItems(less)
                      /\ k \in PoolKeys /\ ItemKeys(less, extra)[answered'[k] + 1] = k
    BY DEF AnswersHold
  <2>1. k \in DOMAIN answered /\ answered'[k] = answered[k] /\ answered[k] # idx
    BY <1>2
  <2>2. /\ answered[k] \in Nat /\ answered[k] + 1 \in P /\ k \in PoolKeys
        /\ K[answered[k] + 1] = k
    BY <1>1, <2>1 DEF AnswersHold
  <2>3. answered[k] + 1 # x
    BY <1>3, <2>1, <2>2 DEF x
  <2> HIDE DEF P, R, K
  <2> QED
    BY <1>4, <2>1, <2>2, <2>3 DEF Q
<1> QED
  BY <1>1, <1>2, <1>4, <1>5, <1>6 DEF InternInv, Q

\* The pool starts in the invariant and each of its operations keeps it.
THEOREM InternInductive ==
    /\ ip_init => InternInv
    /\ InternInv /\ [InternNext]_internVars => InternInv'
<1>1. ip_init => InternInv
  <2>1. INITIAL_BUCKETS \in Nat /\ INITIAL_BUCKETS > 1
    BY InternAssumption
  <2> QED
    BY <2>1, ResetInv DEF ip_init, InternInv
<1>2. ASSUME InternInv, [InternNext]_internVars
      PROVE  InternInv'
  <2>1. ASSUME NEW k \in Keys, ip_get(k)
        PROVE  InternInv'
    <3>1. k \in Asked
      BY DEF Asked
    <3>2. ip_get_compound(k) /\ next_var' = next_var
      BY <2>1 DEF ip_get
    <3> QED
      BY <1>2, <3>1, <3>2, GetKeepsInv DEF InternInv
  <2>2. ASSUME NEW kind \in VarKinds, ip_fresh_var(kind)
        PROVE  InternInv'
    <3> DEFINE n == next_var[kind] + 1
    <3>1. next_var[kind] \in Nat /\ MaxFreshVars \in Nat
      BY <1>2, InternAssumption DEF InternInv
    <3>2. n \in 1 .. MaxFreshVars
      BY <2>2, <3>1 DEF ip_fresh_var
    <3>3. Key(kind, <<n>>) \in Asked
      BY <3>2 DEF Asked, FreshVars
    <3>4. ip_get_compound(Key(kind, <<n>>)) /\ next_var' = [next_var EXCEPT ![kind] = n]
      BY <2>2 DEF ip_fresh_var
    <3>5. next_var' \in [VarKinds -> Nat]
      BY <1>2, <3>1, <3>4 DEF InternInv
    <3> QED
      BY <1>2, <3>3, <3>4, <3>5, GetKeepsInv DEF InternInv
  <2>3. ASSUME NEW idx \in IP_RESERVED_COUNT .. Len(items) - 1, ip_remove(idx)
        PROVE  InternInv'
    BY <1>2, <2>3, RemoveItemKeepsInv
  <2>4. ASSUME ip_clear
        PROVE  InternInv'
    <3>1. buckets.count \in Nat /\ buckets.count > 1
      BY <1>2 DEF InternInv, SoundBuckets
    <3> QED
      BY <2>4, <3>1, ResetInv DEF ip_clear, InternInv
  <2>5. CASE UNCHANGED internVars
    BY <1>2, <2>5 DEF internVars, InternInv
  <2> QED
    BY <1>2, <2>1, <2>2, <2>3, <2>4, <2>5 DEF InternNext
<1> QED
  BY <1>1, <1>2

\* The invariant holds in every state of the pool.
THEOREM InternInvariance == InternSpec => []InternInv
<1>1. ip_init => InternInv
  BY InternInductive
<1>2. InternInv /\ [InternNext]_internVars => InternInv'
  BY InternInductive
<1> QED
  BY <1>1, <1>2, PTL DEF InternSpec

\* For every set of keys, every hash and every table size, and whatever is
\* interned, removed and cleared in between: two live indices are of different
\* keys, an index keeps its key, and asking again finds it (ip_get, ip_key,
\* ip_remove, ip_clear, buckets_grow).
THEOREM InternCorrect == InternSpec => []IndexIsIdentity
<1>1. InternInv => IndexIsIdentity
  BY InternInvAnswers
<1> QED
  BY <1>1, InternInvariance, PTL
=============================================================================
