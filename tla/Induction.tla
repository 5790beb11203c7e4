----------------------------- MODULE Induction -----------------------------
(***************************************************************************)
(* Induction over the natural numbers in the form the other proof modules  *)
(* use it, with sets in the place of predicates: a property P holds of     *)
(* every number when {n \in Nat : P(n)} is inductive.  From it, that a     *)
(* function defined by recursion on the position, or by any recursion that *)
(* descends, exists, so that its equations may be used.                    *)
(***************************************************************************)
EXTENDS Integers, Sequences, WellFoundedInduction, TLAPS

\* Every non-empty set of naturals has a least element.
LEMMA LeastOf ==
    ASSUME NEW T, T \subseteq Nat, T # {}
    PROVE  \E x \in T : \A y \in T : x <= y
<1> DEFINE R == {ss \in Nat \X Nat : ss[1] < ss[2]}
<1>1. IsWellFoundedOn(R, Nat)
  BY NatLessThanWellFounded DEF OpToRel
<1> HIDE DEF R
<1>2. PICK x \in T : \A y \in T : ~ (<<y, x>> \in R)
  BY <1>1, WFMin
<1>3. ASSUME NEW y \in T
      PROVE  x <= y
  <2>1. x \in Nat /\ y \in Nat
    OBVIOUS
  <2>2. <<y, x>> \notin R
    BY <1>2
  <2> QED
    BY <2>1, <2>2 DEF R
<1> QED
  BY <1>3

\* A set that holds 0 and the successor of each of its members holds them all.
LEMMA SetInduction ==
    ASSUME NEW T, 0 \in T, \A n \in Nat : n \in T => n + 1 \in T
    PROVE  Nat \subseteq T
<1> SUFFICES ASSUME NEW m \in Nat, m \notin T
             PROVE  FALSE
  OBVIOUS
<1> DEFINE U == Nat \ T
<1>1. PICK x \in U : \A y \in U : x <= y
  <2>1. U \subseteq Nat /\ U # {}
    OBVIOUS
  <2> HIDE DEF U
  <2> QED
    BY <2>1, LeastOf
<1>2. x \in Nat /\ x # 0
  OBVIOUS
<1>3. x - 1 \in Nat /\ x - 1 \notin U
  BY <1>1, <1>2
<1>4. x - 1 + 1 = x
  BY <1>2
<1> QED
  BY <1>3, <1>4

\* Induction on 0 .. N.
LEMMA IntervalInduction ==
    ASSUME NEW N \in Nat, NEW T, 0 \in T,
           \A n \in 0 .. N - 1 : n \in T => n + 1 \in T
    PROVE  0 .. N \subseteq T
<1> DEFINE U == {n \in Nat : n <= N => n \in T}
<1>1. 0 \in U
  OBVIOUS
<1>2. \A n \in Nat : n \in U => n + 1 \in U
  OBVIOUS
<1> HIDE DEF U
<1>3. Nat \subseteq U
  BY <1>1, <1>2, SetInduction
<1> QED
  BY <1>3 DEF U

(***************************************************************************)
(* Recursion on the position: for a start in S and a step G on S there is  *)
(* a function on 0 .. N that starts there and takes a step at each         *)
(* position.                                                               *)
(***************************************************************************)
Runs(f, N, base, G) ==
    /\ f[0] = base
    /\ \A n \in 1 .. N : f[n] = G[<<f[n - 1], n>>]

\* Such a function exists.
LEMMA RecursionExists ==
    ASSUME NEW N \in Nat, NEW S, NEW base \in S, NEW G \in [S \X (1 .. N) -> S]
    PROVE  \E f \in [0 .. N -> S] : Runs(f, N, base, G)
<1> DEFINE T == {n \in 0 .. N : \E f \in [0 .. n -> S] :
                    /\ f[0] = base
                    /\ \A k \in 1 .. n : f[k] = G[<<f[k - 1], k>>]}
<1>1. 0 \in T
  <2> DEFINE f0 == [k \in 0 .. 0 |-> base]
  <2>1. f0 \in [0 .. 0 -> S] /\ f0[0] = base
    OBVIOUS
  <2>2. \A k \in 1 .. 0 : f0[k] = G[<<f0[k - 1], k>>]
    OBVIOUS
  <2> HIDE DEF f0
  <2> QED
    BY <2>1, <2>2
<1>2. ASSUME NEW n \in 0 .. N - 1, n \in T
      PROVE  n + 1 \in T
  <2>1. PICK f \in [0 .. n -> S] :
          /\ f[0] = base
          /\ \A k \in 1 .. n : f[k] = G[<<f[k - 1], k>>]
    BY <1>2
  <2> DEFINE last == G[<<f[n], n + 1>>]
             g == [k \in 0 .. n + 1 |-> IF k = n + 1 THEN last ELSE f[k]]
  <2>2. last \in S
    BY <2>1
  <2> HIDE DEF last
  <2>3. g \in [0 .. n + 1 -> S]
    BY <2>1, <2>2
  <2>4. g[0] = base /\ g[n + 1] = last /\ \A k \in 0 .. n : g[k] = f[k]
    BY <2>1
  <2> HIDE DEF g
  <2>5. \A k \in 1 .. n + 1 : g[k] = G[<<g[k - 1], k>>]
    <3> TAKE k \in 1 .. n + 1
    <3>1. CASE k = n + 1
      BY <2>4, <3>1 DEF last
    <3>2. CASE k # n + 1
      <4>1. k \in 1 .. n /\ k \in 0 .. n /\ k - 1 \in 0 .. n
        BY <3>2
      <4> QED
        BY <2>1, <2>4, <4>1
    <3> QED
      BY <3>1, <3>2
  <2> QED
    BY <2>3, <2>4, <2>5
<1> HIDE DEF T
<1>3. 0 .. N \subseteq T
  BY <1>1, <1>2, IntervalInduction
<1>4. N \in T
  BY <1>3
<1> QED
  BY <1>4 DEF T, Runs

(***************************************************************************)
(* Recursion over any set: F makes a function on D of a function on D, and *)
(* what it makes of f at x depends on f at arguments of lower rank alone.  *)
(***************************************************************************)
Descends(N, D, T, rank, F) ==
    /\ N \in Nat /\ T # {}
    /\ rank \in [D -> 0 .. N] /\ F \in [[D -> T] -> [D -> T]]
    /\ \A f, g \in [D -> T] : \A x \in D :
         (\A y \in D : rank[y] < rank[x] => f[y] = g[y]) => F[f][x] = F[g][x]

\* Then the recursive definition f = F[f] has a solution.
LEMMA SolutionExists ==
    ASSUME NEW N, NEW D, NEW T, NEW rank, NEW F, Descends(N, D, T, rank, F)
    PROVE  \E f \in [D -> T] : f = F[f]
<1> USE DEF Descends
<1> DEFINE S == [D -> T]
           G == [s \in S \X (1 .. N + 2) |-> F[s[1]]]
<1>1. PICK base \in S : TRUE
  <2>1. PICK t \in T : TRUE
    OBVIOUS
  <2>2. [x \in D |-> t] \in S
    OBVIOUS
  <2> QED
    BY <2>2
<1>2. G \in [S \X (1 .. N + 2) -> S]
  OBVIOUS
<1>3. PICK h \in [0 .. N + 2 -> S] : Runs(h, N + 2, base, G)
  <2>1. N + 2 \in Nat
    OBVIOUS
  <2> HIDE DEF G, S
  <2> QED
    BY <1>1, <1>2, <2>1, RecursionExists
<1>4. ASSUME NEW n \in 1 .. N + 2
      PROVE  h[n] = F[h[n - 1]]
  <2>1. n - 1 \in 0 .. N + 2 /\ h[n - 1] \in S
    BY <1>3
  <2>2. G[<<h[n - 1], n>>] = F[h[n - 1]]
    BY <2>1
  <2> QED
    BY <1>3, <2>2 DEF Runs
<1> DEFINE U == {n \in 0 .. N + 1 : \A x \in D : rank[x] < n => h[n][x] = h[n + 1][x]}
<1> HIDE DEF S, G
<1>5. 0 \in U
  <2>1. \A x \in D : rank[x] \in Nat
    OBVIOUS
  <2> QED
    BY <2>1
<1>6. ASSUME NEW n \in 0 .. N + 1 - 1, n \in U
      PROVE  n + 1 \in U
  <2>1. /\ n + 1 \in 1 .. N + 2 /\ n + 2 \in 1 .. N + 2
        /\ n + 1 - 1 = n /\ n + 2 - 1 = n + 1 /\ n + 1 + 1 = n + 2
        /\ n \in 0 .. N + 2 /\ n + 1 \in 0 .. N + 2 /\ n + 1 \in 0 .. N + 1
    OBVIOUS
  <2>2. h[n + 1] = F[h[n]] /\ h[n + 2] = F[h[n + 1]]
    BY <1>4, <2>1
  <2>3. h[n] \in [D -> T] /\ h[n + 1] \in [D -> T]
    BY <1>3, <2>1 DEF S
  <2>4. ASSUME NEW x \in D, rank[x] < n + 1
        PROVE  h[n + 1][x] = h[n + 2][x]
    <3>1. \A y \in D : rank[y] < rank[x] => h[n][y] = h[n + 1][y]
      <4>1. \A y \in D : rank[y] \in Nat /\ rank[x] \in Nat
        OBVIOUS
      <4>2. \A y \in D : rank[y] < rank[x] => rank[y] < n
        BY <4>1, <2>4
      <4> QED
        BY <4>2, <1>6 DEF U
    <3>2. F[h[n]][x] = F[h[n + 1]][x]
      BY <2>3, <3>1
    <3> QED
      BY <2>2, <3>2
  <2> QED
    BY <2>1, <2>4 DEF U
<1>7. N + 1 \in U
  <2>1. N + 1 \in Nat /\ N + 1 \in 0 .. N + 1
    OBVIOUS
  <2>3. \A n \in 0 .. N + 1 - 1 : n \in U => n + 1 \in U
    BY <1>6
  <2> DEFINE M == N + 1
  <2>4. M \in Nat /\ \A n \in 0 .. M - 1 : n \in U => n + 1 \in U
    BY <2>1, <2>3
  <2> HIDE DEF U, M
  <2>5. 0 .. M \subseteq U
    BY <1>5, <2>4, IntervalInduction
  <2>2. 0 .. N + 1 \subseteq U
    BY <2>5 DEF M
  <2> QED
    BY <2>1, <2>2
<1> DEFINE a == h[N + 1]
           b == h[N + 2]
<1>8. a \in [D -> T] /\ b \in [D -> T] /\ b = F[a]
  <2>1. N + 1 \in 0 .. N + 2 /\ N + 2 \in 0 .. N + 2 /\ N + 2 \in 1 .. N + 2 /\ N + 2 - 1 = N + 1
    OBVIOUS
  <2> QED
    BY <1>3, <1>4, <2>1 DEF S
<1>9. \A x \in D : a[x] = b[x]
  <2>1. \A x \in D : rank[x] < N + 1
    OBVIOUS
  <2>2. N + 1 + 1 = N + 2
    OBVIOUS
  <2> QED
    BY <1>7, <2>1, <2>2 DEF U
<1> HIDE DEF a, b
<1>10. a = b
  BY <1>8, <1>9
<1> QED
  BY <1>8, <1>10
=============================================================================
