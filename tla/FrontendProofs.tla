--------------------------- MODULE FrontendProofs ---------------------------
(***************************************************************************)
(* Theorems about the lexer, for every text: what it leaves behind is the  *)
(* text.  And about the layout pass, for every number of columns and every *)
(* depth of nesting: what layout_stream puts out nests as its frames do.   *)
(***************************************************************************)
EXTENDS Lexer, Layout, Induction, SequenceTheorems

-----------------------------------------------------------------------------
(* What a parser makes of a run of tokens.                                   *)

Kinds  == TokenKinds \cup {"VIRTUAL_LBRACE", "VIRTUAL_RBRACE", "VIRTUAL_SEMI"}
Braces == {"LBRACE", "VIRTUAL_LBRACE"}

\* The stacks NestedAll goes through.
Stacks(after, stack, kinds) ==
    /\ after \in [0 .. Len(kinds) -> Seq(Braces)]
    /\ after[0] = stack
    /\ \A i \in 1 .. Len(kinds) : after[i] = Nested(after[i - 1], kinds[i])

\* A sequence without its last element.
LEMMA FrontProperties ==
    ASSUME NEW S, NEW s \in Seq(S), s # <<>>
    PROVE  /\ Front(s) \in Seq(S)
           /\ Len(Front(s)) = Len(s) - 1
           /\ \A i \in 1 .. Len(s) - 1 : Front(s)[i] = s[i]
           /\ Last(s) \in S
           /\ Len(s) \in Nat \ {0}
<1>1. Len(s) \in Nat \ {0} /\ Len(s) - 1 \in Int
  BY EmptySeq
<1>2. \A i \in 1 .. Len(s) : s[i] \in S
  BY ElementOfSeq
<1>3. \A i \in 1 .. Len(s) - 1 : s[i] \in S
  BY <1>1, <1>2
<1>4. /\ SubSeq(s, 1, Len(s) - 1) \in Seq(S)
      /\ Len(SubSeq(s, 1, Len(s) - 1)) =
           IF 1 <= Len(s) - 1 THEN Len(s) - 1 - 1 + 1 ELSE 0
      /\ \A i \in 1 .. Len(s) - 1 - 1 + 1 :
           SubSeq(s, 1, Len(s) - 1)[i] = s[1 + i - 1]
  BY <1>1, <1>3, SubSeqProperties
<1>5. Front(s) \in Seq(S) /\ Len(Front(s)) = Len(s) - 1
  <2> DEFINE n == Len(s)
  <2> HIDE DEF n
  <2>1. n \in Nat \ {0} => (IF 1 <= n - 1 THEN n - 1 - 1 + 1 ELSE 0) = n - 1
    OBVIOUS
  <2> QED
    BY <1>1, <1>4, <2>1 DEF Front, n
<1>6. \A i \in 1 .. Len(s) - 1 : i \in 1 .. Len(s) - 1 - 1 + 1 /\ 1 + i - 1 = i
  BY <1>1
<1>7. \A i \in 1 .. Len(s) - 1 : Front(s)[i] = s[i]
  BY <1>4, <1>6 DEF Front
<1>8. Last(s) \in S
  BY <1>1, <1>2 DEF Last
<1> QED
  BY <1>1, <1>5, <1>7, <1>8

\* One token leaves a stack of opening braces.
LEMMA NestedType ==
    ASSUME NEW s \in Seq(Braces), NEW k \in Kinds
    PROVE  Nested(s, k) \in Seq(Braces)
<1>1. CASE k \in Braces
  <2>1. Append(s, k) \in Seq(Braces)
    BY <1>1
  <2> QED
    BY <1>1, <2>1 DEF Nested, Braces
<1>2. CASE k \in {"RBRACE", "VIRTUAL_RBRACE"} /\ s # <<>>
  <2>1. Front(s) \in Seq(Braces)
    BY <1>2, FrontProperties
  <2> QED
    BY <1>2, <2>1 DEF Nested
<1>3. CASE k \notin Braces /\ ~(k \in {"RBRACE", "VIRTUAL_RBRACE"} /\ s # <<>>)
  BY <1>3 DEF Nested, Braces
<1> QED
  BY <1>1, <1>2, <1>3

\* NestedAll is the last of them.
LEMMA NestedAllRuns ==
    ASSUME NEW s \in Seq(Braces), NEW ks \in Seq(Kinds)
    PROVE  \E after : Stacks(after, s, ks) /\ NestedAll(s, ks) = after[Len(ks)]
<1> DEFINE N == Len(ks)
           S == Seq(Braces)
           G == [p \in S \X (1 .. N) |-> Nested(p[1], ks[p[2]])]
           Eq(f) == f = [i \in 0 .. N |->
                           IF i = 0 THEN s ELSE Nested(f[i - 1], ks[i])]
<1>1. N \in Nat /\ \A i \in 1 .. N : ks[i] \in Kinds
  BY ElementOfSeq
<1>2. G \in [S \X (1 .. N) -> S]
  <2>1. ASSUME NEW p \in S \X (1 .. N)
        PROVE  Nested(p[1], ks[p[2]]) \in S
    <3>1. p[1] \in S /\ p[2] \in 1 .. N
      OBVIOUS
    <3>2. ks[p[2]] \in Kinds
      BY <1>1, <3>1
    <3> QED
      BY <3>1, <3>2, NestedType
  <2> QED
    BY <2>1
<1> HIDE DEF N, S
<1>3. PICK g \in [0 .. N -> S] : Runs(g, N, s, G)
  <2>1. s \in S
    BY DEF S
  <2> HIDE DEF G
  <2> QED
    BY <1>1, <1>2, <2>1, RecursionExists
<1>4. /\ g[0] = s
      /\ \A i \in 1 .. N : g[i] = Nested(g[i - 1], ks[i])
  <2>1. ASSUME NEW i \in 1 .. N
        PROVE  g[i] = Nested(g[i - 1], ks[i])
    <3>1. g[i - 1] \in S
      BY <1>1, <1>3
    <3>2. G[<<g[i - 1], i>>] = Nested(g[i - 1], ks[i])
      BY <3>1
    <3> QED
      BY <1>3, <3>2 DEF Runs
  <2> QED
    BY <1>3, <2>1 DEF Runs
<1>5. Eq(g)
  <2> DEFINE h == [i \in 0 .. N |-> IF i = 0 THEN s ELSE Nested(g[i - 1], ks[i])]
  <2>1. \A i \in 0 .. N : h[i] = g[i]
    <3> TAKE i \in 0 .. N
    <3>1. CASE i = 0
      BY <1>4, <3>1
    <3>2. CASE i # 0
      <4>1. i \in 1 .. N
        BY <1>1, <3>2
      <4> QED
        BY <1>4, <3>2, <4>1
    <3> QED
      BY <3>1, <3>2
  <2>2. DOMAIN h = 0 .. N /\ h = [i \in DOMAIN h |-> h[i]]
    OBVIOUS
  <2>3. DOMAIN g = 0 .. N /\ g = [i \in DOMAIN g |-> g[i]]
    BY <1>3
  <2> HIDE DEF h
  <2>4. h = g
    BY <2>1, <2>2, <2>3
  <2> QED
    BY <2>4 DEF h
<1> DEFINE after == CHOOSE f : Eq(f)
<1>6. Eq(after)
  BY <1>5
<1>7. NestedAll(s, ks) = after[Len(ks)]
  BY DEF NestedAll, N
<1> HIDE DEF after
<1>8. /\ after[0] = s
      /\ \A i \in 1 .. N : after[i] = Nested(after[i - 1], ks[i])
      /\ DOMAIN after = 0 .. N
  <2>1. \A i \in 0 .. N : after[i] = IF i = 0 THEN s ELSE Nested(after[i - 1], ks[i])
    BY <1>6
  <2>2. 0 \in 0 .. N /\ \A i \in 1 .. N : i \in 0 .. N /\ i # 0
    BY <1>1
  <2>3. DOMAIN after = 0 .. N
    BY <1>6
  <2> QED
    BY <2>1, <2>2, <2>3
<1>9. after \in [0 .. N -> S]
  <2> DEFINE T == {i \in 0 .. N : after[i] \in S}
  <2>1. 0 \in T
    BY <1>1, <1>8 DEF S
  <2>2. ASSUME NEW n \in 0 .. N - 1, n \in T
        PROVE  n + 1 \in T
    <3>1. n + 1 \in 1 .. N /\ n + 1 - 1 = n /\ n + 1 \in 0 .. N
      BY <1>1
    <3>2. after[n + 1] = Nested(after[n], ks[n + 1]) /\ ks[n + 1] \in Kinds
      BY <1>1, <1>8, <3>1
    <3>3. after[n] \in Seq(Braces)
      BY <2>2 DEF S
    <3> QED
      BY <3>1, <3>2, <3>3, NestedType DEF S
  <2> HIDE DEF T
  <2>3. 0 .. N \subseteq T
    BY <1>1, <2>1, <2>2, IntervalInduction
  <2>4. \A i \in 0 .. N : after[i] \in S
    BY <2>3 DEF T
  <2>5. after = [i \in 0 .. N |-> after[i]]
    BY <1>6, <1>8
  <2> QED
    BY <2>4, <2>5
<1> QED
  BY <1>7, <1>8, <1>9 DEF Stacks, N, S

\* No tokens leave the stack as it is.
LEMMA NestedNone ==
    ASSUME NEW s \in Seq(Braces)
    PROVE  NestedAll(s, <<>>) = s
<1>1. <<>> \in Seq(Kinds) /\ Len(<<>>) = 0
  OBVIOUS
<1>2. PICK a : Stacks(a, s, <<>>) /\ NestedAll(s, <<>>) = a[Len(<<>>)]
  BY <1>1, NestedAllRuns
<1> QED
  BY <1>1, <1>2 DEF Stacks

\* A single token is what Nested makes of it.
LEMMA NestedOne ==
    ASSUME NEW s \in Seq(Braces), NEW k \in Kinds
    PROVE  NestedAll(s, <<k>>) = Nested(s, k)
<1>1. <<k>> \in Seq(Kinds) /\ Len(<<k>>) = 1 /\ <<k>>[1] = k
  OBVIOUS
<1>2. PICK a : Stacks(a, s, <<k>>) /\ NestedAll(s, <<k>>) = a[Len(<<k>>)]
  BY <1>1, NestedAllRuns
<1>3. a[0] = s /\ a[1] = Nested(a[1 - 1], <<k>>[1])
  BY <1>1, <1>2 DEF Stacks
<1> QED
  BY <1>1, <1>2, <1>3

\* Two runs of tokens are read one after the other.
LEMMA NestedConcat ==
    ASSUME NEW s \in Seq(Braces), NEW ks \in Seq(Kinds), NEW ls \in Seq(Kinds)
    PROVE  /\ NestedAll(s, ks) \in Seq(Braces)
           /\ NestedAll(s, ks \o ls) = NestedAll(NestedAll(s, ks), ls)
<1> DEFINE M == Len(ks)
           N == Len(ls)
<1>1. /\ M \in Nat /\ N \in Nat
      /\ ks \o ls \in Seq(Kinds) /\ Len(ks \o ls) = M + N
      /\ \A i \in 1 .. M : (ks \o ls)[i] = ks[i]
      /\ \A i \in 1 .. N : (ks \o ls)[M + i] = ls[i]
  OBVIOUS
<1>2. PICK a : Stacks(a, s, ks) /\ NestedAll(s, ks) = a[M]
  BY NestedAllRuns
<1>3. a[M] \in Seq(Braces)
  BY <1>1, <1>2 DEF Stacks
<1>4. PICK b : Stacks(b, a[M], ls) /\ NestedAll(a[M], ls) = b[N]
  BY <1>3, NestedAllRuns
<1>5. PICK c : Stacks(c, s, ks \o ls) /\ NestedAll(s, ks \o ls) = c[M + N]
  BY <1>1, NestedAllRuns
<1>6. \A i \in 0 .. M : c[i] = a[i]
  <2> DEFINE T == {i \in 0 .. M : c[i] = a[i]}
  <2>1. 0 \in T
    BY <1>1, <1>2, <1>5 DEF Stacks
  <2>2. ASSUME NEW n \in 0 .. M - 1, n \in T
        PROVE  n + 1 \in T
    <3>1. /\ n + 1 \in 1 .. M /\ n + 1 \in 1 .. M + N /\ n + 1 - 1 = n
          /\ n + 1 \in 0 .. M
      BY <1>1
    <3>2. a[n + 1] = Nested(a[n], ks[n + 1])
      BY <1>2, <3>1 DEF Stacks
    <3>3. c[n + 1] = Nested(c[n], (ks \o ls)[n + 1])
      BY <1>1, <1>5, <3>1 DEF Stacks
    <3> QED
      BY <1>1, <2>2, <3>1, <3>2, <3>3
  <2> HIDE DEF T
  <2>3. 0 .. M \subseteq T
    BY <1>1, <2>1, <2>2, IntervalInduction
  <2> QED
    BY <2>3 DEF T
<1>7. \A i \in 0 .. N : c[M + i] = b[i]
  <2> DEFINE T == {i \in 0 .. N : c[M + i] = b[i]}
  <2>1. 0 \in T
    BY <1>1, <1>4, <1>6 DEF Stacks
  <2>2. ASSUME NEW n \in 0 .. N - 1, n \in T
        PROVE  n + 1 \in T
    <3>1. /\ n + 1 \in 1 .. N /\ M + (n + 1) \in 1 .. M + N /\ n + 1 - 1 = n
          /\ M + (n + 1) - 1 = M + n /\ n + 1 \in 0 .. N
      BY <1>1
    <3>2. b[n + 1] = Nested(b[n], ls[n + 1])
      BY <1>4, <3>1 DEF Stacks
    <3>3. c[M + (n + 1)] = Nested(c[M + n], (ks \o ls)[M + (n + 1)])
      <4> HIDE DEF M, N
      <4>1. \A i \in 1 .. M + N : c[i] = Nested(c[i - 1], (ks \o ls)[i])
        BY <1>1, <1>5 DEF Stacks
      <4> DEFINE j == M + (n + 1)
      <4>2. j \in 1 .. M + N /\ j - 1 = M + n
        BY <1>1, <3>1
      <4> HIDE DEF j
      <4>3. c[j] = Nested(c[j - 1], (ks \o ls)[j])
        BY <4>1, <4>2
      <4>4. c[j] = Nested(c[M + n], (ks \o ls)[j])
        BY <4>2, <4>3
      <4> QED
        BY <4>4 DEF j
    <3> QED
      BY <1>1, <2>2, <3>1, <3>2, <3>3
  <2> HIDE DEF T
  <2>3. 0 .. N \subseteq T
    BY <1>1, <2>1, <2>2, IntervalInduction
  <2> QED
    BY <2>3 DEF T
<1>8. c[M + N] = b[N]
  BY <1>1, <1>7
<1> QED
  BY <1>2, <1>3, <1>4, <1>5, <1>8

\* What one token does, by its kind.
LEMMA NestedBy ==
    ASSUME NEW s \in Seq(Braces), NEW k \in Kinds
    PROVE  /\ k \in Braces => Nested(s, k) = Append(s, k)
           /\ k \in {"RBRACE", "VIRTUAL_RBRACE"} => Nested(s, k) = IF s = <<>> THEN s ELSE Front(s)
           /\ k \notin Braces /\ k \notin {"RBRACE", "VIRTUAL_RBRACE"} => Nested(s, k) = s
BY DEF Nested, Braces

\* A prefix of a sequence.
LEMMA PrefixProperties ==
    ASSUME NEW S, NEW s \in Seq(S), NEW n \in 0 .. Len(s)
    PROVE  /\ SubSeq(s, 1, n) \in Seq(S)
           /\ Len(SubSeq(s, 1, n)) = n
           /\ \A i \in 1 .. n : SubSeq(s, 1, n)[i] = s[i]
<1>1. Len(s) \in Nat /\ n \in Nat /\ n <= Len(s)
  OBVIOUS
<1>2. \A i \in 1 .. Len(s) : s[i] \in S
  BY ElementOfSeq
<1>3. \A i \in 1 .. n : s[i] \in S
  BY <1>1, <1>2
<1>4. /\ SubSeq(s, 1, n) \in Seq(S)
      /\ Len(SubSeq(s, 1, n)) = IF 1 <= n THEN n - 1 + 1 ELSE 0
      /\ \A i \in 1 .. n - 1 + 1 : SubSeq(s, 1, n)[i] = s[1 + i - 1]
  BY <1>1, <1>3, SubSeqProperties
<1>5. Len(SubSeq(s, 1, n)) = n
  BY <1>1, <1>4
<1>6. \A i \in 1 .. n : i \in 1 .. n - 1 + 1 /\ 1 + i - 1 = i
  BY <1>1
<1> QED
  BY <1>4, <1>5, <1>6

\* One closing brace takes the innermost brace away.
LEMMA NestedClose ==
    ASSUME NEW s \in Seq(Braces), NEW n \in 1 .. Len(s), NEW k \in {"RBRACE", "VIRTUAL_RBRACE"}
    PROVE  Nested(SubSeq(s, 1, n), k) = SubSeq(s, 1, n - 1)
<1> DEFINE t == SubSeq(s, 1, n)
           u == SubSeq(s, 1, n - 1)
<1>0. Len(s) \in Nat
  BY LenProperties
<1>1. n \in 0 .. Len(s) /\ n - 1 \in 0 .. Len(s) /\ n \in Nat /\ n # 0
  BY <1>0
<1>2. t \in Seq(Braces) /\ Len(t) = n /\ \A i \in 1 .. n : t[i] = s[i]
  BY <1>1, PrefixProperties
<1>3. u \in Seq(Braces) /\ Len(u) = n - 1 /\ \A i \in 1 .. n - 1 : u[i] = s[i]
  BY <1>1, PrefixProperties
<1> HIDE DEF t, u
<1>4. t # <<>>
  BY <1>1, <1>2
<1>5. k \in Kinds
  BY DEF Kinds, TokenKinds
<1>6. Nested(t, k) = Front(t)
  BY <1>2, <1>4, <1>5, NestedBy
<1>7. /\ Front(t) \in Seq(Braces) /\ Len(Front(t)) = n - 1
      /\ \A i \in 1 .. n - 1 : Front(t)[i] = t[i]
  BY <1>2, <1>4, FrontProperties
<1>8. \A i \in 1 .. n - 1 : i \in 1 .. n
  <2>1. n \in Nat
    BY <1>1
  <2> QED
    BY <2>1
<1>9. Front(t) = u
  BY <1>2, <1>3, <1>7, <1>8, SeqEqual
<1> QED
  BY <1>6, <1>9 DEF t, u

\* A run of closing braces takes as many braces away.
LEMMA NestedClosers ==
    ASSUME NEW s \in Seq(Braces), NEW m \in 0 .. Len(s)
    PROVE  NestedAll(s, [i \in 1 .. m |-> "VIRTUAL_RBRACE"]) = SubSeq(s, 1, Len(s) - m)
<1> DEFINE C(n) == [i \in 1 .. n |-> "VIRTUAL_RBRACE"]
           T == {n \in 0 .. m : NestedAll(s, C(n)) = SubSeq(s, 1, Len(s) - n)}
<1>1. Len(s) \in Nat /\ m \in Nat /\ m <= Len(s)
  OBVIOUS
<1>2. 0 \in T
  <2>1. C(0) = <<>>
    OBVIOUS
  <2>2. SubSeq(s, 1, Len(s) - 0) = s
    BY <1>1, SubSeqFull
  <2> HIDE DEF C
  <2> QED
    BY <1>1, <2>1, <2>2, NestedNone
<1>3. ASSUME NEW n \in 0 .. m - 1, n \in T
      PROVE  n + 1 \in T
  <2>1. n \in Nat /\ n + 1 \in 0 .. m /\ Len(s) - n \in 1 .. Len(s)
        /\ Len(s) - (n + 1) = Len(s) - n - 1
    BY <1>1
  <2>2. "VIRTUAL_RBRACE" \in Kinds
    BY DEF Kinds
  <2>3. C(n) \in Seq(Kinds) /\ C(n + 1) = C(n) \o <<"VIRTUAL_RBRACE">>
    <3>1. /\ C(n) \in Seq(Kinds) /\ Len(C(n)) = n
          /\ C(n + 1) \in Seq(Kinds) /\ Len(C(n + 1)) = n + 1
          /\ <<"VIRTUAL_RBRACE">> \in Seq(Kinds)
      BY <2>1, <2>2
    <3>2. /\ C(n) \o <<"VIRTUAL_RBRACE">> \in Seq(Kinds) /\ Len(C(n) \o <<"VIRTUAL_RBRACE">>) = n + 1
          /\ \A i \in 1 .. n : (C(n) \o <<"VIRTUAL_RBRACE">>)[i] = C(n)[i]
          /\ (C(n) \o <<"VIRTUAL_RBRACE">>)[n + 1] = "VIRTUAL_RBRACE"
      <4> HIDE DEF C
      <4> QED
        BY <2>1, <3>1
    <3>3. \A i \in 1 .. n + 1 : C(n + 1)[i] = "VIRTUAL_RBRACE" /\ (i \in 1 .. n => C(n)[i] = "VIRTUAL_RBRACE")
      BY <2>1
    <3>4. \A i \in 1 .. n + 1 : i \in 1 .. n \/ i = n + 1
      BY <2>1
    <3> HIDE DEF C
    <3>5. \A i \in 1 .. n + 1 : C(n + 1)[i] = (C(n) \o <<"VIRTUAL_RBRACE">>)[i]
      BY <3>2, <3>3, <3>4
    <3> QED
      BY <3>1, <3>2, <3>5, SeqEqual
  <2> HIDE DEF C
  <2>4. NestedAll(s, C(n + 1)) = NestedAll(NestedAll(s, C(n)), <<"VIRTUAL_RBRACE">>)
        /\ NestedAll(s, C(n)) \in Seq(Braces)
    <3>1. <<"VIRTUAL_RBRACE">> \in Seq(Kinds)
      BY <2>2
    <3>2. C(n) \in Seq(Kinds) /\ C(n + 1) = C(n) \o <<"VIRTUAL_RBRACE">>
      BY <2>3
    <3> DEFINE c == C(n)
               one == <<"VIRTUAL_RBRACE">>
    <3> HIDE DEF c, one
    <3>3. NestedAll(s, c \o one) = NestedAll(NestedAll(s, c), one)
          /\ NestedAll(s, c) \in Seq(Braces)
      BY <3>1, <3>2, NestedConcat DEF c, one
    <3> QED
      BY <3>2, <3>3 DEF c, one
  <2>5. NestedAll(s, C(n + 1)) = Nested(SubSeq(s, 1, Len(s) - n), "VIRTUAL_RBRACE")
    BY <1>3, <2>2, <2>4, NestedOne
  <2> QED
    BY <2>1, <2>5, NestedClose
<1> HIDE DEF T
<1>4. 0 .. m \subseteq T
  BY <1>1, <1>2, <1>3, IntervalInduction
<1>5. m \in T
  BY <1>1, <1>4
<1> QED
  BY <1>5 DEF T

\* At the end of the file each closing brace is followed by a semicolon.
EndClosers(n) == [i \in 1 .. 2 * n |-> IF i % 2 = 1 THEN "VIRTUAL_RBRACE" ELSE "VIRTUAL_SEMI"]

LEMMA NestedEnd ==
    ASSUME NEW s \in Seq(Braces)
    PROVE  /\ NestedAll(s, EndClosers(Len(s))) = <<>>
           /\ EndClosers(Len(s)) \in Seq(Kinds)
<1> DEFINE m == Len(s)
           T == {n \in 0 .. m : /\ EndClosers(n) \in Seq(Kinds)
                               /\ NestedAll(s, EndClosers(n)) = SubSeq(s, 1, m - n)}
<1>1. m \in Nat
  OBVIOUS
<1>2. 0 \in T
  <2>1. EndClosers(0) = <<>>
    BY DEF EndClosers
  <2>2. SubSeq(s, 1, m - 0) = s
    BY <1>1, SubSeqFull
  <2>3. NestedAll(s, <<>>) = s /\ <<>> \in Seq(Kinds) /\ 0 \in 0 .. m
    BY <1>1, NestedNone
  <2> HIDE DEF m
  <2> QED
    BY <2>1, <2>2, <2>3
<1>3. ASSUME NEW n \in 0 .. m - 1, n \in T
      PROVE  n + 1 \in T
  <2>1. n \in Nat /\ n + 1 \in 0 .. m /\ m - n \in 1 .. m
        /\ m - (n + 1) = m - n - 1 /\ m - n - 1 \in 0 .. m
    BY <1>1
  <2>2. "VIRTUAL_RBRACE" \in Kinds /\ "VIRTUAL_SEMI" \in Kinds
    BY DEF Kinds
  <2> DEFINE e == EndClosers(n)
             two == <<"VIRTUAL_RBRACE", "VIRTUAL_SEMI">>
  <2>3. e \in Seq(Kinds) /\ two \in Seq(Kinds) /\ two = <<"VIRTUAL_RBRACE">> \o <<"VIRTUAL_SEMI">>
        /\ <<"VIRTUAL_RBRACE">> \in Seq(Kinds) /\ <<"VIRTUAL_SEMI">> \in Seq(Kinds)
    <3>1. e \in Seq(Kinds)
      BY <1>3
    <3>2. <<"VIRTUAL_RBRACE">> \in Seq(Kinds) /\ <<"VIRTUAL_SEMI">> \in Seq(Kinds) /\ two \in Seq(Kinds)
      BY <2>2
    <3>3. two = <<"VIRTUAL_RBRACE">> \o <<"VIRTUAL_SEMI">>
      OBVIOUS
    <3> QED
      BY <3>1, <3>2, <3>3
  <2>4. EndClosers(n + 1) = e \o two /\ e \o two \in Seq(Kinds)
    <3>1. Len(e) = 2 * n /\ \A i \in 1 .. 2 * n : e[i] = IF i % 2 = 1 THEN "VIRTUAL_RBRACE" ELSE "VIRTUAL_SEMI"
      BY <2>1 DEF EndClosers
    <3>2. /\ e \o two \in Seq(Kinds) /\ Len(e \o two) = 2 * (n + 1)
          /\ \A i \in 1 .. 2 * n : (e \o two)[i] = e[i]
          /\ (e \o two)[2 * n + 1] = "VIRTUAL_RBRACE" /\ (e \o two)[2 * n + 2] = "VIRTUAL_SEMI"
      <4> HIDE DEF e
      <4>1. Len(two) = 2 /\ two[1] = "VIRTUAL_RBRACE" /\ two[2] = "VIRTUAL_SEMI"
        OBVIOUS
      <4> HIDE DEF two
      <4>2. /\ e \o two \in Seq(Kinds) /\ Len(e \o two) = Len(e) + Len(two)
            /\ \A i \in 1 .. Len(e) + Len(two) :
                 (e \o two)[i] = IF i <= Len(e) THEN e[i] ELSE two[i - Len(e)]
        BY <2>3, ConcatProperties
      <4>3. /\ 2 * n \in Nat /\ 2 * n + 2 = 2 * (n + 1)
            /\ \A i \in 1 .. 2 * n : i \in 1 .. 2 * n + 2 /\ i <= 2 * n
            /\ 2 * n + 1 \in 1 .. 2 * n + 2 /\ ~(2 * n + 1 <= 2 * n)
            /\ 2 * n + 2 \in 1 .. 2 * n + 2 /\ ~(2 * n + 2 <= 2 * n)
            /\ 2 * n + 1 - 2 * n = 1 /\ 2 * n + 2 - 2 * n = 2
        BY <2>1
      <4>4. Len(e) + Len(two) = 2 * n + 2
        BY <3>1, <4>1
      <4>5. Len(e \o two) = 2 * (n + 1)
        BY <4>2, <4>3, <4>4
      <4>6. \A i \in 1 .. 2 * n : (e \o two)[i] = e[i]
        BY <3>1, <4>2, <4>3, <4>4
      <4>7. (e \o two)[2 * n + 1] = two[1]
        BY <3>1, <4>2, <4>3, <4>4
      <4>8. (e \o two)[2 * n + 2] = two[2]
        BY <3>1, <4>2, <4>3, <4>4
      <4> QED
        BY <4>1, <4>2, <4>5, <4>6, <4>7, <4>8
    <3>3. EndClosers(n + 1) \in Seq(Kinds) /\ Len(EndClosers(n + 1)) = 2 * (n + 1)
      <4>1. 2 * (n + 1) \in Nat
        BY <2>1
      <4>2. \A i \in 1 .. 2 * (n + 1) : (IF i % 2 = 1 THEN "VIRTUAL_RBRACE" ELSE "VIRTUAL_SEMI") \in Kinds
        BY <2>2
      <4> DEFINE N == 2 * (n + 1)
                 x(i) == IF i % 2 = 1 THEN "VIRTUAL_RBRACE" ELSE "VIRTUAL_SEMI"
      <4> HIDE DEF N
      <4>3. N \in Nat /\ \A i \in 1 .. N : x(i) \in Kinds
        BY <4>1, <4>2 DEF N
      <4> HIDE DEF x
      <4>4. [i \in 1 .. N |-> x(i)] \in Seq(Kinds) /\ Len([i \in 1 .. N |-> x(i)]) = N
        BY <4>3
      <4> QED
        BY <4>4 DEF EndClosers, N, x
    <3>4. ASSUME NEW i \in 1 .. 2 * (n + 1)
          PROVE  EndClosers(n + 1)[i] = (e \o two)[i]
      <4>1. EndClosers(n + 1)[i] = IF i % 2 = 1 THEN "VIRTUAL_RBRACE" ELSE "VIRTUAL_SEMI"
        BY DEF EndClosers
      <4>2. i \in 1 .. 2 * n \/ i = 2 * n + 1 \/ i = 2 * n + 2
        BY <2>1
      <4>3. (2 * n + 1) % 2 = 1 /\ (2 * n + 2) % 2 = 0
        BY <2>1
      <4> QED
        BY <3>1, <3>2, <4>1, <4>2, <4>3
    <3> QED
      BY <3>2, <3>3, <3>4, SeqEqual
  <2> HIDE DEF e, two
  <2>5. /\ NestedAll(s, e \o two) = NestedAll(NestedAll(s, e), two)
        /\ NestedAll(s, e) = SubSeq(s, 1, m - n)
        /\ NestedAll(s, e) \in Seq(Braces)
    BY <1>3, <2>3, NestedConcat DEF e
  <2>6. NestedAll(SubSeq(s, 1, m - n), two) = SubSeq(s, 1, m - n - 1)
    <3> DEFINE r == SubSeq(s, 1, m - n)
    <3>0. r \in Seq(Braces)
      BY <2>5
    <3>1. NestedAll(r, two) = NestedAll(NestedAll(r, <<"VIRTUAL_RBRACE">>), <<"VIRTUAL_SEMI">>)
          /\ NestedAll(r, <<"VIRTUAL_RBRACE">>) \in Seq(Braces)
      <4> HIDE DEF r
      <4> QED
        BY <2>3, <3>0, NestedConcat
    <3>2. NestedAll(r, <<"VIRTUAL_RBRACE">>) = SubSeq(s, 1, m - n - 1)
      BY <2>1, <2>2, <3>0, NestedOne, NestedClose
    <3>3. NestedAll(r, two) = Nested(SubSeq(s, 1, m - n - 1), "VIRTUAL_SEMI")
      BY <2>2, <3>1, <3>2, NestedOne
    <3>4. SubSeq(s, 1, m - n - 1) \in Seq(Braces)
      BY <3>1, <3>2
    <3> QED
      BY <2>2, <3>3, <3>4, NestedBy DEF Braces
  <2> QED
    BY <2>1, <2>4, <2>5, <2>6
<1> HIDE DEF T
<1>4. 0 .. m \subseteq T
  BY <1>1, <1>2, <1>3, IntervalInduction
<1>5. m \in T
  BY <1>1, <1>4
<1>6. SubSeq(s, 1, m - m) = <<>>
  BY <1>1, SubSeqEmpty
<1> QED
  BY <1>5, <1>6 DEF T

-----------------------------------------------------------------------------
(***************************************************************************)
(* The inductive invariant.  The frames with the current one on top are    *)
(* the root and a frame for each open brace; the root keeps column 1, so   *)
(* no line is shallower and it is never left; and prev_kind is the last    *)
(* kind put out, which is what a virtual semicolon is decided on.          *)
(***************************************************************************)
LFrame == [indent : Nat, kind : {"ROOT", "LAYOUT", "EXPLICIT"}]

LTypes ==
    /\ frames \in Seq(LFrame) /\ current \in LFrame
    /\ held \in [kind : TokenKinds \cup {"none"}, col : Nat]
    /\ held.kind # "none" => held.col # 0
    /\ newline_seen \in BOOLEAN
    /\ prev_kind \in Kinds \cup {"done"}
    /\ opens \in Seq(Braces)
    /\ emitted \in Seq(Kinds) /\ before \in Kinds

\* The frame a brace stands for.
FrameOf(brace) == IF brace = "VIRTUAL_LBRACE" THEN "LAYOUT" ELSE "EXPLICIT"

\* The braces that stand open are the frames above the root.
Mirrors(braces, all) ==
    /\ Len(all) = Len(braces) + 1
    /\ all[1] = Root
    /\ \A i \in 1 .. Len(braces) : all[i + 1].kind = FrameOf(braces[i])

LastOut == IF emitted = <<>> THEN before ELSE Last(emitted)

LInv ==
    /\ LTypes
    /\ Mirrors(opens, Append(frames, current))
    /\ prev_kind # "done" => prev_kind = LastOut
    /\ prev_kind = "done" => opens = <<>> /\ held.kind = "none"
    /\ NoEmptyStatement

\* The first token finds the root alone.
LEMMA LInitStep == LayoutInit => LInv
<1> SUFFICES ASSUME LayoutInit
             PROVE  LInv
  OBVIOUS
<1>1. LTypes
  <2>1. frames \in Seq(LFrame) /\ opens \in Seq(Braces) /\ emitted \in Seq(Kinds)
    BY DEF LayoutInit
  <2>2. current \in LFrame
    BY DEF LayoutInit, LFrame, Root
  <2>3. /\ held \in [kind : TokenKinds \cup {"none"}, col : Nat]
        /\ held.kind # "none" => held.col # 0
    BY DEF LayoutInit, NoToken
  <2>4. prev_kind \in Kinds /\ before \in Kinds /\ newline_seen \in BOOLEAN
    BY DEF LayoutInit, Kinds, TokenKinds
  <2> QED
    BY <2>1, <2>2, <2>3, <2>4 DEF LTypes
<1>2. Append(<<>>, Root) = <<Root>>
  OBVIOUS
<1>3. Mirrors(<<>>, <<Root>>)
  BY DEF Mirrors
<1>4. NoEmptyStatement
  BY DEF LayoutInit, NoEmptyStatement
<1> QED
  BY <1>1, <1>2, <1>3, <1>4 DEF LayoutInit, LInv, LastOut

\* What every step puts out: a run of kinds in which a virtual semicolon
\* follows a kind that takes one, the first of them following prev_kind.
GoodRun(prev, ks) ==
    /\ ks \in Seq(Kinds)
    /\ \A i \in 1 .. Len(ks) :
         ks[i] = "VIRTUAL_SEMI" =>
            should_emit_semicolon(IF i = 1 THEN prev ELSE ks[i - 1])

\* Putting such a run out makes no empty statement.
LEMMA EmitStep ==
    ASSUME LInv, prev_kind # "done", NEW ks, GoodRun(prev_kind, ks), Emit(ks)
    PROVE  /\ emitted' \in Seq(Kinds) /\ before' \in Kinds
           /\ opens' = NestedAll(opens, ks)
           /\ emitted' = ks
           /\ before' = prev_kind
           /\ NoEmptyStatement'
<1>1. /\ emitted' = ks /\ before' = LastOut /\ opens' = NestedAll(opens, ks)
  BY DEF Emit, LastOut
<1>2. ks \in Seq(Kinds) /\ prev_kind = LastOut /\ prev_kind \in Kinds
  BY DEF LInv, LTypes, GoodRun
<1>3. NoEmptyStatement'
  <2> DEFINE tail == IF ks = <<>> THEN <<prev_kind>> ELSE <<prev_kind>> \o ks
  <2>1. SUFFICES \A i \in 2 .. Len(tail) :
                   tail[i] = "VIRTUAL_SEMI" => should_emit_semicolon(tail[i - 1])
    BY <1>1, <1>2 DEF NoEmptyStatement
  <2>2. <<prev_kind>> \in Seq(Kinds) /\ Len(<<prev_kind>>) = 1 /\ <<prev_kind>>[1] = prev_kind
    BY <1>2
  <2>3. CASE ks = <<>>
    BY <2>2, <2>3
  <2>4. CASE ks # <<>>
    <3>1. tail = <<prev_kind>> \o ks
      BY <2>4
    <3>2. /\ Len(tail) = 1 + Len(ks) /\ Len(ks) \in Nat
          /\ \A i \in 1 .. 1 + Len(ks) : tail[i] = IF i <= 1 THEN <<prev_kind>>[i] ELSE ks[i - 1]
      BY <1>2, <2>2, <3>1, ConcatProperties
    <3> HIDE DEF tail
    <3> TAKE i \in 2 .. Len(tail)
    <3>3. i - 1 \in 1 .. Len(ks) /\ i \in 1 .. 1 + Len(ks) /\ ~(i <= 1) /\ i - 1 \in 1 .. 1 + Len(ks)
      BY <3>2
    <3>4. tail[i] = ks[i - 1]
      BY <3>2, <3>3
    <3>5. tail[i - 1] = IF i - 1 = 1 THEN prev_kind ELSE ks[i - 1 - 1]
      <4>1. CASE i - 1 = 1
        BY <2>2, <3>2, <3>3, <4>1
      <4>2. CASE i - 1 # 1
        <5>1. ~(i - 1 <= 1)
          BY <3>3, <4>2
        <5> QED
          BY <3>2, <3>3, <4>2, <5>1
      <4> QED
        BY <4>1, <4>2
    <3> QED
      BY <3>3, <3>4, <3>5 DEF GoodRun
  <2> QED
    BY <2>3, <2>4
<1> QED
  BY <1>1, <1>2, <1>3

\* A prefix, one longer.
LEMMA AppendPrefix ==
    ASSUME NEW S, NEW s \in Seq(S), NEW n \in 0 .. Len(s) - 1
    PROVE  Append(SubSeq(s, 1, n), s[n + 1]) = SubSeq(s, 1, n + 1)
<1> DEFINE t == SubSeq(s, 1, n)
           u == SubSeq(s, 1, n + 1)
           e == s[n + 1]
<1>0. Len(s) \in Nat
  BY LenProperties
<1>1. n \in 0 .. Len(s) /\ n + 1 \in 0 .. Len(s) /\ n + 1 \in 1 .. Len(s) /\ n \in Nat
  BY <1>0
<1>2. t \in Seq(S) /\ Len(t) = n /\ \A i \in 1 .. n : t[i] = s[i]
  BY <1>1, PrefixProperties
<1>3. u \in Seq(S) /\ Len(u) = n + 1 /\ \A i \in 1 .. n + 1 : u[i] = s[i]
  BY <1>1, PrefixProperties
<1>4. e \in S
  BY <1>1, ElementOfSeq
<1> HIDE DEF t, u
<1>5. /\ Append(t, e) \in Seq(S) /\ Len(Append(t, e)) = n + 1
      /\ \A i \in 1 .. n : Append(t, e)[i] = t[i]
      /\ Append(t, e)[n + 1] = e
  <2> HIDE DEF e
  <2> QED
    BY <1>2, <1>4
<1>6. ASSUME NEW i \in 1 .. n + 1
      PROVE  Append(t, e)[i] = u[i]
  <2>1. i \in 1 .. n \/ i = n + 1
    BY <1>1
  <2> QED
    BY <1>2, <1>3, <1>5, <2>1
<1>7. Append(t, e) = u
  BY <1>3, <1>5, <1>6, SeqEqual
<1> QED
  BY <1>7 DEF t, u

\* Leaving a frame, as a prefix.
LEMMA AppendFront ==
    ASSUME NEW S, NEW s \in Seq(S), s # <<>>
    PROVE  Append(Front(s), Last(s)) = s
<1>1. Len(s) \in Nat \ {0}
  BY FrontProperties
<1>2. Len(s) - 1 \in 0 .. Len(s) - 1 /\ Len(s) - 1 + 1 = Len(s)
  BY <1>1
<1>3. Append(SubSeq(s, 1, Len(s) - 1), s[Len(s) - 1 + 1]) = SubSeq(s, 1, Len(s) - 1 + 1)
  BY <1>2, AppendPrefix
<1> QED
  BY <1>2, <1>3, SubSeqFull DEF Front, Last

\* A brace and its frame go on together ...
LEMMA MirrorsEnter ==
    ASSUME NEW o \in Seq(Braces), NEW all \in Seq(LFrame), Mirrors(o, all),
           NEW b \in Braces, NEW f \in LFrame, f.kind = FrameOf(b)
    PROVE  Mirrors(Append(o, b), Append(all, f))
<1> DEFINE p == Append(o, b)
           q == Append(all, f)
<1>1. Len(o) \in Nat /\ Len(all) = Len(o) + 1
  BY DEF Mirrors
<1>2. Len(p) = Len(o) + 1 /\ p[Len(o) + 1] = b /\ \A i \in 1 .. Len(o) : p[i] = o[i]
  OBVIOUS
<1>3. Len(q) = Len(all) + 1 /\ q[Len(all) + 1] = f /\ \A i \in 1 .. Len(all) : q[i] = all[i]
  OBVIOUS
<1> HIDE DEF p, q
<1>4. q[1] = Root /\ Len(q) = Len(p) + 1
  BY <1>1, <1>2, <1>3 DEF Mirrors
<1>5. ASSUME NEW i \in 1 .. Len(p)
      PROVE  q[i + 1].kind = FrameOf(p[i])
  <2>1. CASE i = Len(o) + 1
    BY <1>1, <1>2, <1>3, <2>1
  <2>2. CASE i # Len(o) + 1
    <3>1. i \in 1 .. Len(o) /\ i + 1 \in 1 .. Len(all)
      BY <1>1, <1>2, <2>2
    <3> QED
      BY <1>2, <1>3, <3>1 DEF Mirrors
  <2> QED
    BY <2>1, <2>2
<1> QED
  BY <1>4, <1>5 DEF Mirrors, p, q

\* ... and are taken away together.
LEMMA MirrorsPrefix ==
    ASSUME NEW o \in Seq(Braces), NEW all \in Seq(LFrame), Mirrors(o, all),
           NEW n \in 0 .. Len(o)
    PROVE  Mirrors(SubSeq(o, 1, n), SubSeq(all, 1, n + 1))
<1> DEFINE p == SubSeq(o, 1, n)
           q == SubSeq(all, 1, n + 1)
<1>0. Len(o) \in Nat /\ Len(all) = Len(o) + 1
  BY DEF Mirrors
<1>1. n \in Nat /\ n + 1 \in 0 .. Len(all)
  BY <1>0
<1>2. Len(p) = n /\ \A i \in 1 .. n : p[i] = o[i]
  BY PrefixProperties
<1>3. Len(q) = n + 1 /\ \A i \in 1 .. n + 1 : q[i] = all[i]
  BY <1>1, PrefixProperties
<1> HIDE DEF p, q
<1>4. q[1] = Root
  BY <1>1, <1>3 DEF Mirrors
<1>5. ASSUME NEW i \in 1 .. n
      PROVE  q[i + 1].kind = FrameOf(p[i])
  <2>1. i \in 1 .. Len(o) /\ i + 1 \in 1 .. n + 1
    BY <1>0, <1>1
  <2> QED
    BY <1>2, <1>3, <2>1 DEF Mirrors
<1> QED
  BY <1>2, <1>3, <1>4, <1>5 DEF Mirrors, p, q

\* The frames with the current one are a sequence of frames, one longer than
\* the stack.
LEMMA AllFrames ==
    ASSUME LInv
    PROVE  LET all == Append(frames, current)
           IN  /\ all \in Seq(LFrame) /\ Len(all) = Len(frames) + 1
               /\ Len(frames) \in Nat /\ Len(frames) = Len(opens)
               /\ \A i \in 1 .. Len(frames) : all[i] = frames[i]
               /\ all[Len(all)] = current
               /\ all[1] = Root
               /\ opens \in Seq(Braces)
               /\ SubSeq(all, 1, Len(frames)) = frames
<1> DEFINE all == Append(frames, current)
<1>1. frames \in Seq(LFrame) /\ current \in LFrame /\ opens \in Seq(Braces)
  BY DEF LInv, LTypes
<1>2. /\ all \in Seq(LFrame) /\ Len(all) = Len(frames) + 1 /\ Len(frames) \in Nat
      /\ \A i \in 1 .. Len(frames) : all[i] = frames[i]
      /\ all[Len(frames) + 1] = current
  BY <1>1
<1>3. Mirrors(opens, all) /\ Len(opens) \in Nat
  BY <1>1 DEF LInv
<1> HIDE DEF all
<1>4. Len(frames) = Len(opens) /\ all[1] = Root
  BY <1>2, <1>3 DEF Mirrors
<1>5. SubSeq(all, 1, Len(frames)) = frames
  <2>1. Len(frames) \in 0 .. Len(all)
    BY <1>2
  <2>2. /\ SubSeq(all, 1, Len(frames)) \in Seq(LFrame)
        /\ Len(SubSeq(all, 1, Len(frames))) = Len(frames)
        /\ \A i \in 1 .. Len(frames) : SubSeq(all, 1, Len(frames))[i] = all[i]
    BY <1>2, <2>1, PrefixProperties
  <2> QED
    BY <1>1, <1>2, <2>2, SeqEqual
<1> QED
  BY <1>1, <1>2, <1>4, <1>5 DEF all

\* One more token.
LEMMA NestedAppend ==
    ASSUME NEW s \in Seq(Braces), NEW ks \in Seq(Kinds), NEW k \in Kinds
    PROVE  /\ NestedAll(s, Append(ks, k)) = Nested(NestedAll(s, ks), k)
           /\ NestedAll(s, Append(ks, k)) \in Seq(Braces)
<1>1. <<k>> \in Seq(Kinds) /\ Append(ks, k) = ks \o <<k>> /\ Append(ks, k) \in Seq(Kinds)
  BY AppendIsConcat
<1>2. /\ NestedAll(s, ks) \in Seq(Braces) /\ NestedAll(s, Append(ks, k)) \in Seq(Braces)
      /\ NestedAll(s, ks \o <<k>>) = NestedAll(NestedAll(s, ks), <<k>>)
  BY <1>1, NestedConcat
<1> QED
  BY <1>1, <1>2, NestedOne

\* A virtual semicolon opens and closes nothing, and follows what takes one.
LEMMA VirtualRun ==
    ASSUME NEW s \in Seq(Braces), NEW p
    PROVE  /\ Virtual(p) \in Seq(Kinds) /\ GoodRun(p, Virtual(p))
           /\ NestedAll(s, Virtual(p)) = s
<1> DEFINE k == "VIRTUAL_SEMI"
<1>1. k \in Kinds /\ k \notin Braces /\ k \notin {"RBRACE", "VIRTUAL_RBRACE"}
  BY DEF Kinds, Braces
<1>2. CASE should_emit_semicolon(p)
  <2>1. Virtual(p) = <<k>>
    BY <1>2 DEF Virtual
  <2>2. <<k>> \in Seq(Kinds) /\ Len(<<k>>) = 1
    BY <1>1
  <2>3. NestedAll(s, <<k>>) = s
    <3> HIDE DEF k
    <3> QED
      BY <1>1, NestedOne, NestedBy
  <2>4. GoodRun(p, <<k>>)
    BY <1>2, <2>2 DEF GoodRun
  <2> QED
    BY <2>1, <2>2, <2>3, <2>4
<1>3. CASE ~should_emit_semicolon(p)
  <2>1. Virtual(p) = <<>>
    BY <1>3 DEF Virtual
  <2> QED
    BY <2>1, NestedNone DEF GoodRun
<1> QED
  BY <1>2, <1>3

\* A run stays good when a kind that is no virtual semicolon follows.
LEMMA GoodAppend ==
    ASSUME NEW p, NEW ks, GoodRun(p, ks), NEW k \in Kinds, k # "VIRTUAL_SEMI"
    PROVE  GoodRun(p, Append(ks, k)) /\ Append(ks, k) # <<>> /\ Last(Append(ks, k)) = k
<1> DEFINE ls == Append(ks, k)
<1>1. ks \in Seq(Kinds) /\ Len(ks) \in Nat
  BY DEF GoodRun
<1>2. /\ ls \in Seq(Kinds) /\ Len(ls) = Len(ks) + 1
      /\ \A i \in 1 .. Len(ks) : ls[i] = ks[i]
      /\ ls[Len(ks) + 1] = k
  BY <1>1
<1> HIDE DEF ls
<1>3. ASSUME NEW i \in 1 .. Len(ls), ls[i] = "VIRTUAL_SEMI"
      PROVE  should_emit_semicolon(IF i = 1 THEN p ELSE ls[i - 1])
  <2>1. i \in 1 .. Len(ks)
    BY <1>1, <1>2, <1>3
  <2>2. i = 1 \/ i - 1 \in 1 .. Len(ks)
    BY <1>1, <2>1
  <2>3. ks[i] = "VIRTUAL_SEMI"
    BY <1>2, <1>3, <2>1
  <2> QED
    BY <1>2, <2>1, <2>2, <2>3 DEF GoodRun
<1>4. ls # <<>> /\ Last(ls) = k
  BY <1>1, <1>2 DEF Last
<1> QED
  BY <1>2, <1>3, <1>4 DEF GoodRun, ls

\* A token under decision is pulled before the end.
LEMMA HeldRunning ==
    ASSUME LInv, held.kind # "none"
    PROVE  prev_kind # "done" /\ prev_kind \in Kinds /\ held.kind \in TokenKinds
           /\ held.kind \in Kinds /\ held.kind # "VIRTUAL_SEMI" /\ held.col \in Nat \ {0}
BY DEF LInv, LTypes, Kinds, TokenKinds

\* The held token goes out after a good run: what is left to show is that
\* the frames follow.
LEMMA RealStep ==
    ASSUME LInv, held.kind # "none", NEW vs, GoodRun(prev_kind, vs), EmitReal(vs),
           frames' \in Seq(LFrame), current' \in LFrame,
           Mirrors(opens', Append(frames', current'))
    PROVE  LInv'
<1> DEFINE ks == Append(vs, held.kind)
<1>1. /\ prev_kind # "done" /\ held.kind \in Kinds /\ held.kind # "VIRTUAL_SEMI"
      /\ held.kind \in TokenKinds /\ held.col \in Nat
  BY HeldRunning
<1>2. GoodRun(prev_kind, ks) /\ ks # <<>> /\ Last(ks) = held.kind
  BY <1>1, GoodAppend
<1>3. /\ Emit(ks) /\ prev_kind' = held.kind /\ newline_seen' = FALSE
      /\ held' = [kind |-> "none", col |-> held.col]
  BY DEF EmitReal
<1>4. vs \in Seq(Kinds) /\ opens \in Seq(Braces)
  BY DEF GoodRun, LInv, LTypes
<1>5. NestedAll(opens, ks) \in Seq(Braces)
  BY <1>1, <1>4, NestedAppend
<1> HIDE DEF ks
<1>6. /\ emitted' \in Seq(Kinds) /\ before' \in Kinds /\ opens' = NestedAll(opens, ks)
      /\ emitted' = ks /\ NoEmptyStatement'
  BY <1>1, <1>2, <1>3, EmitStep
<1>7. LTypes'
  BY <1>1, <1>3, <1>5, <1>6 DEF LTypes
<1>8. prev_kind' # "done" /\ prev_kind' = LastOut'
  <2>1. "done" \notin Kinds
    BY DEF Kinds, TokenKinds
  <2> QED
    BY <1>1, <1>2, <1>3, <1>6, <2>1 DEF LastOut
<1> QED
  BY <1>6, <1>7, <1>8 DEF LInv

-----------------------------------------------------------------------------
(* One lemma for each rule of layout_stream.                                 *)

\* A pulled token may settle the column of an explicit frame, never the root's.
LEMMA PullStep ==
    ASSUME LInv, Pull
    PROVE  LInv'
<1>1. PICK kind \in TokenKinds, fresh \in BOOLEAN, col \in 1 .. Columns :
        /\ held' = [kind |-> kind, col |-> col]
        /\ newline_seen' = (newline_seen \/ fresh)
        /\ current' = IF current.kind = "EXPLICIT" /\ current.indent = INDENT_UNRESOLVED
                      THEN [current EXCEPT !.indent = col] ELSE current
  BY DEF Pull
<1>2. /\ prev_kind # "done" /\ Emit(<<>>) /\ UNCHANGED <<frames, prev_kind>>
  BY DEF Pull, Running
<1>3. GoodRun(prev_kind, <<>>)
  BY DEF GoodRun
<1>4. /\ emitted' = <<>> /\ before' = prev_kind /\ before' \in Kinds /\ NoEmptyStatement'
      /\ opens' = opens
  BY <1>2, <1>3, EmitStep, NestedNone DEF LInv, LTypes
<1>5. col \in Nat /\ col # 0
  BY LayoutAssumption
<1>6. current' \in LFrame /\ current'.kind = current.kind
      /\ (current = Root => current' = Root)
  <2>1. current \in LFrame
    BY DEF LInv, LTypes
  <2> QED
    BY <1>1, <1>5, <2>1 DEF LFrame, Root
<1>7. LTypes'
  <2>1. frames' \in Seq(LFrame) /\ opens' \in Seq(Braces) /\ emitted' \in Seq(Kinds)
    BY <1>2, <1>4 DEF LInv, LTypes
  <2>2. /\ held' \in [kind : TokenKinds \cup {"none"}, col : Nat]
        /\ held'.kind # "none" => held'.col # 0
    BY <1>1, <1>5
  <2>3. newline_seen' \in BOOLEAN /\ prev_kind' \in Kinds \cup {"done"}
    BY <1>1, <1>2 DEF LInv, LTypes
  <2> QED
    BY <1>4, <1>6, <2>1, <2>2, <2>3 DEF LTypes
<1>8. Mirrors(opens', Append(frames', current'))
  <2> DEFINE all == Append(frames, current)
             new == Append(frames, current')
  <2>1. /\ all \in Seq(LFrame) /\ Len(all) = Len(frames) + 1 /\ Len(frames) \in Nat
        /\ Len(frames) = Len(opens)
        /\ \A i \in 1 .. Len(frames) : all[i] = frames[i]
        /\ all[Len(frames) + 1] = current /\ all[1] = Root
    BY AllFrames
  <2>2. /\ Len(new) = Len(frames) + 1
        /\ \A i \in 1 .. Len(frames) : new[i] = frames[i]
        /\ new[Len(frames) + 1] = current'
    BY DEF LInv, LTypes
  <2>3. Mirrors(opens, all)
    BY DEF LInv
  <2> HIDE DEF all, new
  <2>4. new[1] = Root
    <3>1. CASE Len(frames) = 0
      BY <1>6, <2>1, <2>2, <3>1
    <3>2. CASE Len(frames) # 0
      <4>1. 1 \in 1 .. Len(frames)
        BY <2>1, <3>2
      <4> QED
        BY <2>1, <2>2, <4>1
    <3> QED
      BY <3>1, <3>2
  <2>5. ASSUME NEW i \in 1 .. Len(opens)
        PROVE  new[i + 1].kind = FrameOf(opens[i])
    <3>1. all[i + 1].kind = FrameOf(opens[i])
      BY <2>3 DEF Mirrors
    <3>2. i + 1 \in 1 .. Len(frames) \/ i + 1 = Len(frames) + 1
      BY <2>1
    <3> QED
      BY <1>6, <2>1, <2>2, <3>1, <3>2
  <2>6. Mirrors(opens, new)
    BY <2>1, <2>2, <2>4, <2>5 DEF Mirrors
  <2> QED
    BY <1>2, <1>4, <2>6 DEF new
<1> QED
  BY <1>2, <1>4, <1>7, <1>8 DEF LInv, LastOut

\* Rule 1: a block is opened with its frame.
LEMMA OpenBlockStep ==
    ASSUME LInv, OpenBlock
    PROVE  LInv'
<1> DEFINE k == "VIRTUAL_LBRACE"
           f == [indent |-> held.col, kind |-> "LAYOUT"]
           all == Append(frames, current)
<1>1. /\ held.kind # "none" /\ frames' = all /\ current' = f /\ Emit(<<k>>)
      /\ prev_kind' = k /\ newline_seen' = FALSE /\ held' = held
  BY DEF OpenBlock, Deciding, Enter
<1>2. prev_kind # "done" /\ held.col \in Nat
  BY <1>1, HeldRunning
<1>3. k \in Kinds /\ k \in Braces /\ <<k>> \in Seq(Kinds) /\ GoodRun(prev_kind, <<k>>)
      /\ <<k>> # <<>> /\ Last(<<k>>) = k
  BY DEF Kinds, Braces, GoodRun, Last
<1>4. f \in LFrame /\ f.kind = FrameOf(k)
  BY <1>2 DEF LFrame, FrameOf
<1>5. all \in Seq(LFrame) /\ opens \in Seq(Braces)
  BY AllFrames
<1>6. Mirrors(opens, all)
  BY DEF LInv
<1> HIDE DEF k, f, all
<1>7. /\ emitted' = <<k>> /\ before' \in Kinds /\ NoEmptyStatement'
      /\ opens' = NestedAll(opens, <<k>>)
  BY <1>1, <1>2, <1>3, EmitStep
<1>8. opens' = Append(opens, k) /\ opens' \in Seq(Braces)
  <2>1. opens' = Nested(opens, k)
    BY <1>3, <1>5, <1>7, NestedOne
  <2>2. opens' = Append(opens, k)
    BY <1>3, <1>5, <2>1, NestedBy
  <2> QED
    BY <1>3, <1>5, <2>2
<1>9. Mirrors(opens', Append(frames', current'))
  BY <1>1, <1>3, <1>4, <1>5, <1>6, <1>8, MirrorsEnter
<1>10. LTypes'
  BY <1>1, <1>3, <1>4, <1>5, <1>7, <1>8 DEF LInv, LTypes
<1>11. prev_kind' # "done" /\ prev_kind' = LastOut'
  BY <1>1, <1>3, <1>7 DEF LastOut, k
<1> QED
  BY <1>7, <1>9, <1>10, <1>11 DEF LInv

\* Rule 2: a block is closed with its frame; a line is never shallower than
\* the root, so there is one.
LEMMA CloseBlockStep ==
    ASSUME LInv, CloseBlock
    PROVE  LInv'
<1> DEFINE k == "VIRTUAL_RBRACE"
           ks == Append(Virtual(prev_kind), k)
           all == Append(frames, current)
<1>1. /\ held.kind # "none" /\ Shallower /\ Emit(ks) /\ Leave
      /\ prev_kind' = k /\ UNCHANGED <<held, newline_seen>>
  BY DEF CloseBlock, Deciding
<1>2. prev_kind # "done" /\ held.col \in Nat \ {0} /\ prev_kind \in Kinds
  BY <1>1, HeldRunning
<1>3. k \in Kinds /\ k # "VIRTUAL_SEMI"
  BY DEF Kinds
<1>4. /\ all \in Seq(LFrame) /\ Len(all) = Len(frames) + 1 /\ Len(frames) \in Nat
      /\ Len(frames) = Len(opens) /\ all[Len(all)] = current /\ all[1] = Root
      /\ opens \in Seq(Braces) /\ SubSeq(all, 1, Len(frames)) = frames
  BY AllFrames
<1>5. Virtual(prev_kind) \in Seq(Kinds) /\ GoodRun(prev_kind, Virtual(prev_kind))
      /\ NestedAll(opens, Virtual(prev_kind)) = opens
  BY <1>4, VirtualRun
<1>6. GoodRun(prev_kind, ks) /\ ks # <<>> /\ Last(ks) = k
  BY <1>3, <1>5, GoodAppend
<1>7. NestedAll(opens, ks) = Nested(opens, k)
  BY <1>3, <1>4, <1>5, NestedAppend
<1>8. frames # <<>>
  <2>1. SUFFICES ASSUME frames = <<>>
                 PROVE  FALSE
    OBVIOUS
  <2>2. current = Root
    BY <1>4, <2>1
  <2> QED
    BY <1>1, <1>2, <2>2 DEF Shallower, Root
<1>9. Mirrors(opens, all)
  BY DEF LInv
<1> HIDE DEF k, ks, all
<1>10. /\ emitted' = ks /\ emitted' \in Seq(Kinds) /\ before' \in Kinds /\ NoEmptyStatement'
       /\ opens' = Nested(opens, k)
  BY <1>1, <1>2, <1>6, <1>7, EmitStep
<1>11. opens' = SubSeq(opens, 1, Len(opens) - 1) /\ opens' \in Seq(Braces)
  <2>1. Len(opens) \in 1 .. Len(opens) /\ opens # <<>>
    BY <1>4, <1>8
  <2>2. opens = SubSeq(opens, 1, Len(opens))
    BY <1>4, SubSeqFull
  <2>3. Nested(opens, k) = SubSeq(opens, 1, Len(opens) - 1)
    BY <1>4, <2>1, <2>2, NestedClose DEF k
  <2> QED
    BY <1>3, <1>4, <1>10, <2>3, NestedType
<1>12. /\ frames' \in Seq(LFrame) /\ current' \in LFrame
       /\ Append(frames', current') = frames
  <2>1. frames' = Front(frames) /\ current' = Last(frames)
    BY <1>1, <1>8 DEF Leave
  <2>2. frames \in Seq(LFrame)
    BY DEF LInv, LTypes
  <2> QED
    BY <1>8, <2>1, <2>2, FrontProperties, AppendFront
<1>13. Mirrors(opens', Append(frames', current'))
  <2>1. Len(opens) - 1 \in 0 .. Len(opens) /\ Len(opens) - 1 + 1 = Len(frames)
    BY <1>4, <1>8
  <2>2. Mirrors(SubSeq(opens, 1, Len(opens) - 1), SubSeq(all, 1, Len(opens) - 1 + 1))
    BY <1>4, <1>9, <2>1, MirrorsPrefix
  <2> QED
    BY <1>4, <1>11, <1>12, <2>1, <2>2
<1>14. LTypes'
  BY <1>1, <1>3, <1>10, <1>11, <1>12 DEF LInv, LTypes
<1>15. prev_kind' # "done" /\ prev_kind' = LastOut'
  BY <1>1, <1>6, <1>10 DEF LastOut, k
<1> QED
  BY <1>10, <1>13, <1>14, <1>15 DEF LInv

\* Two good runs, the second one following the last kind of the first.
LEMMA GoodConcat ==
    ASSUME NEW p, NEW ks, NEW ls, GoodRun(p, ks),
           GoodRun(IF ks = <<>> THEN p ELSE Last(ks), ls)
    PROVE  GoodRun(p, ks \o ls)
<1> DEFINE q == IF ks = <<>> THEN p ELSE Last(ks)
           m == Len(ks)
           n == Len(ls)
           js == ks \o ls
<1>1. ks \in Seq(Kinds) /\ ls \in Seq(Kinds) /\ GoodRun(q, ls)
  BY DEF GoodRun
<1>2. /\ m \in Nat /\ n \in Nat /\ js \in Seq(Kinds) /\ Len(js) = m + n
      /\ \A i \in 1 .. m : js[i] = ks[i]
      /\ \A i \in 1 .. n : js[m + i] = ls[i]
  BY <1>1
<1>3. q = IF m = 0 THEN p ELSE ks[m]
  BY <1>1, EmptySeq DEF Last
<1>4. \A i \in 1 .. m : ks[i] = "VIRTUAL_SEMI" =>
                          should_emit_semicolon(IF i = 1 THEN p ELSE ks[i - 1])
  BY DEF GoodRun
<1>5. \A i \in 1 .. n : ls[i] = "VIRTUAL_SEMI" =>
                          should_emit_semicolon(IF i = 1 THEN q ELSE ls[i - 1])
  BY <1>1 DEF GoodRun
<1> HIDE DEF q, m, n, js
<1>6. ASSUME NEW i \in 1 .. m + n, js[i] = "VIRTUAL_SEMI"
      PROVE  should_emit_semicolon(IF i = 1 THEN p ELSE js[i - 1])
  <2>1. CASE i \in 1 .. m
    <3>1. i = 1 \/ i - 1 \in 1 .. m
      BY <1>2, <2>1
    <3> QED
      BY <1>2, <1>4, <1>6, <2>1, <3>1
  <2>2. CASE i \notin 1 .. m
    <3> DEFINE j == i - m
    <3>1. j \in 1 .. n /\ m + j = i
      BY <1>2, <2>2
    <3>2. j = 1 \/ (j - 1 \in 1 .. n /\ m + (j - 1) = i - 1 /\ i # 1)
      BY <1>2, <3>1
    <3>3. j = 1 => IF m = 0 THEN i = 1 ELSE i # 1 /\ i - 1 = m /\ m \in 1 .. m
      BY <1>2, <3>1
    <3> HIDE DEF j
    <3>4. ls[j] = "VIRTUAL_SEMI"
      BY <1>2, <1>6, <3>1
    <3>5. CASE j = 1
      <4>1. should_emit_semicolon(q)
        BY <1>5, <3>1, <3>4, <3>5
      <4>2. CASE m = 0
        BY <1>3, <3>3, <3>5, <4>1, <4>2
      <4>3. CASE m # 0
        <5>1. js[i - 1] = ks[m] /\ i # 1
          BY <1>2, <3>3, <3>5, <4>3
        <5> QED
          BY <1>3, <4>1, <4>3, <5>1
      <4> QED
        BY <4>2, <4>3
    <3>6. CASE j # 1
      <4>1. should_emit_semicolon(ls[j - 1])
        BY <1>5, <3>1, <3>4, <3>6
      <4>2. js[i - 1] = ls[j - 1] /\ i # 1
        BY <1>2, <3>2, <3>6
      <4> QED
        BY <4>1, <4>2
    <3> QED
      BY <3>5, <3>6
  <2> QED
    BY <2>1, <2>2
<1> QED
  BY <1>2, <1>6 DEF GoodRun, js

\* Rule 3: an explicit brace is opened with its frame.
LEMMA OpenBraceStep ==
    ASSUME LInv, OpenBrace
    PROVE  LInv'
<1> DEFINE k == "LBRACE"
           f == [indent |-> INDENT_UNRESOLVED, kind |-> "EXPLICIT"]
           all == Append(frames, current)
           none == <<>>
<1>1. /\ held.kind # "none" /\ held.kind = k /\ frames' = all /\ current' = f /\ EmitReal(none)
  BY DEF OpenBrace, Deciding, Enter
<1>2. k \in Kinds /\ k \in Braces /\ none \in Seq(Kinds) /\ GoodRun(prev_kind, none)
  BY DEF Kinds, TokenKinds, Braces, GoodRun
<1>3. f \in LFrame /\ f.kind = FrameOf(k)
  BY DEF LFrame, FrameOf, INDENT_UNRESOLVED
<1>4. all \in Seq(LFrame) /\ opens \in Seq(Braces)
  BY AllFrames
<1>5. Mirrors(opens, all)
  BY DEF LInv
<1>6. opens' = NestedAll(opens, Append(none, k))
  BY <1>1 DEF EmitReal, Emit
<1>7. NestedAll(opens, none) = opens
  BY <1>4, NestedNone
<1> HIDE DEF k, f, all, none
<1>8. opens' = Nested(opens, k)
  BY <1>2, <1>4, <1>6, <1>7, NestedAppend
<1>9. opens' = Append(opens, k)
  BY <1>2, <1>4, <1>8, NestedBy
<1>10. Mirrors(opens', Append(frames', current'))
  BY <1>1, <1>2, <1>3, <1>4, <1>5, <1>9, MirrorsEnter
<1> QED
  BY <1>1, <1>2, <1>3, <1>4, <1>10, RealStep

\* Of the frames of a stack whose first is none, a last one is no block.
LEMMA LastExplicit ==
    ASSUME NEW all \in Seq(LFrame), Len(all) # 0, all[1] = Root
    PROVE  \E d \in DOMAIN all :
             /\ all[d].kind # "LAYOUT"
             /\ \A e \in d + 1 .. Len(all) : all[e].kind = "LAYOUT"
<1> DEFINE n == Len(all)
           P(d) == /\ all[d].kind # "LAYOUT"
                   /\ \A e \in d + 1 .. n : all[e].kind = "LAYOUT"
           T == {i \in 0 .. n : \/ \A e \in n - i + 1 .. n : all[e].kind = "LAYOUT"
                                \/ \E d \in 1 .. n : P(d)}
<1>1. n \in Nat /\ n # 0 /\ DOMAIN all = 1 .. n
  BY LenProperties
<1>2. 0 \in T
  BY <1>1
<1>3. ASSUME NEW i \in 0 .. n - 1, i \in T
      PROVE  i + 1 \in T
  <2> DEFINE d == n - i
  <2>1. d \in 1 .. n /\ n - (i + 1) + 1 = d /\ n - i + 1 = d + 1 /\ i + 1 \in 0 .. n
    BY <1>1
  <2>2. CASE \E x \in 1 .. n : P(x)
    BY <2>1, <2>2
  <2>3. CASE \A e \in n - i + 1 .. n : all[e].kind = "LAYOUT"
    <3>1. \A e \in d + 1 .. n : all[e].kind = "LAYOUT"
      BY <2>1, <2>3
    <3> HIDE DEF d, n
    <3>2. CASE all[d].kind = "LAYOUT"
      <4>1. \A e \in d .. n : e = d \/ e \in d + 1 .. n
        BY <1>1, <2>1
      <4>2. \A e \in d .. n : all[e].kind = "LAYOUT"
        BY <3>1, <3>2, <4>1
      <4>3. \A e \in n - (i + 1) + 1 .. n : all[e].kind = "LAYOUT"
        BY <2>1, <4>2
      <4> QED
        BY <2>1, <4>3
    <3>3. CASE all[d].kind # "LAYOUT"
      <4>1. P(d)
        BY <3>1, <3>3
      <4> QED
        BY <2>1, <4>1
    <3> QED
      BY <3>2, <3>3
  <2> QED
    BY <1>3, <2>2, <2>3
<1> HIDE DEF T
<1>4. 0 .. n \subseteq T
  BY <1>1, <1>2, <1>3, IntervalInduction
<1>5. n \in T
  BY <1>1, <1>4
<1>6. ~ \A e \in n - n + 1 .. n : all[e].kind = "LAYOUT"
  <2>1. 1 \in n - n + 1 .. n
    BY <1>1
  <2> QED
    BY <2>1 DEF Root
<1> QED
  BY <1>1, <1>5, <1>6 DEF T

\* Rule 4: a closing brace closes the blocks inside its own and then itself;
\* a stray one closes the blocks that are open and takes nothing more.
LEMMA CloseBraceStep ==
    ASSUME LInv, CloseBrace
    PROVE  LInv'
<1> DEFINE all == Append(frames, current)
           P(d) == /\ all[d].kind # "LAYOUT"
                   /\ \A e \in d + 1 .. Len(all) : all[e].kind = "LAYOUT"
           depth == CHOOSE d \in DOMAIN all : P(d)
           closers == [i \in 1 .. Len(all) - depth |-> "VIRTUAL_RBRACE"]
           v == Virtual(prev_kind)
           left == IF depth = 1 THEN 0 ELSE depth - 2
<1>1. /\ held.kind # "none" /\ held.kind = "RBRACE"
      /\ EmitReal(closers \o v)
      /\ frames' = SubSeq(all, 1, left)
      /\ current' = all[IF depth = 1 THEN 1 ELSE depth - 1]
  BY DEF CloseBrace, Deciding
<1>2. /\ all \in Seq(LFrame) /\ Len(all) = Len(opens) + 1 /\ Len(opens) \in Nat
      /\ all[1] = Root /\ opens \in Seq(Braces) /\ DOMAIN all = 1 .. Len(all)
  BY AllFrames, LenProperties
<1>3. Mirrors(opens, all)
  BY DEF LInv
<1>4. depth \in 1 .. Len(all)
  <2>1. \E d \in DOMAIN all : P(d)
    <3> HIDE DEF all
    <3> QED
      BY <1>2, LastExplicit
  <2> QED
    BY <1>2, <2>1
<1>5. opens' = NestedAll(opens, Append(closers \o v, "RBRACE"))
  BY <1>1 DEF EmitReal, Emit
<1> HIDE DEF all, depth
<1> DEFINE m == Len(all) - depth
<1>6. /\ m \in 0 .. Len(opens) /\ Len(opens) - m = depth - 1 /\ m \in Nat
      /\ left \in 0 .. Len(opens) /\ left \in 0 .. Len(all) /\ left \in 0 .. Len(all) - 1
      /\ left + 1 = IF depth = 1 THEN 1 ELSE depth - 1
      /\ depth - 1 \in 0 .. Len(opens)
  BY <1>2, <1>4
<1>7. /\ closers \in Seq(Kinds) /\ Len(closers) = m
      /\ \A i \in 1 .. m : closers[i] = "VIRTUAL_RBRACE"
  <2>1. "VIRTUAL_RBRACE" \in Kinds
    BY DEF Kinds
  <2> HIDE DEF m
  <2> QED
    BY <1>6, <2>1 DEF m
<1>8. NestedAll(opens, closers) = SubSeq(opens, 1, depth - 1)
  BY <1>2, <1>6, NestedClosers
<1>9. SubSeq(opens, 1, depth - 1) \in Seq(Braces) /\ Len(SubSeq(opens, 1, depth - 1)) = depth - 1
  BY <1>2, <1>6, PrefixProperties
<1> HIDE DEF closers, m
<1>10. /\ v \in Seq(Kinds) /\ GoodRun(prev_kind, v)
       /\ NestedAll(SubSeq(opens, 1, depth - 1), v) = SubSeq(opens, 1, depth - 1)
  BY <1>9, VirtualRun
<1>11. GoodRun(prev_kind, closers \o v)
  <2>1. GoodRun(prev_kind, closers)
    BY <1>7 DEF GoodRun
  <2>2. closers # <<>> => Last(closers) = "VIRTUAL_RBRACE"
    BY <1>6, <1>7 DEF Last
  <2>3. GoodRun("VIRTUAL_RBRACE", v)
    BY <1>10 DEF GoodRun, Virtual, should_emit_semicolon
  <2> HIDE DEF v
  <2> QED
    BY <1>10, <2>1, <2>2, <2>3, GoodConcat
<1> HIDE DEF v, left
<1>12. /\ NestedAll(opens, closers \o v) = SubSeq(opens, 1, depth - 1)
       /\ closers \o v \in Seq(Kinds)
  <2>1. NestedAll(opens, closers \o v) = NestedAll(NestedAll(opens, closers), v)
    BY <1>2, <1>7, <1>10, NestedConcat
  <2>2. closers \o v \in Seq(Kinds)
    BY <1>7, <1>10, ConcatProperties
  <2> QED
    BY <1>8, <1>10, <2>1, <2>2
<1>13. opens' = Nested(SubSeq(opens, 1, depth - 1), "RBRACE")
  <2>1. "RBRACE" \in Kinds
    BY DEF Kinds, TokenKinds
  <2> QED
    BY <1>2, <1>5, <1>12, <2>1, NestedAppend
<1>14. opens' = SubSeq(opens, 1, left)
  <2>1. CASE depth = 1
    <3> DEFINE e == SubSeq(opens, 1, depth - 1)
    <3>1. e = <<>> /\ left = 0
      BY <1>9, <2>1, EmptySeq DEF left
    <3>2. SubSeq(opens, 1, left) = <<>>
      BY <2>1, <3>1
    <3>3. Nested(<<>>, "RBRACE") = <<>>
      BY DEF Nested
    <3> QED
      BY <1>13, <3>1, <3>2, <3>3
  <2>2. CASE depth # 1
    <3>1. depth - 1 \in 1 .. Len(opens) /\ depth - 1 - 1 = left
      BY <1>2, <1>4, <2>2 DEF left
    <3> QED
      BY <1>2, <1>13, <3>1, NestedClose
  <2> QED
    BY <2>1, <2>2
<1>15. /\ frames' \in Seq(LFrame) /\ current' \in LFrame
       /\ Append(frames', current') = SubSeq(all, 1, left + 1)
  <2>1. current' = all[left + 1] /\ left + 1 \in 1 .. Len(all)
    BY <1>1, <1>2, <1>6
  <2>2. frames' \in Seq(LFrame) /\ current' \in LFrame
    BY <1>1, <1>2, <1>6, <2>1, PrefixProperties, ElementOfSeq
  <2> QED
    BY <1>1, <1>2, <1>6, <2>1, <2>2, AppendPrefix
<1>16. Mirrors(opens', Append(frames', current'))
  BY <1>2, <1>3, <1>6, <1>14, <1>15, MirrorsPrefix
<1> QED
  BY <1>1, <1>11, <1>15, <1>16, RealStep

\* Rules 5 and 6 and the lex error: a token that is no brace goes out, after a
\* semicolon or without one, and the frames stay.
LEMMA PlainStep ==
    ASSUME LInv, Sibling \/ PassThrough \/ PassError
    PROVE  LInv'
<1> DEFINE all == Append(frames, current)
<1>1. /\ held.kind # "none" /\ held.kind \notin {"LBRACE", "RBRACE"}
      /\ UNCHANGED <<frames, current>>
      /\ EmitReal(<<>>) \/ EmitReal(Virtual(prev_kind))
  BY DEF Sibling, PassThrough, PassError, Deciding
<1>2. /\ held.kind \in Kinds /\ held.kind \notin Braces
      /\ held.kind \notin {"RBRACE", "VIRTUAL_RBRACE"}
  BY <1>1, HeldRunning DEF Kinds, TokenKinds, Braces
<1>3. opens \in Seq(Braces) /\ frames \in Seq(LFrame) /\ current \in LFrame /\ Mirrors(opens, all)
  BY DEF LInv, LTypes
<1>4. ASSUME NEW vs, GoodRun(prev_kind, vs), NestedAll(opens, vs) = opens, EmitReal(vs)
      PROVE  LInv'
  <2>1. opens' = NestedAll(opens, Append(vs, held.kind))
    BY <1>4 DEF EmitReal, Emit
  <2>2. opens' = Nested(opens, held.kind)
    BY <1>2, <1>3, <1>4, <2>1, NestedAppend DEF GoodRun
  <2>3. opens' = opens
    BY <1>2, <1>3, <2>2, NestedBy
  <2>4. Mirrors(opens', Append(frames', current'))
    BY <1>1, <1>3, <2>3
  <2>5. frames' \in Seq(LFrame) /\ current' \in LFrame
    BY <1>1, <1>3
  <2> QED
    BY <1>1, <1>4, <2>4, <2>5, RealStep
<1>5. GoodRun(prev_kind, <<>>) /\ NestedAll(opens, <<>>) = opens
  BY <1>3, NestedNone DEF GoodRun
<1>6. GoodRun(prev_kind, Virtual(prev_kind)) /\ NestedAll(opens, Virtual(prev_kind)) = opens
  BY <1>3, VirtualRun
<1> QED
  BY <1>1, <1>4, <1>5, <1>6

\* The end of the file closes every brace.
LEMMA EndOfFileStep ==
    ASSUME LInv, EndOfFile
    PROVE  LInv'
<1> DEFINE v == Virtual(prev_kind)
           e == EndClosers(Len(frames))
           k == "EOF"
           ks == v \o e \o <<k>>
           all == Append(frames, current)
<1>1. /\ held.kind # "none" /\ Emit(ks) /\ frames' = <<>>
      /\ current' = IF frames = <<>> THEN current ELSE Head(frames)
      /\ prev_kind' = "done" /\ newline_seen' = FALSE /\ held' = NoToken
  BY DEF EndOfFile, EndClosers
<1>2. /\ Len(frames) = Len(opens) /\ Len(frames) \in Nat /\ opens \in Seq(Braces)
      /\ all[1] = Root /\ Len(all) = Len(frames) + 1 /\ all[Len(all)] = current
      /\ \A i \in 1 .. Len(frames) : all[i] = frames[i]
  BY AllFrames
<1>3. prev_kind # "done"
  BY <1>1, HeldRunning
<1>4. k \in Kinds /\ k # "VIRTUAL_SEMI" /\ k \notin Braces /\ k \notin {"RBRACE", "VIRTUAL_RBRACE"}
  BY DEF Kinds, TokenKinds, Braces
<1>5. v \in Seq(Kinds) /\ GoodRun(prev_kind, v) /\ NestedAll(opens, v) = opens
  BY <1>2, VirtualRun
<1>6. e \in Seq(Kinds) /\ NestedAll(opens, e) = <<>>
  BY <1>2, NestedEnd
<1>7. ASSUME NEW p
      PROVE  GoodRun(p, e)
  <2> DEFINE n == 2 * Len(frames)
  <2>1. n \in Nat /\ Len(e) = n
    BY <1>2 DEF EndClosers
  <2>2. \A i \in 1 .. n : e[i] = IF i % 2 = 1 THEN "VIRTUAL_RBRACE" ELSE "VIRTUAL_SEMI"
    BY DEF EndClosers
  <2> HIDE DEF e, n
  <2>3. ASSUME NEW i \in 1 .. n, e[i] = "VIRTUAL_SEMI"
        PROVE  should_emit_semicolon(IF i = 1 THEN p ELSE e[i - 1])
    <3>1. i % 2 # 1
      BY <2>2, <2>3
    <3>2. i # 1 /\ i - 1 \in 1 .. n /\ (i - 1) % 2 = 1
      BY <2>1, <3>1
    <3>3. e[i - 1] = "VIRTUAL_RBRACE"
      BY <2>2, <3>2
    <3> QED
      BY <3>2, <3>3 DEF should_emit_semicolon
  <2> QED
    BY <1>6, <2>1, <2>3 DEF GoodRun
<1> HIDE DEF v, e, k
<1>8. GoodRun(prev_kind, v \o e)
  BY <1>5, <1>7, GoodConcat
<1>9. v \o e \in Seq(Kinds) /\ NestedAll(opens, v \o e) = <<>>
  BY <1>2, <1>5, <1>6, NestedConcat
<1>10. ks = Append(v \o e, k)
  BY <1>4, <1>9, AppendIsConcat
<1>11. GoodRun(prev_kind, ks) /\ ks \in Seq(Kinds)
  BY <1>4, <1>8, <1>10, GoodAppend DEF GoodRun
<1>12. NestedAll(opens, ks) = <<>>
  <2>1. NestedAll(opens, ks) = Nested(<<>>, k)
    BY <1>2, <1>4, <1>9, <1>10, NestedAppend
  <2>2. <<>> \in Seq(Braces)
    OBVIOUS
  <2> QED
    BY <1>4, <2>1, <2>2, NestedBy
<1> HIDE DEF ks
<1>13. /\ emitted' \in Seq(Kinds) /\ before' \in Kinds /\ opens' = <<>> /\ NoEmptyStatement'
  BY <1>1, <1>3, <1>11, <1>12, EmitStep
<1>14. current' = Root
  <2>1. CASE frames = <<>>
    BY <1>1, <1>2, <2>1
  <2>2. CASE frames # <<>>
    <3>1. 1 \in 1 .. Len(frames)
      BY <1>2, <2>2, EmptySeq DEF LInv, LTypes
    <3>2. Head(frames) = frames[1]
      BY <2>2 DEF LInv, LTypes
    <3> QED
      BY <1>1, <1>2, <2>2, <3>1, <3>2
  <2> QED
    BY <2>1, <2>2
<1>15. Mirrors(opens', Append(frames', current'))
  BY <1>1, <1>13, <1>14 DEF Mirrors
<1>16. LTypes'
  <2>1. current' \in LFrame
    BY <1>14 DEF LFrame, Root
  <2>2. held' \in [kind : TokenKinds \cup {"none"}, col : Nat] /\ held'.kind = "none"
    BY <1>1 DEF NoToken
  <2>3. frames' \in Seq(LFrame) /\ opens' \in Seq(Braces)
    BY <1>1, <1>13
  <2>4. prev_kind' \in Kinds \cup {"done"} /\ newline_seen' \in BOOLEAN
    BY <1>1
  <2> QED
    BY <1>13, <2>1, <2>2, <2>3, <2>4 DEF LTypes
<1> QED
  BY <1>1, <1>13, <1>15, <1>16 DEF LInv, NoToken

\* A stuttering step.
LEMMA LayoutStutter ==
    ASSUME LInv, UNCHANGED layoutVars
    PROVE  LInv'
BY DEF layoutVars, LInv, LTypes, LastOut, NoEmptyStatement

\* Every rule keeps the invariant.
THEOREM LayoutInductive ==
    ASSUME LInv, [LayoutNext]_layoutVars
    PROVE  LInv'
BY PullStep, OpenBlockStep, CloseBlockStep, OpenBraceStep, CloseBraceStep, PlainStep,
   EndOfFileStep, LayoutStutter DEF LayoutNext

\* The braces and the frames it speaks of are the ones LayoutBalances names.
LEMMA LInvBalances == LInv => LayoutBalances
<1> SUFFICES ASSUME LInv
             PROVE  BlocksMirrorFrames
  BY DEF LayoutBalances, LInv
<1>1. Len(frames) = Len(opens) /\ Len(opens) \in Nat /\ opens \in Seq(Braces)
  BY AllFrames
<1>2. DOMAIN opens = 1 .. Len(opens)
  BY <1>1, LenProperties
<1>3. Mirrors(opens, Append(frames, current)) /\ (prev_kind = "done" => opens = <<>>)
  BY DEF LInv
<1> QED
  BY <1>1, <1>2, <1>3 DEF BlocksMirrorFrames, Mirrors, FrameOf

\* What layout_stream puts out is well nested whatever it reads: the braces
\* that stand open are its frames, brace for brace, nothing is open at the end
\* of the file, and no virtual semicolon makes an empty statement.
THEOREM LayoutCorrect == LayoutSpec => []LayoutBalances
<1>1. LInv /\ [LayoutNext]_layoutVars => LInv'
  BY LayoutInductive
<1> QED
  BY <1>1, LInitStep, LInvBalances, PTL DEF LayoutSpec

-----------------------------------------------------------------------------
(***************************************************************************)
(* The lexer.  What a scan does, from the smallest ones up; then the       *)
(* tokens and the lines it leaves behind.                                  *)
(***************************************************************************)

\* Min is the least of them.
LEMMA MinOf ==
    ASSUME NEW S, S \subseteq Nat, S # {}
    PROVE  Min(S) \in S /\ \A y \in S : Min(S) <= y
<1>1. \E x \in S : \A y \in S : x <= y
  BY LeastOf
<1> QED
  BY <1>1 DEF Min

\* Beyond the text there is nothing but the NUL.
LEMMA Inside ==
    ASSUME Len(source) \in Nat, NEW q \in Nat
    PROVE  /\ CharAt(q) # "NUL" => q < Len(source)
           /\ q >= Len(source) => CharAt(q) = "NUL"
BY DEF CharAt

\* The end of a scan over a class: the first position outside of it.
LEMMA ScanWhileEnds ==
    ASSUME Len(source) \in Nat, NEW class, "NUL" \notin class,
           NEW p \in 0 .. Len(source)
    PROVE  /\ ScanWhile(p, class) \in p .. Len(source)
           /\ CharAt(ScanWhile(p, class)) \notin class
           /\ \A q \in p .. ScanWhile(p, class) - 1 : CharAt(q) \in class
<1> DEFINE S == {q \in p .. Len(source) : CharAt(q) \notin class}
<1>1. Len(source) \in S
  BY Inside
<1>2. S \subseteq Nat /\ S # {}
  BY <1>1
<1>3. ScanWhile(p, class) = Min(S)
  BY DEF ScanWhile
<1>4. Min(S) \in S /\ \A y \in S : Min(S) <= y
  <2> HIDE DEF S
  <2> QED
    BY <1>2, MinOf
<1> DEFINE e == Min(S)
<1>5. e \in p .. Len(source) /\ CharAt(e) \notin class
  BY <1>4
<1>6. \A q \in p .. e - 1 : q \in p .. Len(source) /\ ~(e <= q)
  <2> HIDE DEF e
  <2> QED
    BY <1>5
<1>7. \A q \in p .. e - 1 : CharAt(q) \in class
  BY <1>4, <1>6
<1> QED
  BY <1>3, <1>5, <1>7

\* The end of a word.
LEMMA ScanWordEnds ==
    ASSUME Len(source) \in Nat, NEW p \in 0 .. Len(source)
    PROVE  /\ ScanWord(p) \in p .. Len(source) /\ ~ InWord(ScanWord(p))
           /\ \A q \in p .. ScanWord(p) - 1 : InWord(q)
<1> DEFINE S == {q \in p .. Len(source) : ~ InWord(q)}
<1>1. Len(source) \in S
  <2>1. CharAt(Len(source)) = "NUL"
    BY Inside
  <2>2. ~ InWord(Len(source))
    BY <2>1 DEF InWord, IdCont, IdStart, Digits
  <2> QED
    BY <2>2
<1>2. S \subseteq Nat /\ S # {}
  BY <1>1
<1>3. ScanWord(p) = Min(S)
  BY DEF ScanWord
<1>4. Min(S) \in S /\ \A y \in S : Min(S) <= y
  <2> HIDE DEF S
  <2> QED
    BY <1>2, MinOf
<1> DEFINE e == Min(S)
<1>5. e \in p .. Len(source) /\ ~ InWord(e)
  BY <1>4
<1>6. \A q \in p .. e - 1 : q \in p .. Len(source) /\ ~(e <= q)
  <2> HIDE DEF e
  <2> QED
    BY <1>5
<1>7. \A q \in p .. e - 1 : InWord(q)
  BY <1>4, <1>6
<1> QED
  BY <1>3, <1>5, <1>7

\* The characters that end a line, and those that stop a scan.
Breaks == {"NL", "CR"}
Stops  == Breaks \cup {"NUL"}

\* A scan that moves on within the text and takes no line break.
Clean(p, end) ==
    /\ end \in p + 1 .. Len(source)
    /\ \A r \in p .. end - 1 : CharAt(r) \notin Breaks

\* A word moves on and holds no line break.
LEMMA WordClean ==
    ASSUME Len(source) \in Nat, NEW p \in Nat, CharAt(p) \in IdStart
    PROVE  Clean(p, ScanWord(p))
<1>1. p < Len(source) /\ p \in 0 .. Len(source)
  <2>1. CharAt(p) # "NUL"
    BY DEF IdStart
  <2> QED
    BY <2>1, Inside
<1> DEFINE e == ScanWord(p)
<1>2. e \in p .. Len(source) /\ ~ InWord(e) /\ \A q \in p .. e - 1 : InWord(q)
  BY <1>1, ScanWordEnds
<1> HIDE DEF e
<1>3. InWord(p)
  BY DEF InWord, IdCont
<1>4. e \in p + 1 .. Len(source)
  BY <1>1, <1>2, <1>3
<1>5. \A r \in p .. e - 1 : CharAt(r) \notin Breaks
  BY <1>2 DEF InWord, IdCont, IdStart, Digits, Breaks
<1> QED
  BY <1>4, <1>5 DEF Clean, e

\* So does a label, from its colon on.
LEMMA LabelClean ==
    ASSUME Len(source) \in Nat, NEW p \in Nat,
           CharAt(p) \notin Breaks, CharAt(p + 1) \in IdStart
    PROVE  Clean(p, ScanWord(p + 1))
<1>1. p + 1 \in Nat
  OBVIOUS
<1> DEFINE e == ScanWord(p + 1)
<1>2. Clean(p + 1, e)
  BY <1>1, WordClean
<1> HIDE DEF e
<1>3. e \in p + 1 .. Len(source)
  BY <1>2 DEF Clean
<1>4. \A r \in p .. e - 1 : r = p \/ r \in p + 1 .. e - 1
  BY <1>3
<1> QED
  BY <1>2, <1>3, <1>4 DEF Clean, e

\* The steps clean scans are made of: one character,
LEMMA CleanOne ==
    ASSUME Len(source) \in Nat, NEW p \in Nat, CharAt(p) \notin Stops
    PROVE  Clean(p, p + 1)
<1>1. p < Len(source)
  BY Inside DEF Stops
<1>2. \A r \in p .. p + 1 - 1 : r = p
  OBVIOUS
<1> QED
  BY <1>1, <1>2 DEF Clean, Stops

\* one more,
LEMMA CleanNext ==
    ASSUME Len(source) \in Nat, NEW p \in Nat, NEW q, Clean(p, q), CharAt(q) \notin Stops
    PROVE  Clean(p, q + 1)
<1>1. q \in p + 1 .. Len(source) /\ q \in Nat
  BY DEF Clean
<1>2. q < Len(source)
  BY <1>1, Inside DEF Stops
<1>3. \A r \in p .. q + 1 - 1 : r = q \/ r \in p .. q - 1
  BY <1>1
<1>4. q + 1 \in p + 1 .. Len(source)
  BY <1>1, <1>2
<1> QED
  BY <1>3, <1>4 DEF Clean, Stops

\* A class that holds no line break is scanned on.
LEMMA CleanWhile ==
    ASSUME Len(source) \in Nat, NEW p \in Nat, NEW q, Clean(p, q),
           NEW class, class \cap Stops = {}
    PROVE  Clean(p, ScanWhile(q, class))
<1>1. q \in p + 1 .. Len(source) /\ q \in 0 .. Len(source)
  BY DEF Clean
<1> DEFINE e == ScanWhile(q, class)
<1>2. "NUL" \notin class
  BY DEF Stops
<1>3. e \in q .. Len(source) /\ \A r \in q .. e - 1 : CharAt(r) \in class
  BY <1>1, <1>2, ScanWhileEnds
<1> HIDE DEF e
<1>4. \A r \in p .. e - 1 : r \in p .. q - 1 \/ r \in q .. e - 1
  BY <1>1, <1>3
<1>5. \A r \in p .. e - 1 : CharAt(r) \notin Breaks
  <2>1. \A r \in p .. q - 1 : CharAt(r) \notin Breaks
    BY DEF Clean
  <2>2. \A r \in q .. e - 1 : CharAt(r) \notin Breaks
    BY <1>3 DEF Stops
  <2> QED
    BY <1>4, <2>1, <2>2
<1>6. e \in p + 1 .. Len(source)
  BY <1>1, <1>3
<1> QED
  BY <1>5, <1>6 DEF Clean, e

\* The same where the scan begins with the class.
LEMMA CleanFrom ==
    ASSUME Len(source) \in Nat, NEW p \in Nat,
           NEW class, class \cap Stops = {}, CharAt(p) \in class
    PROVE  Clean(p, ScanWhile(p, class))
<1>1. CharAt(p) # "NUL" /\ "NUL" \notin class
  BY DEF Stops
<1>2. p < Len(source) /\ p \in 0 .. Len(source)
  BY <1>1, Inside
<1> DEFINE e == ScanWhile(p, class)
<1>3. /\ e \in p .. Len(source) /\ CharAt(e) \notin class
      /\ \A r \in p .. e - 1 : CharAt(r) \in class
  BY <1>1, <1>2, ScanWhileEnds
<1> HIDE DEF e
<1>4. e # p
  BY <1>3
<1>5. e \in p + 1 .. Len(source)
  BY <1>2, <1>3, <1>4
<1>6. \A r \in p .. e - 1 : CharAt(r) \notin Breaks
  BY <1>3 DEF Stops
<1> QED
  BY <1>5, <1>6 DEF Clean, e

\* The digits of a number.
LEMMA CleanDecimals ==
    ASSUME Len(source) \in Nat, NEW p \in Nat, NEW q, Clean(p, q)
    PROVE  Clean(p, scan_decimal_digits(q))
<1>1. (Digits \cup {"_"}) \cap Stops = {}
  BY DEF Digits, Stops, Breaks
<1> QED
  BY <1>1, CleanWhile DEF scan_decimal_digits

\* The fraction.
LEMMA CleanFraction ==
    ASSUME Len(source) \in Nat, NEW p \in Nat, NEW q, Clean(p, q)
    PROVE  Clean(p, Fraction(q))
<1>1. CASE CharAt(q) = "." /\ CharAt(q + 1) \in Digits
  <2>1. CharAt(q) \notin Stops
    BY <1>1 DEF Stops, Breaks
  <2>2. Clean(p, q + 1)
    BY <2>1, CleanNext
  <2> QED
    BY <1>1, <2>2, CleanDecimals DEF Fraction
<1> QED
  BY <1>1 DEF Fraction

\* The exponent.
LEMMA CleanExponent ==
    ASSUME Len(source) \in Nat, NEW p \in Nat, NEW q, Clean(p, q)
    PROVE  Clean(p, Exponent(q))
<1> DEFINE look == IF CharAt(q + 1) \in {"+", "-"} THEN q + 2 ELSE q + 1
<1>1. CASE CharAt(q) = "e" /\ CharAt(look) \in Digits
  <2>1. CharAt(q) \notin Stops
    BY <1>1 DEF Stops, Breaks
  <2>2. Clean(p, q + 1) /\ q \in Nat
    <3>1. q \in Nat
      BY DEF Clean
    <3> QED
      BY <2>1, <3>1, CleanNext
  <2>3. CASE CharAt(q + 1) \in {"+", "-"}
    <3>1. CharAt(q + 1) \notin Stops /\ q + 1 + 1 = q + 2
      BY <2>2, <2>3 DEF Stops, Breaks
    <3>2. Clean(p, q + 2)
      BY <2>2, <3>1, CleanNext
    <3> QED
      BY <1>1, <2>3, <3>2, CleanDecimals DEF Exponent
  <2>4. CASE CharAt(q + 1) \notin {"+", "-"}
    BY <1>1, <2>2, <2>4, CleanDecimals DEF Exponent
  <2> QED
    BY <2>3, <2>4
<1> QED
  BY <1>1 DEF Exponent

\* A number, in any base, well-formed or not.
LEMMA NumberClean ==
    ASSUME Len(source) \in Nat, NEW p \in Nat, CharAt(p) \in Digits
    PROVE  Clean(p, lex_number(p).end)
<1>1. CharAt(p) \notin Stops
  BY DEF Digits, Stops, Breaks
<1>2. Clean(p, p + 1)
  BY <1>1, CleanOne
<1>3. CASE CharAt(p) = "0" /\ CharAt(p + 1) \in DOMAIN BaseDigits
  <2>1. CharAt(p + 1) \in {"x", "b", "o"}
    BY <1>3 DEF BaseDigits
  <2>2. CharAt(p + 1) \notin Stops /\ p + 1 + 1 = p + 2
    BY <2>1 DEF Stops, Breaks
  <2>3. Clean(p, p + 2)
    BY <1>2, <2>2, CleanNext
  <2> DEFINE class == BaseDigits[CharAt(p + 1)] \cup {"_"}
  <2>4. class \cap Stops = {}
    <3>1. BaseDigits["x"] = HexDigit /\ BaseDigits["b"] = {"0", "1"} /\ BaseDigits["o"] = {"0", "1", "7"}
      BY DEF BaseDigits
    <3> QED
      BY <2>1, <3>1 DEF HexDigit, Digits, Stops, Breaks
  <2> HIDE DEF class
  <2>5. Clean(p, ScanWhile(p + 2, class))
    BY <2>3, <2>4, CleanWhile
  <2>6. lex_number(p).end = ScanWhile(p + 2, class)
    BY <1>3 DEF lex_number, Token, class
  <2> QED
    BY <2>5, <2>6
<1>4. CASE ~(CharAt(p) = "0" /\ CharAt(p + 1) \in DOMAIN BaseDigits)
  <2>1. (Digits \cup {"_"}) \cap Stops = {}
    BY DEF Digits, Stops, Breaks
  <2>2. Clean(p, scan_decimal_digits(p))
    BY <2>1, CleanFrom DEF scan_decimal_digits
  <2>3. Clean(p, Exponent(Fraction(scan_decimal_digits(p))))
    BY <2>2, CleanFraction, CleanExponent
  <2>4. lex_number(p).end = Exponent(Fraction(scan_decimal_digits(p)))
    BY <1>4 DEF lex_number, Token
  <2> QED
    BY <2>3, <2>4
<1> QED
  BY <1>3, <1>4

\* A line comment stops before its line break.
LEMMA LineCommentClean ==
    ASSUME Len(source) \in Nat, NEW p \in Nat, CharAt(p) = "/", CharAt(p + 1) = "/"
    PROVE  Clean(p, lex_line_comment(p).end)
<1> DEFINE S == {q \in p + 2 .. Len(source) : CharAt(q) \in EndsLine}
<1>1. p + 1 < Len(source)
  BY Inside
<1>2. Len(source) \in S
  BY <1>1, Inside DEF EndsLine
<1>3. S \subseteq Nat /\ S # {}
  BY <1>2
<1>4. lex_line_comment(p).end = Min(S)
  BY DEF lex_line_comment, Token
<1>5. Min(S) \in S /\ \A y \in S : Min(S) <= y
  <2> HIDE DEF S
  <2> QED
    BY <1>3, MinOf
<1> DEFINE e == Min(S)
<1>6. e \in p + 2 .. Len(source)
  BY <1>5
<1>7. \A r \in p .. e - 1 : r = p \/ r = p + 1 \/ (r \in p + 2 .. Len(source) /\ ~(e <= r))
  <2> HIDE DEF e
  <2> QED
    BY <1>6
<1>8. \A r \in p .. e - 1 : CharAt(r) \notin Breaks
  BY <1>5, <1>7 DEF Breaks, EndsLine
<1>9. e \in p + 1 .. Len(source)
  <2> HIDE DEF e
  <2> QED
    BY <1>6
<1> QED
  BY <1>4, <1>8, <1>9 DEF Clean

\* An operator or a label.
LEMMA OperatorClean ==
    ASSUME Len(source) \in Nat, NEW p \in Nat, CharAt(p) \in Singles
    PROVE  Clean(p, lex_operator(p).end)
<1> DEFINE two == <<CharAt(p), CharAt(p + 1)>>
           range == two = <<".", ".">> /\ CharAt(p + 2) \in RangeEnd
<1>0. CharAt(p) \notin Stops
  <2>1. \A pair \in Pairs : pair[1] \notin Stops /\ Head(pair) = pair[1]
    BY DEF Pairs, Stops, Breaks
  <2>2. \A pair \in Pairs : Head(pair) \notin Stops
    BY <2>1
  <2>3. CharAt(p) \in {Head(pair) : pair \in Pairs} \/
          CharAt(p) \in {"(", ")", "[", "]", "{", "}", ";", ",", "@", "#", "?", "^"}
    BY DEF Singles
  <2> HIDE DEF two, range
  <2>4. CASE CharAt(p) \in {Head(pair) : pair \in Pairs}
    BY <2>2, <2>4
  <2>5. CASE CharAt(p) \notin {Head(pair) : pair \in Pairs}
    BY <2>3, <2>5 DEF Stops, Breaks
  <2> QED
    BY <2>4, <2>5
<1>1. Clean(p, p + 1)
  BY <1>0, CleanOne
<1>2. two \in Pairs => CharAt(p + 1) \notin Stops
  BY DEF Pairs, Stops, Breaks
<1>3. two \in Pairs => Clean(p, p + 2)
  <2>1. p + 1 + 1 = p + 2
    OBVIOUS
  <2> QED
    BY <1>1, <1>2, <2>1, CleanNext
<1>4. CASE range
  <2>1. two \in Pairs /\ CharAt(p + 2) \notin Stops /\ p + 2 + 1 = p + 3
    BY <1>4 DEF Pairs, RangeEnd, Stops, Breaks
  <2>2. Clean(p, p + 3)
    BY <1>3, <2>1, CleanNext
  <2>3. lex_operator(p).end = p + 3
    BY <1>4 DEF lex_operator, Token
  <2> QED
    BY <2>2, <2>3
<1>5. CASE two \in Pairs /\ ~ range
  <2>1. two[2] \notin IdStart
    BY <1>5 DEF Pairs, IdStart
  <2>2. lex_operator(p).end = p + 2
    BY <1>5, <2>1 DEF lex_operator, Token
  <2> QED
    BY <1>3, <1>5, <2>2
<1>6. CASE two \notin Pairs /\ two[1] = ":" /\ two[2] \in IdStart
  <2>1. CharAt(p) \notin Breaks /\ CharAt(p + 1) \in IdStart
    BY <1>6 DEF Breaks
  <2>2. ~ range
    BY <1>6 DEF Pairs
  <2>3. lex_operator(p).end = ScanWord(p + 1)
    BY <1>6, <2>2 DEF lex_operator, Token
  <2> QED
    BY <2>1, <2>3, LabelClean
<1>7. CASE two \notin Pairs /\ ~(two[1] = ":" /\ two[2] \in IdStart)
  <2>1. ~ range
    BY <1>7 DEF Pairs
  <2>2. lex_operator(p).end = p + 1
    BY <1>7, <2>1 DEF lex_operator, Token
  <2> QED
    BY <1>1, <2>2
<1> QED
  BY <1>4, <1>5, <1>6, <1>7

-----------------------------------------------------------------------------
\* An escape sequence ends within the text.
LEMMA EscapeInside ==
    ASSUME Len(source) \in Nat, NEW q \in Nat, CharAt(q) = "BACKSLASH"
    PROVE  EscapeEnd(q + 1) \in q + 1 .. Len(source)
<1>1. q < Len(source)
  BY Inside
<1>2. CharAt(q + 1) # "NUL" => q + 1 < Len(source)
  BY Inside
<1>3. CharAt(q + 2) # "NUL" => q + 2 < Len(source)
  BY Inside
<1>4. CharAt(q + 3) # "NUL" => q + 3 < Len(source)
  BY Inside
<1>5. "NUL" \notin HexDigit
  BY DEF HexDigit, Digits
<1>6. q + 1 + 1 = q + 2 /\ q + 1 + 2 = q + 3 /\ q + 1 + 3 = q + 4
  OBVIOUS
<1>7. EscapeEnd(q + 1) =
        IF CharAt(q + 1) = "NUL" THEN q + 1
        ELSE IF CharAt(q + 1) = "x"
             THEN IF CharAt(q + 2) \notin HexDigit THEN q + 2
                  ELSE IF CharAt(q + 3) \notin HexDigit THEN q + 3 ELSE q + 4
             ELSE q + 2
  BY <1>6 DEF EscapeEnd
<1> QED
  BY <1>1, <1>2, <1>3, <1>4, <1>5, <1>7

\* The equation of scan_quoted's loop.
QuotedStep(body, q, quote) ==
    CASE CharAt(q) = quote -> [closed |-> TRUE, end |-> q + 1]
      [] CharAt(q) # quote /\ CharAt(q) \in EndsLine -> [closed |-> FALSE, end |-> q]
      [] CharAt(q) = "BACKSLASH" -> body[EscapeEnd(q + 1)]
      [] OTHER -> body[q + 1]

\* It has a solution, which scan_quoted therefore is.
LEMMA QuotedRuns ==
    ASSUME Len(source) \in Nat, NEW p \in Nat, p < Len(source),
           NEW quote \in {"QUOTE", "TICK"}
    PROVE  \E body : /\ scan_quoted(p, quote) = body[p + 1]
                     /\ \A q \in p + 1 .. Len(source) + 1 :
                          body[q] = QuotedStep(body, q, quote)
<1> DEFINE N == Len(source)
           D == p + 1 .. N + 1
           T == [closed : BOOLEAN, end : Nat]
           rank == [q \in D |-> N + 1 - q]
           F == [f \in [D -> T] |-> [q \in D |-> QuotedStep(f, q, quote)]]
           Eq(f) == f = [q \in D |->
             CASE CharAt(q) = quote -> [closed |-> TRUE, end |-> q + 1]
               [] CharAt(q) # quote /\ CharAt(q) \in EndsLine -> [closed |-> FALSE, end |-> q]
               [] CharAt(q) = "BACKSLASH" -> f[EscapeEnd(q + 1)]
               [] OTHER -> f[q + 1]]
<1>1. ASSUME NEW q \in D
      PROVE  /\ q \in Nat /\ q + 1 \in Nat
             /\ CharAt(q) = "BACKSLASH" => EscapeEnd(q + 1) \in q + 1 .. N + 1
             /\ CharAt(q) \notin EndsLine => q + 1 \in q + 1 .. N + 1
  <2>1. q \in Nat /\ q \in p + 1 .. N + 1
    OBVIOUS
  <2>2. CharAt(q) = "BACKSLASH" => EscapeEnd(q + 1) \in q + 1 .. N
    BY <2>1, EscapeInside
  <2>3. CharAt(q) \notin EndsLine => q < N
    BY <2>1, Inside DEF EndsLine
  <2> HIDE DEF N
  <2>4. N \in Nat
    BY DEF N
  <2> QED
    BY <2>1, <2>2, <2>3, <2>4
<1>2. \A q \in D : \A r \in q + 1 .. N + 1 : r \in D /\ rank[r] < rank[q]
  <2> HIDE DEF N
  <2>1. N \in Nat
    BY DEF N
  <2> QED
    BY <2>1
<1>3. rank \in [D -> 0 .. N]
  <2> HIDE DEF N
  <2>1. N \in Nat
    BY DEF N
  <2> QED
    BY <2>1
<1>4. ASSUME NEW f \in [D -> T], NEW q \in D
      PROVE  QuotedStep(f, q, quote) \in T
  <2> HIDE DEF N, D
  <2>1. CASE CharAt(q) = quote
    BY <1>1, <2>1 DEF QuotedStep, EndsLine
  <2>2. CASE CharAt(q) # quote /\ CharAt(q) \in EndsLine
    BY <1>1, <2>2 DEF QuotedStep, EndsLine
  <2>3. CASE CharAt(q) # quote /\ CharAt(q) = "BACKSLASH"
    <3>1. EscapeEnd(q + 1) \in D
      BY <1>1, <1>2, <2>3
    <3>2. QuotedStep(f, q, quote) = f[EscapeEnd(q + 1)]
      BY <2>3 DEF QuotedStep, EndsLine
    <3> QED
      BY <3>1, <3>2
  <2>4. CASE CharAt(q) # quote /\ CharAt(q) \notin EndsLine /\ CharAt(q) # "BACKSLASH"
    <3>1. q + 1 \in D
      BY <1>1, <1>2, <2>4
    <3>2. QuotedStep(f, q, quote) = f[q + 1]
      BY <2>4 DEF QuotedStep
    <3> QED
      BY <3>1, <3>2
  <2> QED
    BY <2>1, <2>2, <2>3, <2>4
<1>5. ASSUME NEW f \in [D -> T], NEW g \in [D -> T], NEW q \in D,
             \A r \in D : rank[r] < rank[q] => f[r] = g[r]
      PROVE  QuotedStep(f, q, quote) = QuotedStep(g, q, quote)
  <2> HIDE DEF N, D, rank
  <2>1. \A r \in q + 1 .. N + 1 : f[r] = g[r]
    BY <1>2, <1>5
  <2>2. CASE CharAt(q) = quote
    BY <2>2 DEF QuotedStep, EndsLine
  <2>3. CASE CharAt(q) # quote /\ CharAt(q) \in EndsLine
    BY <2>3 DEF QuotedStep, EndsLine
  <2>4. CASE CharAt(q) # quote /\ CharAt(q) = "BACKSLASH"
    <3>1. f[EscapeEnd(q + 1)] = g[EscapeEnd(q + 1)]
      BY <1>1, <2>1, <2>4
    <3> QED
      BY <2>4, <3>1 DEF QuotedStep, EndsLine
  <2>5. CASE CharAt(q) # quote /\ CharAt(q) \notin EndsLine /\ CharAt(q) # "BACKSLASH"
    <3>1. f[q + 1] = g[q + 1]
      BY <1>1, <2>1, <2>5
    <3> QED
      BY <2>5, <3>1 DEF QuotedStep
  <2> QED
    BY <2>2, <2>3, <2>4, <2>5
<1>6. F \in [[D -> T] -> [D -> T]]
  <2> HIDE DEF D, T
  <2> QED
    BY <1>4
<1>7. \A f, g \in [D -> T] : \A x \in D :
        (\A y \in D : rank[y] < rank[x] => f[y] = g[y]) => F[f][x] = F[g][x]
  <2> HIDE DEF D, T, rank
  <2> QED
    BY <1>5
<1>8. PICK f \in [D -> T] : f = F[f]
  <2>1. T # {} /\ N \in Nat
    <3>1. [closed |-> TRUE, end |-> 0] \in T
      OBVIOUS
    <3> QED
      BY <3>1
  <2> HIDE DEF N, D, T, rank, F
  <2>2. Descends(N, D, T, rank, F)
    BY <1>3, <1>6, <1>7, <2>1 DEF Descends
  <2> QED
    BY <2>2, SolutionExists
<1>9. Eq(f)
  <2>1. F[f] = [q \in D |-> QuotedStep(f, q, quote)]
    <3> HIDE DEF D, T
    <3> QED
      OBVIOUS
  <2> HIDE DEF F, D
  <2> QED
    BY <1>8, <2>1 DEF QuotedStep
<1> DEFINE body == CHOOSE h : Eq(h)
<1>10. Eq(body)
  BY <1>9
<1>11. scan_quoted(p, quote) = body[p + 1]
  BY DEF scan_quoted
<1> HIDE DEF body
<1>12. \A q \in D : body[q] = QuotedStep(body, q, quote)
  <2> HIDE DEF D
  <2> QED
    BY <1>10 DEF QuotedStep
<1> QED
  BY <1>11, <1>12

\* A quoted literal moves on and ends within the text, closed or not.
LEMMA QuotedEnds ==
    ASSUME Len(source) \in Nat, NEW p \in Nat, CharAt(p) \in {"QUOTE", "TICK"}
    PROVE  scan_quoted(p, CharAt(p)).end \in p + 1 .. Len(source)
<1> DEFINE N == Len(source)
           quote == CharAt(p)
<1>1. p < N
  BY Inside
<1>2. PICK body : /\ scan_quoted(p, quote) = body[p + 1]
                  /\ \A q \in p + 1 .. N + 1 : body[q] = QuotedStep(body, q, quote)
  BY <1>1, QuotedRuns
\* From the end of the text backwards.
<1> DEFINE U == {n \in 0 .. N - (p + 1) : \A q \in N - n .. N : body[q].end \in q .. N}
<1>3. ASSUME NEW q \in p + 1 .. N,
             \A r \in q + 1 .. N : body[r].end \in r .. N
      PROVE  body[q].end \in q .. N
  <2>0. q \in p + 1 .. N + 1 /\ q \in Nat
    OBVIOUS
  <2>1. body[q] = QuotedStep(body, q, quote)
    BY <1>2, <2>0
  <2>2. CharAt(q) # "NUL" => q < N
    BY <2>0, Inside
  <2> HIDE DEF N
  <2>3. N \in Nat
    BY DEF N
  <2>4. CASE CharAt(q) = quote
    <3>1. body[q].end = q + 1
      BY <2>1, <2>4 DEF QuotedStep
    <3> QED
      BY <2>0, <2>2, <2>3, <2>4, <3>1
  <2>5. CASE CharAt(q) # quote /\ CharAt(q) \in EndsLine
    <3>1. body[q].end = q
      BY <2>1, <2>5 DEF QuotedStep, EndsLine
    <3> QED
      BY <2>3, <3>1
  <2>6. CASE CharAt(q) # quote /\ CharAt(q) = "BACKSLASH"
    <3>1. EscapeEnd(q + 1) \in q + 1 .. N
      BY <2>0, <2>6, EscapeInside DEF N
    <3>2. body[q] = body[EscapeEnd(q + 1)]
      BY <2>1, <2>6 DEF QuotedStep, EndsLine
    <3>3. body[EscapeEnd(q + 1)].end \in EscapeEnd(q + 1) .. N
      BY <1>3, <3>1
    <3> DEFINE s == EscapeEnd(q + 1)
    <3> HIDE DEF s
    <3>4. s \in q + 1 .. N /\ body[q].end \in s .. N
      BY <3>1, <3>2, <3>3 DEF s
    <3> QED
      BY <2>0, <2>3, <3>4
  <2>7. CASE CharAt(q) # quote /\ CharAt(q) \notin EndsLine /\ CharAt(q) # "BACKSLASH"
    <3>1. q + 1 \in q + 1 .. N
      BY <2>0, <2>2, <2>3, <2>7 DEF EndsLine
    <3>2. body[q] = body[q + 1]
      BY <2>1, <2>7 DEF QuotedStep
    <3>3. body[q].end \in q + 1 .. N
      BY <1>3, <3>1, <3>2
    <3> QED
      BY <2>0, <2>3, <3>3
  <2> QED
    BY <2>4, <2>5, <2>6, <2>7
<1>4. 0 \in U
  <2> HIDE DEF N
  <2>1. N \in Nat /\ 0 \in 0 .. N - (p + 1) /\ N \in p + 1 .. N
    BY <1>1 DEF N
  <2>2. \A r \in N + 1 .. N : body[r].end \in r .. N
    BY <2>1
  <2>3. body[N].end \in N .. N
    BY <1>3, <2>1, <2>2
  <2>4. \A q \in N - 0 .. N : q = N
    BY <2>1
  <2> QED
    BY <2>1, <2>3, <2>4
<1>5. ASSUME NEW n \in 0 .. N - (p + 1) - 1, n \in U
      PROVE  n + 1 \in U
  <2> HIDE DEF N
  <2>1. N \in Nat
    BY DEF N
  <2> DEFINE k == N - (n + 1)
  <2>2. k \in p + 1 .. N /\ n + 1 \in 0 .. N - (p + 1) /\ k + 1 = N - n
    BY <1>1, <2>1
  <2>3. \A r \in k + 1 .. N : body[r].end \in r .. N
    BY <1>5, <2>2
  <2>4. \A q \in k .. N : q = k \/ q \in k + 1 .. N
    BY <2>1, <2>2
  <2>5. body[k].end \in k .. N
    <3> HIDE DEF k
    <3> QED
      BY <1>3, <2>2, <2>3
  <2> QED
    BY <2>2, <2>3, <2>4, <2>5
<1>6. \A q \in p + 1 .. N : body[q].end \in q .. N
  <2> DEFINE M == N - (p + 1)
  <2>1. M \in Nat /\ M \in 0 .. M /\ N - M = p + 1
    BY <1>1
  <2> HIDE DEF U
  <2>2. \A n \in 0 .. M - 1 : n \in U => n + 1 \in U
    BY <1>5
  <2> HIDE DEF M
  <2>3. 0 .. M \subseteq U
    BY <1>4, <2>1, <2>2, IntervalInduction
  <2>4. M \in U
    BY <2>1, <2>3
  <2> QED
    BY <2>1, <2>4 DEF U
<1>7. p + 1 \in p + 1 .. N
  BY <1>1
<1> QED
  BY <1>2, <1>6, <1>7

-----------------------------------------------------------------------------
\* The equation of the loop of lex_block_comment.
BlockStep(body, q, depth) ==
    CASE depth = 0 -> Token("COMMENT", q)
      [] depth > 0 /\ CharAt(q) = "NUL" -> Token("LEX_ERROR", q)
      [] depth > 0 /\ <<CharAt(q), CharAt(q + 1)>> = <<"/", "*">> -> body[<<q + 2, depth + 1>>]
      [] depth > 0 /\ <<CharAt(q), CharAt(q + 1)>> = <<"*", "/">> -> body[<<q + 2, depth - 1>>]
      [] OTHER -> body[<<q + 1, depth>>]

\* A comment opens, or closes, at q.
Opening(q) == CharAt(q) = "/" /\ CharAt(q + 1) = "*"
Closing(q) == CharAt(q) = "*" /\ CharAt(q + 1) = "/"

\* The cases of the equation one by one.
LEMMA BlockCases ==
    ASSUME NEW body, NEW q \in Nat, NEW depth \in Nat
    PROVE  BlockStep(body, q, depth) =
             IF depth = 0 THEN Token("COMMENT", q)
             ELSE IF CharAt(q) = "NUL" THEN Token("LEX_ERROR", q)
             ELSE IF Opening(q) THEN body[<<q + 2, depth + 1>>]
             ELSE IF Closing(q) THEN body[<<q + 2, depth - 1>>]
             ELSE body[<<q + 1, depth>>]
<1>1. CASE depth = 0
  BY <1>1 DEF BlockStep
<1>2. CASE depth # 0
  BY <1>2 DEF BlockStep, Opening, Closing
<1> QED
  BY <1>1, <1>2

\* It has a solution.
LEMMA BlockRuns ==
    ASSUME Len(source) \in Nat, NEW p \in Nat
    PROVE  \E body : /\ lex_block_comment(p) = body[<<p + 2, 1>>]
                     /\ \A q \in p + 2 .. Len(source) + 1 : \A depth \in Nat :
                          body[<<q, depth>>] = BlockStep(body, q, depth)
<1> DEFINE N == Len(source)
           E == p + 2 .. N + 1
           Eq(f) == f = [at \in E \X Nat |->
             CASE at[2] = 0 -> Token("COMMENT", at[1])
               [] at[2] > 0 /\ CharAt(at[1]) = "NUL" -> Token("LEX_ERROR", at[1])
               [] at[2] > 0 /\ <<CharAt(at[1]), CharAt(at[1] + 1)>> = <<"/", "*">> ->
                    f[<<at[1] + 2, at[2] + 1>>]
               [] at[2] > 0 /\ <<CharAt(at[1]), CharAt(at[1] + 1)>> = <<"*", "/">> ->
                    f[<<at[1] + 2, at[2] - 1>>]
               [] OTHER -> f[<<at[1] + 1, at[2]>>]]
           D == E \X Nat
           T == [kind : {"COMMENT", "LEX_ERROR"}, end : Nat]
           rank == [at \in D |-> N + 1 - at[1]]
           F == [f \in [D -> T] |-> [at \in D |-> BlockStep(f, at[1], at[2])]]
<1>1. ASSUME NEW q \in E
      PROVE  /\ q \in Nat /\ q + 1 \in Nat
             /\ CharAt(q) # "NUL" => q + 1 \in E
             /\ CharAt(q + 1) # "NUL" => q + 2 \in E
  <2>1. q \in Nat /\ q + 1 \in Nat
    OBVIOUS
  <2>2. (CharAt(q) # "NUL" => q < N) /\ (CharAt(q + 1) # "NUL" => q + 1 < N)
    BY <2>1, Inside
  <2> HIDE DEF N
  <2>3. N \in Nat
    BY DEF N
  <2> QED
    BY <2>1, <2>2, <2>3
<1>2. /\ rank \in [D -> 0 .. N]
      /\ \A at, to \in D : to[1] > at[1] => rank[to] < rank[at]
  <2> HIDE DEF N
  <2>1. N \in Nat
    BY DEF N
  <2>2. \A at \in D : at[1] \in p + 2 .. N + 1
    OBVIOUS
  <2> HIDE DEF D
  <2> QED
    BY <2>1, <2>2
\* Where the loop goes on, it is further along.
<1>3. ASSUME NEW q \in E, NEW depth \in Nat, depth # 0, CharAt(q) # "NUL"
      PROVE  /\ Opening(q) => <<q + 2, depth + 1>> \in D
             /\ Closing(q) => <<q + 2, depth - 1>> \in D
             /\ <<q + 1, depth>> \in D
  <2>1. Opening(q) \/ Closing(q) => q + 2 \in E
    BY <1>1 DEF Opening, Closing
  <2>2. q + 1 \in E /\ depth + 1 \in Nat /\ depth - 1 \in Nat
    BY <1>1, <1>3
  <2> HIDE DEF E
  <2> QED
    BY <2>1, <2>2
<1>4. ASSUME NEW f \in [D -> T], NEW q \in E, NEW depth \in Nat
      PROVE  BlockStep(f, q, depth) \in T
  <2>1. BlockStep(f, q, depth) =
             IF depth = 0 THEN Token("COMMENT", q)
             ELSE IF CharAt(q) = "NUL" THEN Token("LEX_ERROR", q)
             ELSE IF Opening(q) THEN f[<<q + 2, depth + 1>>]
             ELSE IF Closing(q) THEN f[<<q + 2, depth - 1>>]
             ELSE f[<<q + 1, depth>>]
    BY <1>1, BlockCases
  <2>2. Token("COMMENT", q) \in T /\ Token("LEX_ERROR", q) \in T
    BY <1>1 DEF Token
  <2> HIDE DEF D, E, T
  <2> QED
    BY <1>3, <2>1, <2>2
<1>5. ASSUME NEW f \in [D -> T], NEW g \in [D -> T], NEW q \in E, NEW depth \in Nat,
             \A to \in D : rank[to] < rank[<<q, depth>>] => f[to] = g[to]
      PROVE  BlockStep(f, q, depth) = BlockStep(g, q, depth)
  <2>1. \A h \in {f, g} : BlockStep(h, q, depth) =
             IF depth = 0 THEN Token("COMMENT", q)
             ELSE IF CharAt(q) = "NUL" THEN Token("LEX_ERROR", q)
             ELSE IF Opening(q) THEN h[<<q + 2, depth + 1>>]
             ELSE IF Closing(q) THEN h[<<q + 2, depth - 1>>]
             ELSE h[<<q + 1, depth>>]
    BY <1>1, BlockCases
  <2>2. /\ <<q, depth>> \in D /\ q + 1 > q /\ q + 2 > q /\ q \in Nat
    BY <1>1
  <2>3. \A to \in D : to[1] > q => f[to] = g[to]
    <3> HIDE DEF D, rank
    <3>1. <<q, depth>>[1] = q
      OBVIOUS
    <3> QED
      BY <1>2, <1>5, <2>2, <3>1
  <2> HIDE DEF D, E, T, rank
  <2>4. CASE depth = 0 \/ CharAt(q) = "NUL"
    BY <2>1, <2>4
  <2>5. CASE depth # 0 /\ CharAt(q) # "NUL"
    <3>1. /\ Opening(q) => f[<<q + 2, depth + 1>>] = g[<<q + 2, depth + 1>>]
          /\ Closing(q) => f[<<q + 2, depth - 1>>] = g[<<q + 2, depth - 1>>]
          /\ f[<<q + 1, depth>>] = g[<<q + 1, depth>>]
      BY <1>3, <2>2, <2>3, <2>5
    <3> QED
      BY <2>1, <2>5, <3>1
  <2> QED
    BY <2>4, <2>5
<1>6. F \in [[D -> T] -> [D -> T]]
  <2>1. \A f \in [D -> T] : \A at \in D : BlockStep(f, at[1], at[2]) \in T
    <3>1. \A at \in D : at[1] \in E /\ at[2] \in Nat
      OBVIOUS
    <3> HIDE DEF D, E, T
    <3> QED
      BY <1>4, <3>1
  <2> HIDE DEF D, T
  <2> QED
    BY <2>1
<1>7. \A f, g \in [D -> T] : \A x \in D :
        (\A y \in D : rank[y] < rank[x] => f[y] = g[y]) => F[f][x] = F[g][x]
  <2>1. ASSUME NEW f \in [D -> T], NEW g \in [D -> T], NEW x \in D,
               \A y \in D : rank[y] < rank[x] => f[y] = g[y]
        PROVE  F[f][x] = F[g][x]
    <3>1. x[1] \in E /\ x[2] \in Nat /\ x = <<x[1], x[2]>>
      OBVIOUS
    <3> HIDE DEF D, E, T, rank
    <3>2. \A y \in D : rank[y] < rank[<<x[1], x[2]>>] => f[y] = g[y]
      BY <2>1, <3>1
    <3>3. BlockStep(f, x[1], x[2]) = BlockStep(g, x[1], x[2])
      BY <1>5, <3>1, <3>2
    <3>4. F[f] = [at \in D |-> BlockStep(f, at[1], at[2])] /\ F[g] = [at \in D |-> BlockStep(g, at[1], at[2])]
      OBVIOUS
    <3> HIDE DEF F
    <3> QED
      BY <3>3, <3>4
  <2> HIDE DEF D, T, rank, F
  <2> QED
    BY <2>1
<1>8. PICK f \in [D -> T] : f = F[f]
  <2>1. T # {} /\ N \in Nat
    <3>1. [kind |-> "COMMENT", end |-> 0] \in T
      OBVIOUS
    <3> QED
      BY <3>1
  <2> HIDE DEF N, D, T, rank, F
  <2>2. Descends(N, D, T, rank, F)
    BY <1>2, <1>6, <1>7, <2>1 DEF Descends
  <2> QED
    BY <2>2, SolutionExists
<1>9. Eq(f)
  <2>1. F[f] = [at \in D |-> BlockStep(f, at[1], at[2])]
    <3> HIDE DEF D, T
    <3> QED
      OBVIOUS
  <2> HIDE DEF F, E
  <2> QED
    BY <1>8, <2>1 DEF BlockStep
<1> DEFINE body == CHOOSE h : Eq(h)
<1>10. Eq(body)
  BY <1>9
<1>11. lex_block_comment(p) = body[<<p + 2, 1>>]
  BY DEF lex_block_comment
<1>12. \A at \in D : body[at] = BlockStep(body, at[1], at[2])
  <2> HIDE DEF E, body
  <2> QED
    BY <1>10 DEF BlockStep
<1> HIDE DEF body
<1>13. ASSUME NEW q \in E, NEW depth \in Nat
       PROVE  body[<<q, depth>>] = BlockStep(body, q, depth)
  <2>1. <<q, depth>> \in D /\ <<q, depth>>[1] = q /\ <<q, depth>>[2] = depth
    OBVIOUS
  <2> HIDE DEF D, E
  <2> QED
    BY <1>12, <2>1
<1> QED
  BY <1>11, <1>13

\* A scan over several lines moves on, and does not stop within a CRLF.
Sealed(p, end) ==
    /\ end \in p + 1 .. Len(source)
    /\ CharAt(end - 1) = "CR" => CharAt(end) # "NL"

\* A block comment ends after the slash that closes it, or at the end.
LEMMA BlockEnds ==
    ASSUME Len(source) \in Nat, NEW p \in Nat, Opening(p)
    PROVE  Sealed(p, lex_block_comment(p).end)
<1> DEFINE N == Len(source)
<1>1. p + 1 < N
  <2>1. CharAt(p + 1) # "NUL"
    BY DEF Opening
  <2> QED
    BY <2>1, Inside
<1>2. PICK body : /\ lex_block_comment(p) = body[<<p + 2, 1>>]
                  /\ \A q \in p + 2 .. N + 1 : \A depth \in Nat :
                       body[<<q, depth>>] = BlockStep(body, q, depth)
  BY BlockRuns
<1> DEFINE Ends(q, end) == end \in q .. N /\ (CharAt(end - 1) = "/" \/ CharAt(end) = "NUL")
           Good(q) == \A depth \in Nat :
             (depth = 0 => CharAt(q - 1) = "/") => Ends(q, body[<<q, depth>>].end)
           U == {n \in 0 .. N - (p + 2) : \A q \in N - n .. N : Good(q)}
<1>3. ASSUME NEW q \in p + 2 .. N, \A r \in q + 1 .. N : Good(r)
      PROVE  Good(q)
  <2> SUFFICES ASSUME NEW depth \in Nat, depth = 0 => CharAt(q - 1) = "/"
               PROVE  Ends(q, body[<<q, depth>>].end)
    OBVIOUS
  <2>0. q \in p + 2 .. N + 1 /\ q \in Nat /\ q + 1 \in Nat
    OBVIOUS
  <2>1. body[<<q, depth>>] =
             IF depth = 0 THEN Token("COMMENT", q)
             ELSE IF CharAt(q) = "NUL" THEN Token("LEX_ERROR", q)
             ELSE IF Opening(q) THEN body[<<q + 2, depth + 1>>]
             ELSE IF Closing(q) THEN body[<<q + 2, depth - 1>>]
             ELSE body[<<q + 1, depth>>]
    <3>1. body[<<q, depth>>] = BlockStep(body, q, depth)
      BY <1>2, <2>0
    <3> HIDE DEF N, Ends, Good
    <3> QED
      BY <2>0, <3>1, BlockCases
  <2>2. (CharAt(q) # "NUL" => q < N) /\ (CharAt(q + 1) # "NUL" => q + 1 < N)
    BY <2>0, Inside
  <2> HIDE DEF N
  <2>3. N \in Nat
    BY DEF N
  <2>4. \A r \in q + 1 .. N : \A end : Ends(r, end) => Ends(q, end)
    BY <2>0, <2>3
  <2>5. CASE depth = 0
    <3>1. body[<<q, depth>>].end = q
      BY <2>1, <2>5 DEF Token
    <3>2. q \in q .. N
      BY <2>3
    <3> QED
      BY <2>5, <3>1, <3>2
  <2>6. CASE depth # 0 /\ CharAt(q) = "NUL"
    <3>1. body[<<q, depth>>].end = q
      BY <2>1, <2>6 DEF Token
    <3>2. q \in q .. N
      BY <2>3
    <3> QED
      BY <2>6, <3>1, <3>2
  <2>7. CASE depth # 0 /\ Opening(q)
    <3>1. q + 2 \in q + 1 .. N /\ depth + 1 \in Nat /\ depth + 1 # 0
      BY <2>0, <2>2, <2>3, <2>7 DEF Opening
    <3>2. Ends(q + 2, body[<<q + 2, depth + 1>>].end)
      <4> HIDE DEF Ends
      <4> QED
        BY <1>3, <3>1
    <3>3. body[<<q, depth>>] = body[<<q + 2, depth + 1>>]
      BY <2>1, <2>7 DEF Opening
    <3> HIDE DEF Ends
    <3> QED
      BY <2>4, <3>1, <3>2, <3>3
  <2>8. CASE depth # 0 /\ Closing(q)
    <3>1. q + 2 \in q + 1 .. N /\ depth - 1 \in Nat /\ q + 2 - 1 = q + 1 /\ CharAt(q + 1) = "/"
      BY <2>0, <2>2, <2>3, <2>8 DEF Closing
    <3>2. Ends(q + 2, body[<<q + 2, depth - 1>>].end)
      <4> HIDE DEF Ends
      <4> QED
        BY <1>3, <3>1
    <3>3. body[<<q, depth>>] = body[<<q + 2, depth - 1>>]
      BY <2>1, <2>8 DEF Closing, Opening
    <3> HIDE DEF Ends
    <3> QED
      BY <2>4, <3>1, <3>2, <3>3
  <2>9. CASE depth # 0 /\ CharAt(q) # "NUL" /\ ~ Opening(q) /\ ~ Closing(q)
    <3>1. q + 1 \in q + 1 .. N
      BY <2>0, <2>2, <2>3, <2>9
    <3>2. Ends(q + 1, body[<<q + 1, depth>>].end)
      <4> HIDE DEF Ends
      <4> QED
        BY <1>3, <2>9, <3>1
    <3>3. body[<<q, depth>>] = body[<<q + 1, depth>>]
      BY <2>1, <2>9
    <3> HIDE DEF Ends
    <3> QED
      BY <2>4, <3>1, <3>2, <3>3
  <2> QED
    BY <2>5, <2>6, <2>7, <2>8, <2>9
<1> HIDE DEF Good
<1>4. 0 \in U
  <2> HIDE DEF N
  <2>1. N \in Nat /\ 0 \in 0 .. N - (p + 2) /\ N \in p + 2 .. N
    BY <1>1 DEF N
  <2>2. \A r \in N + 1 .. N : Good(r)
    BY <2>1
  <2>3. Good(N)
    BY <1>3, <2>1, <2>2
  <2>4. \A q \in N - 0 .. N : q = N
    BY <2>1
  <2> QED
    BY <2>1, <2>3, <2>4
<1>5. ASSUME NEW n \in 0 .. N - (p + 2) - 1, n \in U
      PROVE  n + 1 \in U
  <2> HIDE DEF N
  <2>1. N \in Nat
    BY DEF N
  <2> DEFINE k == N - (n + 1)
  <2>2. k \in p + 2 .. N /\ n + 1 \in 0 .. N - (p + 2) /\ k + 1 = N - n
    BY <1>1, <2>1
  <2>3. \A r \in k + 1 .. N : Good(r)
    BY <1>5, <2>2
  <2>4. \A q \in k .. N : q = k \/ q \in k + 1 .. N
    BY <2>1, <2>2
  <2>5. Good(k)
    <3> HIDE DEF k
    <3> QED
      BY <1>3, <2>2, <2>3
  <2> QED
    BY <2>2, <2>3, <2>4, <2>5
<1>6. Good(p + 2)
  <2> DEFINE M == N - (p + 2)
  <2>1. M \in Nat /\ M \in 0 .. M /\ N - M = p + 2 /\ p + 2 \in p + 2 .. N
    BY <1>1
  <2> HIDE DEF U
  <2>2. \A n \in 0 .. M - 1 : n \in U => n + 1 \in U
    BY <1>5
  <2> HIDE DEF M
  <2>3. 0 .. M \subseteq U
    BY <1>4, <2>1, <2>2, IntervalInduction
  <2>4. M \in U
    BY <2>1, <2>3
  <2> QED
    BY <2>1, <2>4 DEF U
<1> DEFINE e == lex_block_comment(p).end
<1>7. Ends(p + 2, e)
  BY <1>2, <1>6 DEF Good
<1> HIDE DEF e
<1>8. e \in p + 1 .. Len(source)
  BY <1>7
<1>9. CharAt(e - 1) = "CR" => CharAt(e) # "NL"
  BY <1>7
<1> QED
  BY <1>8, <1>9 DEF Sealed, e

\* An asm block ends after its fence, or at the end.
LEMMA AsmEnds ==
    ASSUME Len(source) \in Nat, NEW p \in Nat, Fence(p)
    PROVE  Sealed(p, lex_asm_lit(p).end)
<1> DEFINE S == {q \in p + 3 .. Len(source) : CharAt(q) = "NUL" \/ Fence(q)}
           e == Min(S)
<1>0. \A q \in Nat : Fence(q) => CharAt(q + 2) = "GRAVE" /\ q + 2 < Len(source)
  <2> TAKE q \in Nat
  <2>1. Fence(q) => CharAt(q + 2) = "GRAVE"
    BY DEF Fence
  <2>2. CharAt(q + 2) # "NUL" => q + 2 < Len(source)
    BY Inside
  <2> QED
    BY <2>1, <2>2
<1>1. Len(source) \in S
  <2>1. p + 2 < Len(source)
    BY <1>0
  <2>2. CharAt(Len(source)) = "NUL"
    BY Inside
  <2> QED
    BY <2>1, <2>2
<1>2. S \subseteq Nat /\ S # {}
  BY <1>1
<1>3. e \in S
  <2> HIDE DEF S
  <2> QED
    BY <1>2, MinOf
<1>4. e \in p + 3 .. Len(source) /\ e \in Nat /\ (CharAt(e) = "NUL" \/ Fence(e))
  BY <1>3
<1>5. lex_asm_lit(p).end = IF Fence(e) THEN e + 3 ELSE e
  BY DEF lex_asm_lit, Token
<1> HIDE DEF e
<1>6. CASE Fence(e)
  <2>1. CharAt(e + 2) = "GRAVE" /\ e + 2 < Len(source) /\ e + 3 - 1 = e + 2
    BY <1>0, <1>4, <1>6
  <2>2. e + 3 \in p + 1 .. Len(source)
    BY <1>4, <2>1
  <2>4. lex_asm_lit(p).end = e + 3
    BY <1>5, <1>6
  <2> DEFINE z == e + 3
  <2>5. z \in p + 1 .. Len(source)
    BY <2>2
  <2>6. z - 1 = e + 2
    BY <1>4
  <2>7. lex_asm_lit(p).end = z
    BY <2>4
  <2> HIDE DEF z
  <2>8. CharAt(z - 1) # "CR"
    BY <2>1, <2>6
  <2> QED
    BY <2>5, <2>7, <2>8 DEF Sealed
<1>7. CASE ~ Fence(e)
  <2>1. e \in p + 1 .. Len(source) /\ CharAt(e) = "NUL"
    BY <1>4, <1>7
  <2> QED
    BY <1>5, <1>7, <2>1 DEF Sealed
<1> QED
  BY <1>6, <1>7

-----------------------------------------------------------------------------
\* A quoted literal begins here.
IsQuote(c) == c \in {"QUOTE", "TICK"}

\* What a scan does, whatever stands at p.
ScanOK(p, end) ==
    /\ end \in p + 1 .. Len(source)
    /\ Multiline(p) => (CharAt(end - 1) = "CR" => CharAt(end) # "NL")
    /\ ~ Multiline(p) /\ ~ IsQuote(CharAt(p)) =>
         \A r \in p .. end - 1 : CharAt(r) \notin Breaks

\* The two kinds of scans that were shown above.
LEMMA CleanOK ==
    ASSUME Len(source) \in Nat, NEW p \in Nat, NEW end, Clean(p, end), ~ Multiline(p)
    PROVE  ScanOK(p, end)
BY DEF Clean, ScanOK

\* A scan over several lines.
LEMMA SealedOK ==
    ASSUME Len(source) \in Nat, NEW p \in Nat, NEW end, Sealed(p, end), Multiline(p)
    PROVE  ScanOK(p, end)
BY DEF Sealed, ScanOK

\* A line break is taken whole.
LEMMA NewlineEnds ==
    ASSUME Len(source) \in Nat, NEW p \in Nat, CharAt(p) \in {"NL", "CR"}
    PROVE  Sealed(p, AfterNewline(p))
<1>1. p < Len(source)
  BY Inside
<1>2. CharAt(p + 1) # "NUL" => p + 1 < Len(source)
  BY Inside
<1>3. CASE CharAt(p) = "CR" /\ CharAt(p + 1) = "NL"
  <2>1. AfterNewline(p) = p + 2 /\ p + 2 - 1 = p + 1 /\ p + 2 \in p + 1 .. Len(source)
    BY <1>2, <1>3 DEF AfterNewline
  <2>2. CharAt(p + 2 - 1) # "CR"
    BY <1>3, <2>1
  <2> QED
    BY <2>1, <2>2 DEF Sealed
<1>4. CASE ~(CharAt(p) = "CR" /\ CharAt(p + 1) = "NL")
  <2>1. AfterNewline(p) = p + 1 /\ p + 1 - 1 = p /\ p + 1 \in p + 1 .. Len(source)
    BY <1>1, <1>4 DEF AfterNewline
  <2>2. CharAt(p + 1 - 1) = "CR" => CharAt(p + 1) # "NL"
    BY <1>4, <2>1
  <2> QED
    BY <2>1, <2>2 DEF Sealed
<1> QED
  BY <1>3, <1>4

\* A fence begins with a grave.
LEMMA FenceFirst ==
    ASSUME NEW p \in Nat, Fence(p)
    PROVE  CharAt(p) = "GRAVE"
<1>1. p + 0 = p /\ 0 \in 0 .. 2
  OBVIOUS
<1> QED
  BY <1>1 DEF Fence

\* The end of a token.
LEMMA TokenEnd ==
    ASSUME NEW kind, NEW end
    PROVE  Token(kind, end).end = end
BY DEF Token

\* The characters operators begin with.
OpChars == {"+", "-", "*", "=", "<", ">", ":", "/", ".", "~", "%", "&", "|", "!",
            "(", ")", "[", "]", "{", "}", ";", ",", "@", "#", "?", "^"}

\* They are these.
LEMMA SinglesAre == Singles \subseteq OpChars
<1>1. \A pair \in Pairs : pair[1] \in OpChars /\ Head(pair) = pair[1]
  <2>1. \A pair \in Pairs : Head(pair) = pair[1]
    BY DEF Pairs
  <2>2. \A pair \in Pairs : pair[1] \in
          {"+", "-", "*", "=", "<", ">", ":", "/", ".", "~", "%", "&", "|", "!"}
    BY SMTT(30) DEF Pairs
  <2>3. {"+", "-", "*", "=", "<", ">", ":", "/", ".", "~", "%", "&", "|", "!"} \subseteq OpChars
    BY DEF OpChars
  <2> QED
    BY <2>1, <2>2, <2>3
<1>2. {Head(pair) : pair \in Pairs} \subseteq OpChars
  BY <1>1
<1> DEFINE A == {Head(pair) : pair \in Pairs}
           B == {"(", ")", "[", "]", "{", "}", ";", ",", "@", "#", "?", "^"}
<1>3. B \subseteq OpChars
  BY DEF OpChars
<1>4. Singles = A \cup B
  BY DEF Singles
<1> HIDE DEF A, B
<1> QED
  BY <1>2, <1>3, <1>4 DEF A

\* Every scan moves on and stays within the text.
LEMMA ScanOneOK ==
    ASSUME Len(source) \in Nat, NEW p \in Nat, p < Len(source)
    PROVE  ScanOK(p, scan_one(p).end)
<1> DEFINE c == CharAt(p)
           d == CharAt(p + 1)
<1>0. /\ Fence(p) => c = "GRAVE"
      /\ Singles \subseteq OpChars
  BY FenceFirst, SinglesAre
<1>1. CASE c \in Digits
  <2>1. /\ c \notin IdStart /\ c # " " /\ c \notin {"NL", "CR"} /\ c \notin {"QUOTE", "TICK"}
        /\ c # "GRAVE" /\ c # "/" /\ c \notin OpChars
    BY <1>1 DEF Digits, IdStart, OpChars
  <2>2. ~ Multiline(p)
    BY <1>0, <2>1 DEF Multiline
  <2>3. scan_one(p) = lex_number(p)
    BY <1>0, <1>1, <2>1 DEF scan_one
  <2> QED
    BY <1>1, <2>2, <2>3, NumberClean, CleanOK
<1>2. CASE c \in IdStart
  <2>1. /\ c \notin Digits /\ c # " " /\ c \notin {"NL", "CR"} /\ c \notin {"QUOTE", "TICK"}
        /\ c # "GRAVE" /\ c # "/" /\ c \notin OpChars
    BY <1>2 DEF Digits, IdStart, OpChars
  <2>2. ~ Multiline(p)
    BY <1>0, <2>1 DEF Multiline
  <2>3. scan_one(p) = lex_identifier_or_keyword(p)
    BY <1>0, <1>2, <2>1 DEF scan_one
  <2>4. scan_one(p).end = ScanWord(p)
    BY <2>3, TokenEnd DEF lex_identifier_or_keyword
  <2> QED
    BY <1>2, <2>2, <2>4, WordClean, CleanOK
<1>3. CASE c = " "
  <2>1. /\ c \notin Digits /\ c \notin IdStart /\ c \notin OpChars /\ c # "GRAVE"
    BY <1>3 DEF Digits, IdStart, OpChars
  <2>2. ~ Multiline(p)
    BY <1>0, <1>3 DEF Multiline
  <2>3. scan_one(p) = Token("WHITESPACE", ScanWhile(p, {" "}))
    BY <1>0, <1>3, <2>1 DEF scan_one
  <2>4. Clean(p, ScanWhile(p, {" "}))
    <3>1. {" "} \cap Stops = {}
      BY DEF Stops, Breaks
    <3> QED
      BY <1>3, <3>1, CleanFrom
  <2>5. scan_one(p).end = ScanWhile(p, {" "})
    BY <2>3, TokenEnd
  <2> QED
    BY <2>2, <2>4, <2>5, CleanOK
<1>4. CASE c \in {"NL", "CR"}
  <2>1. /\ c \notin Digits /\ c \notin IdStart /\ c \notin OpChars /\ c # "GRAVE"
        /\ c # " " /\ c # "/" /\ c \notin {"QUOTE", "TICK"}
    BY <1>4 DEF Digits, IdStart, OpChars
  <2>2. Multiline(p)
    BY <1>4 DEF Multiline
  <2>3. scan_one(p) = Token("NEWLINE", AfterNewline(p))
    BY <1>0, <1>4, <2>1 DEF scan_one
  <2>4. scan_one(p).end = AfterNewline(p)
    BY <2>3 DEF Token
  <2> QED
    BY <1>4, <2>2, <2>4, NewlineEnds, SealedOK
<1>5. CASE c \in {"QUOTE", "TICK"}
  <2>1. /\ c \notin Digits /\ c \notin IdStart /\ c \notin OpChars /\ c # "GRAVE"
        /\ c # " " /\ c # "/" /\ c \notin {"NL", "CR"}
    BY <1>5 DEF Digits, IdStart, OpChars
  <2>2. ~ Multiline(p) /\ IsQuote(c)
    BY <1>0, <1>5, <2>1 DEF Multiline, IsQuote
  <2>3. scan_one(p) = lex_quoted(p, c)
    BY <1>0, <1>5, <2>1 DEF scan_one
  <2>4. scan_one(p).end = scan_quoted(p, c).end
    BY <2>3 DEF lex_quoted, Token
  <2>5. scan_one(p).end \in p + 1 .. Len(source)
    BY <1>5, <2>4, QuotedEnds
  <2> QED
    BY <2>2, <2>5 DEF ScanOK
<1>6. CASE c = "GRAVE" /\ Fence(p)
  <2>1. /\ c \notin Digits /\ c \notin IdStart /\ c \notin OpChars
    BY <1>6 DEF Digits, IdStart, OpChars
  <2>2. Multiline(p)
    BY <1>6 DEF Multiline
  <2>3. scan_one(p) = lex_asm_lit(p)
    BY <1>0, <1>6, <2>1 DEF scan_one
  <2> QED
    BY <1>6, <2>2, <2>3, AsmEnds, SealedOK
<1>7. CASE c = "/" /\ d = "/"
  <2>1. /\ c \notin Digits /\ c \notin IdStart /\ d # "*"
    BY <1>7 DEF Digits, IdStart
  <2>2. ~ Multiline(p)
    BY <1>0, <1>7 DEF Multiline
  <2>3. scan_one(p) = lex_line_comment(p)
    BY <1>0, <1>7, <2>1 DEF scan_one
  <2> QED
    BY <1>7, <2>2, <2>3, LineCommentClean, CleanOK
<1>8. CASE c = "/" /\ d = "*"
  <2>1. /\ c \notin Digits /\ c \notin IdStart /\ d # "/"
    BY <1>8 DEF Digits, IdStart
  <2>2. Multiline(p) /\ Opening(p)
    BY <1>8 DEF Multiline, Opening
  <2>3. scan_one(p) = lex_block_comment(p)
    BY <1>0, <1>8, <2>1 DEF scan_one
  <2> QED
    BY <2>2, <2>3, BlockEnds, SealedOK
<1>9. CASE c \in Singles /\ ~(c = "/" /\ d \in {"/", "*"})
  <2>1. c \in OpChars
    BY <1>0, <1>9
  <2>2. /\ c \notin Digits /\ c \notin IdStart /\ c # "GRAVE" /\ c # " "
        /\ c \notin {"NL", "CR"} /\ c \notin {"QUOTE", "TICK"}
    BY <2>1 DEF Digits, IdStart, OpChars
  <2>3. ~ Multiline(p)
    BY <1>0, <1>9, <2>2 DEF Multiline
  <2>4. scan_one(p) = lex_operator(p)
    BY <1>0, <1>9, <2>2 DEF scan_one
  <2> QED
    BY <1>9, <2>3, <2>4, OperatorClean, CleanOK
<1>10. CASE ~ \/ c \in Digits \/ c \in IdStart \/ c = " " \/ c \in {"NL", "CR"}
              \/ c \in {"QUOTE", "TICK"} \/ (c = "GRAVE" /\ Fence(p))
              \/ (c = "/" /\ d = "/") \/ (c = "/" /\ d = "*")
              \/ (c \in Singles /\ ~(c = "/" /\ d \in {"/", "*"}))
  <2>1. ~ Multiline(p)
    BY <1>0, <1>10 DEF Multiline
  <2>2. scan_one(p) = Token("LEX_ERROR", p + 1)
    BY <1>10 DEF scan_one
  <2>3. scan_one(p).end = p + 1
    BY <2>2 DEF Token
  <2>4. \A r \in p .. p + 1 - 1 : CharAt(r) \notin Breaks
    <3>1. \A r \in p .. p + 1 - 1 : r = p
      OBVIOUS
    <3> QED
      BY <1>10, <3>1 DEF Breaks
  <2> QED
    BY <2>1, <2>3, <2>4 DEF ScanOK
<1> QED
  BY <1>1, <1>2, <1>3, <1>4, <1>5, <1>6, <1>7, <1>8, <1>9, <1>10

-----------------------------------------------------------------------------
(* The tokens so far.                                                        *)

\* A line starts at q.
LineAt(q) == CharAt(q - 1) = "NL" \/ (CharAt(q - 1) = "CR" /\ CharAt(q) # "NL")

\* One scan records the lines that start in it.
LEMMA LinesRecorded ==
    ASSUME Len(source) \in Nat, NEW p \in Nat, NEW e, ScanOK(p, e)
    PROVE  RecordedLines(p, e) =
             {q \in p + 1 .. e : ~ IsQuote(CharAt(p)) /\ LineAt(q)}
<1> DEFINE R == {r \in p .. e - 1 :
                   \/ CharAt(r) = "CR"
                   \/ CharAt(r) = "NL" /\ ~(r > p /\ CharAt(r - 1) = "CR")}
           L == {q \in p + 1 .. e : ~ IsQuote(CharAt(p)) /\ LineAt(q)}
<1>1. e \in p + 1 .. Len(source) /\ e \in Nat
  BY DEF ScanOK
<1>2. CASE ~ Multiline(p)
  <2>1. RecordedLines(p, e) = {}
    BY <1>2 DEF RecordedLines
  <2>2. \A q \in p + 1 .. e : q - 1 \in p .. e - 1
    BY <1>1
  <2>3. ~ IsQuote(CharAt(p)) => \A q \in p + 1 .. e : ~ LineAt(q)
    BY <1>2, <2>2 DEF ScanOK, LineAt, Breaks
  <2> QED
    BY <2>1, <2>3
<1>3. CASE Multiline(p)
  <2>1. ~ IsQuote(CharAt(p))
    BY <1>3, FenceFirst DEF Multiline, IsQuote
  <2>2. RecordedLines(p, e) = {AfterNewline(r) : r \in R}
    BY <1>3 DEF RecordedLines
  <2>3. ASSUME NEW r \in R
        PROVE  AfterNewline(r) \in L
    <3>1. r \in p .. e - 1 /\ r \in Nat /\ r + 1 \in p + 1 .. e /\ r + 1 - 1 = r
      BY <1>1
    <3>2. CASE CharAt(r) = "CR" /\ CharAt(r + 1) = "NL"
      <4>1. AfterNewline(r) = r + 2
        BY <3>2 DEF AfterNewline
      <4>2. r # e - 1
        <5>1. ~(CharAt(e - 1) = "CR" /\ CharAt(e) = "NL")
          BY <1>3 DEF ScanOK
        <5>2. r = e - 1 => r + 1 = e
          BY <1>1, <3>1
        <5> QED
          BY <3>2, <5>1, <5>2
      <4>3. r + 2 \in p + 1 .. e /\ r + 2 - 1 = r + 1
        BY <1>1, <3>1, <4>2
      <4>4. LineAt(r + 2)
        BY <3>2, <4>3 DEF LineAt
      <4> QED
        BY <2>1, <4>1, <4>3, <4>4
    <3>3. CASE ~(CharAt(r) = "CR" /\ CharAt(r + 1) = "NL")
      <4>1. AfterNewline(r) = r + 1
        BY <3>3 DEF AfterNewline
      <4>2. LineAt(r + 1)
        BY <3>1, <3>3 DEF LineAt
      <4> QED
        BY <2>1, <3>1, <4>1, <4>2
    <3> QED
      BY <3>2, <3>3
  <2>4. ASSUME NEW q \in L
        PROVE  \E r \in R : q = AfterNewline(r)
    <3>1. q \in p + 1 .. e /\ LineAt(q) /\ q \in Nat
      OBVIOUS
    <3> HIDE DEF L
    <3>2. CASE CharAt(q - 1) = "CR" /\ CharAt(q) # "NL"
      <4>1. q - 1 \in p .. e - 1 /\ q - 1 + 1 = q
        BY <1>1, <3>1
      <4>2. AfterNewline(q - 1) = q
        BY <3>2, <4>1 DEF AfterNewline
      <4> QED
        BY <3>2, <4>1, <4>2
    <3>3. CASE CharAt(q - 1) = "NL" /\ q - 1 > p /\ CharAt(q - 1 - 1) = "CR"
      <4> DEFINE r == q - 1 - 1
      <4>1. r \in p .. e - 1 /\ r + 1 = q - 1 /\ r + 2 = q
        BY <1>1, <3>1, <3>3
      <4>2. CharAt(r) = "CR" /\ CharAt(r + 1) = "NL"
        BY <3>3, <4>1
      <4> HIDE DEF r
      <4>3. AfterNewline(r) = q
        BY <4>1, <4>2 DEF AfterNewline
      <4>4. r \in R
        BY <4>1, <4>2
      <4> QED
        BY <4>3, <4>4
    <3>4. CASE CharAt(q - 1) = "NL" /\ ~(q - 1 > p /\ CharAt(q - 1 - 1) = "CR")
      <4> DEFINE r == q - 1
      <4>1. r \in p .. e - 1 /\ r + 1 = q
        BY <1>1, <3>1
      <4>2. CharAt(r) = "NL" /\ ~(r > p /\ CharAt(r - 1) = "CR")
        BY <3>4
      <4> HIDE DEF r
      <4>3. AfterNewline(r) = q
        BY <4>1, <4>2 DEF AfterNewline
      <4>4. r \in R
        BY <4>1, <4>2
      <4> QED
        BY <4>3, <4>4
    <3> QED
      BY <3>1, <3>2, <3>3, <3>4 DEF LineAt
  <2> HIDE DEF R, L
  <2>5. {AfterNewline(r) : r \in R} = L
    BY <2>3, <2>4
  <2> QED
    BY <2>2, <2>5 DEF L
<1> QED
  BY <1>2, <1>3

\* A sequence of whatever its elements are.
IsSeq(s) == s \in Seq({s[i] : i \in DOMAIN s})

\* The inductive invariant.
LexInv ==
    /\ source \in Seq(STRING) /\ IsSeq(tokens)
    /\ pos \in AfterBom .. Len(source)
    /\ tokens = <<>> => pos = AfterBom
    /\ \A i \in DOMAIN tokens :
         tokens[i].start \in Nat /\ tokens[i].end \in Nat /\ tokens[i].end <= pos
    /\ LexingIsLossless

\* AfterBom is a position.
LEMMA BomInside ==
    ASSUME Len(source) \in Nat
    PROVE  /\ AfterBom \in 0 .. Len(source) /\ AfterBom \in {0, 1}
           /\ AfterBom = 1 => CharAt(0) = "BOM"
<1>1. CharAt(0) # "NUL" => 0 < Len(source)
  BY Inside
<1> QED
  BY <1>1 DEF AfterBom

\* The lexer begins in the invariant,
LEMMA LexInit == lex_begin => LexInv
<1> SUFFICES ASSUME lex_begin
             PROVE  LexInv
  OBVIOUS
<1> USE DEF lex_begin
<1>1. source \in Seq(STRING) /\ Len(source) \in Nat
  BY TextsAssumption
<1>2. /\ AfterBom \in 0 .. Len(source) /\ AfterBom \in {0, 1}
      /\ AfterBom = 1 => CharAt(0) = "BOM"
  BY <1>1, BomInside
<1>3. pos \in AfterBom .. Len(source)
  BY <1>1, <1>2
<1>4. tokens = <<>> /\ DOMAIN tokens = {} /\ IsSeq(tokens)
  BY DEF IsSeq
<1>5. TokensTile
  BY <1>4 DEF TokensTile
<1>6. LineStartsKnown
  <2>1. \A q \in 1 .. pos : CharAt(q - 1) = "BOM"
    <3>1. \A q \in 1 .. pos : q - 1 = 0 /\ AfterBom = 1
      BY <1>2
    <3> QED
      BY <1>2, <3>1
  <2>2. line_starts = {AfterBom}
    OBVIOUS
  <2>3. {q \in 1 .. pos :
            /\ ~Quoted(q - 1)
            /\ \/ CharAt(q - 1) = "NL"
               \/ CharAt(q - 1) = "CR" /\ CharAt(q) # "NL"} = {}
    BY <2>1
  <2> QED
    BY <2>2, <2>3 DEF LineStartsKnown
<1> QED
  BY <1>1, <1>3, <1>4, <1>5, <1>6 DEF LexInv, LexingIsLossless

\* and every token keeps it.
LEMMA LexStep == LexInv /\ [lex_next]_lexerVars => LexInv'
<1> SUFFICES ASSUME LexInv, [lex_next]_lexerVars
             PROVE  LexInv'
  OBVIOUS
<1>1. CASE UNCHANGED lexerVars
  BY <1>1 DEF lexerVars, LexInv, IsSeq, AfterBom, CharAt, LexingIsLossless,
              TokensTile, LineStartsKnown, Quoted
<1>2. CASE lex_next
  <2> DEFINE e == scan_one(pos).end
             tok == [start |-> pos, kind |-> scan_one(pos).kind, end |-> e]
             n == Len(tokens)
  <2>0. source \in Seq(STRING) /\ Len(source) \in Nat /\ IsSeq(tokens)
    BY DEF LexInv
  <2>1. AfterBom \in {0, 1} /\ AfterBom \in Nat
    BY <2>0, BomInside
  <2>2. pos \in Nat /\ pos < Len(source) /\ pos >= AfterBom
    BY <1>2, <2>0, <2>1 DEF LexInv, lex_next
  <2>3. ScanOK(pos, e)
    BY <2>0, <2>2, ScanOneOK
  <2>4. e \in pos + 1 .. Len(source) /\ e \in Nat /\ e > pos
    BY <2>0, <2>2, <2>3 DEF ScanOK
  <2>5. /\ source' = source /\ pos' = e
        /\ tokens' = Append(tokens, tok)
        /\ line_starts' = line_starts \cup RecordedLines(pos, e)
    BY <1>2 DEF lex_next
  <2>6. tok.start = pos /\ tok.end = e
    OBVIOUS
  <2> HIDE DEF tok, e
  <2>7. n \in Nat /\ DOMAIN tokens = 1 .. n
    BY <2>0 DEF IsSeq
  <2>8. /\ IsSeq(tokens') /\ DOMAIN tokens' = 1 .. n + 1 /\ Len(tokens') = n + 1
        /\ tokens' # <<>>
        /\ \A i \in 1 .. n : tokens'[i] = tokens[i]
        /\ tokens'[n + 1] = tok
    <3> DEFINE S == {tokens[i] : i \in DOMAIN tokens} \cup {tok}
    <3>1. tokens \in Seq(S)
      BY <2>0 DEF IsSeq
    <3>2. tok \in S
      OBVIOUS
    <3> HIDE DEF S
    <3>3. /\ Append(tokens, tok) \in Seq(S)
          /\ Append(tokens, tok) # <<>>
          /\ Len(Append(tokens, tok)) = n + 1
          /\ \A i \in 1 .. n : Append(tokens, tok)[i] = tokens[i]
          /\ Append(tokens, tok)[n + 1] = tok
      BY <3>1, <3>2, AppendProperties
    <3>4. DOMAIN tokens' = 1 .. n + 1
      BY <2>5, <3>3
    <3>5. IsSeq(tokens')
      <4> DEFINE T == {tokens'[i] : i \in DOMAIN tokens'}
      <4>1. tokens' \in [1 .. n + 1 -> T]
        <5>1. tokens' \in [1 .. n + 1 -> S]
          BY <2>5, <3>3, LenProperties
        <5> QED
          BY <3>4, <5>1
      <4>2. n + 1 \in Nat
        BY <2>7
      <4> HIDE DEF T
      <4>3. tokens' \in Seq(T)
        BY <4>1, <4>2
      <4> QED
        BY <4>3 DEF T, IsSeq
    <3> QED
      BY <2>5, <3>3, <3>4, <3>5
  <2>9. \A q : CharAt(q)' = CharAt(q)
    BY <2>5 DEF CharAt
  <2>10. AfterBom' = AfterBom
    BY <2>5 DEF AfterBom, CharAt
  <2>11. \A i \in 1 .. n : tokens[i].start \in Nat /\ tokens[i].end \in Nat /\ tokens[i].end <= pos
    BY <2>7 DEF LexInv
  <2>12. \A i \in 1 .. n + 1 : i \in 1 .. n \/ i = n + 1
    BY <2>7
  <2>13. \A i \in DOMAIN tokens' :
           tokens'[i].start \in Nat /\ tokens'[i].end \in Nat /\ tokens'[i].end <= pos'
    <3>1. \A i \in 1 .. n : tokens[i].end <= e
      BY <2>2, <2>4, <2>11
    <3> QED
      BY <2>2, <2>4, <2>5, <2>6, <2>8, <2>11, <2>12, <3>1
  <2>14. TokensTile'
    <3>1. ASSUME NEW i \in 1 .. n + 1
          PROVE  /\ tokens'[i].start = IF i = 1 THEN AfterBom ELSE tokens'[i - 1].end
                 /\ tokens'[i].start < tokens'[i].end /\ tokens'[i].end <= Len(source)
      <4>1. CASE i \in 1 .. n
        <5>1. i # 1 => i - 1 \in 1 .. n
          BY <2>7, <4>1
        <5>2. /\ tokens[i].start = IF i = 1 THEN AfterBom ELSE tokens[i - 1].end
              /\ tokens[i].start < tokens[i].end /\ tokens[i].end <= Len(source)
          BY <2>7, <4>1 DEF LexInv, LexingIsLossless, TokensTile
        <5> QED
          BY <2>8, <4>1, <5>1, <5>2
      <4>2. CASE i = n + 1
        <5>1. pos = IF i = 1 THEN AfterBom ELSE tokens'[i - 1].end
          <6>1. CASE n = 0
            <7>1. tokens = <<>>
              BY <2>0, <6>1, EmptySeq DEF IsSeq
            <7> QED
              BY <4>2, <6>1, <7>1 DEF LexInv
          <6>2. CASE n # 0
            <7>1. i # 1 /\ i - 1 = n /\ n \in 1 .. n
              BY <2>7, <4>2, <6>2
            <7>2. tokens # <<>>
              BY <6>2
            <7>3. pos = tokens[n].end
              BY <7>2 DEF LexInv, LexingIsLossless, TokensTile
            <7> QED
              BY <2>8, <7>1, <7>3
          <6> QED
            BY <6>1, <6>2
        <5>2. tokens'[i] = tok
          BY <2>8, <4>2
        <5> QED
          BY <2>0, <2>4, <2>6, <5>1, <5>2
      <4> QED
        BY <2>12, <4>1, <4>2
    <3>2. pos' = tokens'[Len(tokens')].end
      BY <2>5, <2>6, <2>8
    <3> QED
      BY <2>5, <2>8, <2>10, <3>1, <3>2 DEF TokensTile
  <2>15. LineStartsKnown'
    <3> DEFINE Old == {q \in 1 .. pos : ~ Quoted(q - 1) /\ LineAt(q)}
               New == {q \in pos + 1 .. e : ~ IsQuote(CharAt(pos)) /\ LineAt(q)}
    <3>1. line_starts = {AfterBom} \cup Old
      BY DEF LexInv, LexingIsLossless, LineStartsKnown, LineAt
    <3>2. RecordedLines(pos, e) = New
      BY <2>0, <2>2, <2>3, LinesRecorded
    <3>3. ASSUME NEW r \in 0 .. pos - 1
          PROVE  Quoted(r)' <=> Quoted(r)
      <4>1. r \notin tok.start .. tok.end - 1
        BY <2>2, <2>4, <2>6
      <4>2. Quoted(r)' <=> \E i \in 1 .. n + 1 :
              /\ r \in tokens'[i].start .. tokens'[i].end - 1
              /\ CharAt(tokens'[i].start) \in {"QUOTE", "TICK"}
        BY <2>8, <2>9 DEF Quoted
      <4>3. Quoted(r) <=> \E i \in 1 .. n :
              /\ r \in tokens[i].start .. tokens[i].end - 1
              /\ CharAt(tokens[i].start) \in {"QUOTE", "TICK"}
        BY <2>7 DEF Quoted
      <4>4. \A i \in 1 .. n : i \in 1 .. n + 1
        BY <2>7
      <4> QED
        BY <2>8, <2>12, <4>1, <4>2, <4>3, <4>4
    <3>4. ASSUME NEW r \in pos .. e - 1
          PROVE  Quoted(r)' <=> IsQuote(CharAt(pos))
      <4>1. r \in tok.start .. tok.end - 1 /\ n + 1 \in 1 .. n + 1
        BY <2>6, <2>7
      <4>2. Quoted(r)' <=> \E i \in 1 .. n + 1 :
              /\ r \in tokens'[i].start .. tokens'[i].end - 1
              /\ CharAt(tokens'[i].start) \in {"QUOTE", "TICK"}
        BY <2>8, <2>9 DEF Quoted
      <4>3. \A i \in 1 .. n : r \notin tokens[i].start .. tokens[i].end - 1
        BY <2>2, <2>4, <2>11
      <4> QED
        BY <2>6, <2>8, <2>12, <4>1, <4>2, <4>3 DEF IsQuote
    <3>5. LineStartsKnown' <=>
            line_starts' = {AfterBom} \cup {q \in 1 .. e : ~ Quoted(q - 1)' /\ LineAt(q)}
      BY <2>5, <2>9, <2>10 DEF LineStartsKnown, LineAt
    <3>6. \A q \in 1 .. e : \/ q \in 1 .. pos /\ q - 1 \in 0 .. pos - 1
                            \/ q \in pos + 1 .. e /\ q - 1 \in pos .. e - 1
      BY <2>2, <2>4
    <3>7. /\ \A q \in 1 .. pos : q \in 1 .. e /\ q - 1 \in 0 .. pos - 1
          /\ \A q \in pos + 1 .. e : q \in 1 .. e /\ q - 1 \in pos .. e - 1
      BY <2>2, <2>4
    <3>8. {q \in 1 .. e : ~ Quoted(q - 1)' /\ LineAt(q)} = Old \cup New
      BY <3>3, <3>4, <3>6, <3>7
    <3> HIDE DEF Old, New
    <3> QED
      BY <2>5, <3>1, <3>2, <3>5, <3>8
  <2>16. pos' \in AfterBom' .. Len(source')
    BY <2>0, <2>1, <2>2, <2>4, <2>5, <2>10
  <2> QED
    BY <2>0, <2>5, <2>8, <2>13, <2>14, <2>15, <2>16 DEF LexInv, LexingIsLossless
<1> QED
  BY <1>1, <1>2

\* Lexing is lossless, for every text: tokens of every kind stand end to end,
\* none is empty, and line_starts misses no line break outside of a quoted
\* literal (lex_next, scan_one).
THEOREM LexerCorrect == LexerSpec => []LexingIsLossless
<1>1. LexInv => LexingIsLossless
  BY DEF LexInv
<1> QED
  BY <1>1, LexInit, LexStep, PTL DEF LexerSpec
=============================================================================
