--------------------------- MODULE SequenceLemmas ---------------------------
(***************************************************************************)
(* Sequences one behind the other: what FlattenSeq returns, for sequences  *)
(* of any length.                                                          *)
(*                                                                         *)
(* FlattenSeq is a recursive function that has to be told from its values: *)
(* an f that starts with <<>> and adds one sequence at a time exists for   *)
(* every s (PartialExists) and ends with FlattenSeq(s) (FlattenIs).  Both  *)
(* are inductions over 0 .. n, by the least index that is missing from a   *)
(* set (UpTo).                                                             *)
(***************************************************************************)
EXTENDS SequencesExt, SequenceTheorems, WellFoundedInduction, TLAPS

\* Induction up to n, over a set.
LEMMA UpTo ==
  ASSUME NEW n \in Nat, NEW S, 0 \in S, \A i \in 0 .. n - 1 : i \in S => i + 1 \in S
  PROVE  0 .. n \subseteq S
<1> DEFINE missing == {i \in 0 .. n : i \notin S}
<1> SUFFICES ASSUME missing # {} PROVE FALSE
  OBVIOUS
<1>1. missing \subseteq Nat
  OBVIOUS
<1>2. PICK m \in missing : \A i \in missing : ~ (<<i, m>> \in OpToRel(<, Nat))
  BY <1>1, NatLessThanWellFounded, WFMin
<1>3. \A i \in missing : ~ (i < m)
  BY <1>1, <1>2 DEF OpToRel
<1>4. m - 1 \in 0 .. n - 1 /\ m - 1 \in 0 .. n /\ m - 1 < m /\ (m - 1) + 1 = m
  <2>1. m \in 0 .. n /\ m # 0
    BY <1>2
  <2> QED BY <2>1
<1>5. m - 1 \in S
  BY <1>3, <1>4
<1> QED BY <1>2, <1>4, <1>5

\* f[i] is what the first i sequences of s make, one behind the other.
Partial(s, f, n) ==
  f[0] = <<>> /\ \A i \in 1 .. n : f[i] = f[i - 1] \o s[i]

LEMMA PartialExists ==
  ASSUME NEW S, NEW s \in Seq(Seq(S))
  PROVE  \E f \in [0 .. Len(s) -> Seq(S)] : Partial(s, f, Len(s))
<1> DEFINE N == Len(s)
           K == {k \in 0 .. N : \E f \in [0 .. k -> Seq(S)] : Partial(s, f, k)}
<1>0. N \in Nat /\ \A i \in 1 .. N : s[i] \in Seq(S)
  OBVIOUS
<1> HIDE DEF N
<1>1. 0 \in K
  <2> DEFINE f == [i \in 0 .. 0 |-> <<>>]
  <2>1. f \in [0 .. 0 -> Seq(S)]
    BY EmptySeq
  <2>2. Partial(s, f, 0)
    BY DEF Partial
  <2>3. 0 \in 0 .. N
    BY <1>0
  <2> HIDE DEF f
  <2> QED BY <2>1, <2>2, <2>3
<1>2. ASSUME NEW k \in 0 .. N - 1, k \in K PROVE k + 1 \in K
  <2>1. PICK f \in [0 .. k -> Seq(S)] : Partial(s, f, k)
    BY <1>2
  <2> DEFINE g == [i \in 0 .. k + 1 |-> IF i = k + 1 THEN f[k] \o s[k + 1] ELSE f[i]]
  <2>2. k \in Nat /\ k + 1 \in 1 .. N /\ k + 1 \in 0 .. N
    BY <1>0
  <2>3. f[k] \o s[k + 1] \in Seq(S)
    BY <1>0, <2>2, ConcatProperties
  <2>4. g \in [0 .. k + 1 -> Seq(S)]
    BY <2>2, <2>3
  <2>5. Partial(s, g, k + 1)
    <3>1. g[0] = <<>>
      BY <2>1, <2>2 DEF Partial
    <3>2. ASSUME NEW i \in 1 .. k + 1 PROVE g[i] = g[i - 1] \o s[i]
      <4>1. CASE i = k + 1
        <5>1. i \in 0 .. k + 1 /\ i - 1 = k /\ k \in 0 .. k + 1 /\ k # k + 1
          BY <2>2, <4>1
        <5>2. g[i] = f[k] \o s[k + 1] /\ g[i - 1] = f[k]
          BY <4>1, <5>1
        <5> QED BY <4>1, <5>2
      <4>2. CASE i # k + 1
        <5>1. i \in 1 .. k /\ g[i] = f[i] /\ g[i - 1] = f[i - 1]
          BY <2>2, <4>2
        <5> QED BY <2>1, <5>1 DEF Partial
      <4> QED BY <4>1, <4>2
    <3> QED BY <3>1, <3>2 DEF Partial
  <2> HIDE DEF g
  <2> QED BY <2>2, <2>4, <2>5
<1>3. N \in K
  <2>1. 0 .. N \subseteq K
    BY <1>0, <1>1, <1>2, UpTo
  <2> QED BY SMTT(30), <1>0, <2>1
<1> QED BY <1>3 DEF N

\* What FlattenSeq's recursion computes.
LEMMA FlattenIs ==
  ASSUME NEW S, NEW s \in Seq(Seq(S)), NEW f \in [0 .. Len(s) -> Seq(S)],
         Partial(s, f, Len(s))
  PROVE  FlattenSeq(s) = f[Len(s)]
<1> DEFINE N == Len(s)
           Body(h) == [i \in 1 .. N |-> IF i = 1 THEN s[i] ELSE h[i - 1] \o s[i]]
           h == CHOOSE g : g = Body(g)
           g0 == [i \in 1 .. N |-> f[i]]
<1>0. N \in Nat /\ \A i \in 1 .. N : s[i] \in Seq(S)
  OBVIOUS
<1>1. FlattenSeq(s) = IF N = 0 THEN s ELSE h[N]
  BY DEF FlattenSeq
<1>2. g0 = Body(g0)
  <2>1. ASSUME NEW i \in 1 .. N PROVE f[i] = IF i = 1 THEN s[i] ELSE g0[i - 1] \o s[i]
    <3>1. f[i] = f[i - 1] \o s[i] /\ f[0] = <<>>
      BY DEF Partial
    <3>2. <<>> \o s[i] = s[i]
      BY <1>0, ConcatEmptySeq
    <3>3. CASE i = 1
      <4>1. f[i - 1] = <<>>
        BY <3>1, <3>3
      <4> QED BY <3>1, <3>2, <3>3, <4>1
    <3>4. CASE i # 1
      <4>1. i - 1 \in 1 .. N
        BY <1>0, <3>4
      <4> QED BY <3>1, <3>4, <4>1
    <3> QED BY <3>3, <3>4
  <2> QED BY <2>1
<1>3. h = Body(h)
  <2> HIDE DEF Body
  <2> QED BY <1>2
<1> DEFINE K == {k \in 0 .. N : k = 0 \/ h[k] = f[k]}
<1> HIDE DEF N, h, g0
<1>4. 0 \in K
  BY <1>0
<1>5. ASSUME NEW k \in 0 .. N - 1, k \in K PROVE k + 1 \in K
  <2>1. k + 1 \in 1 .. N /\ k + 1 \in 0 .. N /\ (k + 1) - 1 = k
    BY <1>0
  <2>2. h[k + 1] = IF k + 1 = 1 THEN s[k + 1] ELSE h[k] \o s[k + 1]
    BY <1>3, <2>1
  <2>3. f[k + 1] = f[k] \o s[k + 1] /\ f[0] = <<>>
    BY <2>1 DEF Partial, N
  <2>4. <<>> \o s[k + 1] = s[k + 1]
    BY <1>0, <2>1, ConcatEmptySeq
  <2>5. h[k + 1] = f[k + 1]
    <3>1. CASE k = 0
      <4>1. f[k] = <<>> /\ k + 1 = 1
        BY <2>3, <3>1
      <4> QED BY <2>2, <2>3, <2>4, <4>1
    <3>2. CASE k # 0
      <4>1. h[k] = f[k] /\ k + 1 # 1
        BY <1>5, <3>2
      <4> QED BY <2>2, <2>3, <4>1
    <3> QED BY <3>1, <3>2
  <2> QED BY <2>1, <2>5
<1>6. N \in K
  <2>1. 0 .. N \subseteq K
    BY <1>0, <1>4, <1>5, UpTo
  <2> QED BY <1>0, <2>1
<1>7. CASE N = 0
  <2>1. s = <<>>
    BY <1>7, EmptySeq DEF N
  <2> QED BY <1>1, <1>7, <2>1 DEF Partial, N
<1>8. CASE N # 0
  BY <1>1, <1>6, <1>8 DEF N
<1> QED BY <1>7, <1>8

LEMMA Associative ==
  ASSUME NEW S
  PROVE  \A a, b, c \in Seq(S) : (a \o b) \o c = a \o (b \o c)
<1>1. ASSUME NEW a \in Seq(S), NEW b \in Seq(S), NEW c \in Seq(S)
      PROVE  (a \o b) \o c = a \o (b \o c)
  BY ConcatAssociative
<1> QED BY <1>1

PartialAfter(e, s, f, n) == \A i \in 1 .. n : e \o f[i] = (e \o f[i - 1]) \o s[i]

LEMMA PartialBehind ==
  ASSUME NEW S, NEW e \in Seq(S), NEW m \in Nat, NEW f, NEW r,
         \A i \in 0 .. m : f[i] \in Seq(S), \A i \in 1 .. m : r[i] \in Seq(S),
         Partial(r, f, m)
  PROVE  PartialAfter(e, r, f, m)
<1> SUFFICES ASSUME NEW j \in 1 .. m PROVE e \o f[j] = (e \o f[j - 1]) \o r[j]
  BY DEF PartialAfter
<1> DEFINE a == f[j - 1]
           b == r[j]
<1>1. f[j] = a \o b
  BY DEF Partial
<1>2. j - 1 \in 0 .. m
  OBVIOUS
<1>3. a \in Seq(S) /\ b \in Seq(S)
  BY <1>2
<1> HIDE DEF a, b
<1>4. (e \o a) \o b = e \o (a \o b)
  BY <1>3, Associative
<1> QED BY <1>1, <1>4 DEF a, b

LEMMA FlattenAppend ==
  ASSUME NEW S, NEW s \in Seq(Seq(S)), NEW e \in Seq(S)
  PROVE  FlattenSeq(Append(s, e)) = FlattenSeq(s) \o e /\ FlattenSeq(s) \in Seq(S)
<1> DEFINE n == Len(s)
           r == Append(s, e)
<1>1. PICK f \in [0 .. n -> Seq(S)] : Partial(s, f, n)
  BY PartialExists
<1> DEFINE g == [i \in 0 .. n + 1 |-> IF i = n + 1 THEN f[n] \o e ELSE f[i]]
<1>2. /\ n \in Nat /\ r \in Seq(Seq(S)) /\ Len(r) = n + 1
      /\ \A i \in 1 .. n : r[i] = s[i]
      /\ r[n + 1] = e
  OBVIOUS
<1>3. FlattenSeq(s) = f[n]
  BY <1>1, FlattenIs
<1> HIDE DEF n, r
<1>9. f[n] \in Seq(S)
  <2>1. n \in 0 .. n
    BY <1>2
  <2> QED BY <2>1
<1>4. g \in [0 .. n + 1 -> Seq(S)]
  <2>1. f[n] \o e \in Seq(S)
    BY <1>9, ConcatProperties
  <2>2. ASSUME NEW i \in 0 .. n + 1 PROVE g[i] \in Seq(S)
    <3>1. CASE i = n + 1
      BY <2>1, <3>1
    <3>2. CASE i # n + 1
      <4>1. i \in 0 .. n
        BY <1>2, <3>2
      <4> QED BY <3>2, <4>1
    <3> QED BY <3>1, <3>2
  <2> QED BY <2>2
<1>5. Partial(r, g, n + 1)
  <2>1. g[0] = <<>>
    BY <1>1, <1>2 DEF Partial
  <2>2. ASSUME NEW i \in 1 .. n + 1 PROVE g[i] = g[i - 1] \o r[i]
    <3>1. CASE i = n + 1
      <4>1. i \in 0 .. n + 1 /\ i - 1 = n /\ n \in 0 .. n + 1 /\ n # n + 1
        BY <1>2, <3>1
      <4>2. g[i] = f[n] \o e /\ g[i - 1] = f[n]
        BY <3>1, <4>1
      <4> QED BY <1>2, <3>1, <4>2
    <3>2. CASE i # n + 1
      <4>1. i \in 1 .. n /\ g[i] = f[i] /\ g[i - 1] = f[i - 1]
        BY <1>2, <3>2
      <4> QED BY <1>1, <1>2, <4>1 DEF Partial
    <3> QED BY <3>1, <3>2
  <2> QED BY <2>1, <2>2 DEF Partial
<1>6. g[n + 1] = f[n] \o e
  BY <1>2
<1> HIDE DEF g
<1>7. FlattenSeq(r) = g[n + 1]
  BY <1>2, <1>4, <1>5, FlattenIs
<1> QED BY <1>3, <1>6, <1>7, <1>9 DEF r

\* A prefix, one element longer.
LEMMA PrefixGrows ==
  ASSUME NEW S, NEW s \in Seq(S), NEW k \in 0 .. Len(s) - 1
  PROVE  /\ SubSeq(s, 1, k) \in Seq(S) /\ s[k + 1] \in S
         /\ SubSeq(s, 1, k + 1) = Append(SubSeq(s, 1, k), s[k + 1])
<1>1. /\ k + 1 \in 1 .. Len(s) /\ 1 \in 1 .. Len(s) /\ (k + 1) - 1 = k
      /\ k \in Int /\ 1 \in Int /\ \A i \in 1 .. k : s[i] \in S
  BY LenProperties
<1>2. SubSeq(s, 1, k) \in Seq(S)
  BY <1>1, SubSeqProperties
<1>3. s[k + 1] \in S
  BY <1>1
<1>4. SubSeq(s, 1, k + 1) = SubSeq(s, 1, k) \o <<s[k + 1]>>
  BY <1>1, SubSeqRecursiveSecond
<1> QED BY <1>2, <1>3, <1>4, AppendIsConcat

LEMMA AppendBehind ==
  ASSUME NEW S, NEW s \in Seq(S), NEW r \in Seq(S), NEW e \in S
  PROVE  s \o Append(r, e) = Append(s \o r, e)
<1>1. s \o r \in Seq(S) /\ <<e>> \in Seq(S)
  BY ConcatProperties
<1>2. Append(s \o r, e) = (s \o r) \o <<e>>
  BY <1>1, AppendIsConcat
<1>3. Append(r, e) = r \o <<e>>
  BY AppendIsConcat
<1>4. (s \o r) \o <<e>> = s \o (r \o <<e>>)
  BY <1>1, Associative
<1> QED BY <1>2, <1>3, <1>4

LEMMA FlattenConcat ==
  ASSUME NEW S, NEW s \in Seq(Seq(S)), NEW r \in Seq(Seq(S))
  PROVE  FlattenSeq(s \o r) = FlattenSeq(s) \o FlattenSeq(r)
<1> DEFINE n == Len(r)
           p(k) == SubSeq(r, 1, k)
           K == {k \in 0 .. n : FlattenSeq(s \o p(k)) = FlattenSeq(s) \o FlattenSeq(p(k))}
<1>1. n \in Nat
  BY LenProperties
<1>2. 0 \in K
  <2>1. p(0) = <<>> /\ s \o <<>> = s
    BY ConcatEmptySeq, SubSeqEmpty
  <2>2. FlattenSeq(<<>>) = <<>>
    BY DEF FlattenSeq
  <2>3. FlattenSeq(s) \in Seq(S)
    BY FlattenAppend, EmptySeq
  <2>4. FlattenSeq(s) \o <<>> = FlattenSeq(s)
    BY <2>3, ConcatEmptySeq
  <2>5. 0 \in 0 .. n
    BY <1>1
  <2> QED BY <2>1, <2>2, <2>4, <2>5
<1>3. ASSUME NEW k \in 0 .. n - 1, k \in K PROVE k + 1 \in K
  <2> DEFINE q == p(k)
             e == r[k + 1]
             u == FlattenSeq(s)
             v == FlattenSeq(q)
  <2>1. q \in Seq(Seq(S)) /\ e \in Seq(S)
    BY PrefixGrows
  <2>2. p(k + 1) = Append(q, e)
    BY PrefixGrows
  <2>3. k \in 0 .. n /\ k + 1 \in 0 .. n
    BY <1>1
  <2>4. FlattenSeq(s \o q) = u \o v
    BY <1>3
  <2> HIDE DEF p, q, e
  <2>5. s \o q \in Seq(Seq(S))
    BY <2>1, ConcatProperties
  <2>6. s \o Append(q, e) = Append(s \o q, e)
    <3> DEFINE T == Seq(S)
    <3>1. s \in Seq(T) /\ q \in Seq(T) /\ e \in T
      BY <2>1
    <3> HIDE DEF T
    <3> QED BY <3>1, AppendBehind
  <2>7. FlattenSeq(Append(s \o q, e)) = FlattenSeq(s \o q) \o e
    BY <2>1, <2>5, FlattenAppend
  <2>8. FlattenSeq(Append(q, e)) = v \o e
    BY <2>1, FlattenAppend
  <2>9. u \in Seq(S) /\ v \in Seq(S)
    BY <2>1, FlattenAppend
  <2> HIDE DEF u, v
  <2>10. (u \o v) \o e = u \o (v \o e)
    BY SMTT(30), <2>1, <2>9, Associative
  <2>11. FlattenSeq(s \o p(k + 1)) = u \o FlattenSeq(p(k + 1))
    BY <2>2, <2>4, <2>6, <2>7, <2>8, <2>10
  <2> QED BY <2>3, <2>11 DEF u
<1>4. n \in K
  <2>1. 0 .. n \subseteq K
    BY <1>1, <1>2, <1>3, UpTo
  <2> QED BY <1>1, <2>1
<1>5. p(n) = r
  BY SubSeqFull
<1> QED BY <1>4, <1>5

LEMMA FlattenTail ==
  ASSUME NEW S, NEW s
  PROVE  s \in Seq(Seq(S)) /\ s # <<>> => FlattenSeq(s) = s[1] \o FlattenSeq(Tail(s))
<1>0. SUFFICES ASSUME s \in Seq(Seq(S)), s # <<>>
               PROVE  FlattenSeq(s) = s[1] \o FlattenSeq(Tail(s))
  OBVIOUS
<1> DEFINE r == Tail(s)
           n == Len(s)
           m == Len(r)
<1>1. /\ n \in Nat /\ m \in Nat /\ n = m + 1
      /\ r \in Seq(Seq(S)) /\ \A i \in 1 .. m : r[i] = s[i + 1]
      /\ s[1] \in Seq(S) /\ \A i \in 1 .. m : r[i] \in Seq(S)
  BY <1>0, HeadTailProperties, LenProperties, EmptySeq
<1>2. PICK f : f \in [0 .. m -> Seq(S)] /\ Partial(r, f, m)
  BY <1>1, PartialExists
<1> DEFINE g == [i \in 0 .. n |-> IF i = 0 THEN <<>> ELSE s[1] \o f[i - 1]]
<1>3. FlattenSeq(r) = f[m]
  BY <1>1, <1>2, FlattenIs
<1> HIDE DEF n, m, r
<1>8. \A j \in 1 .. m : s[1] \o f[j] = (s[1] \o f[j - 1]) \o r[j]
  <2> DEFINE e == s[1]
  <2>1. e \in Seq(S) /\ m \in Nat /\ \A i \in 1 .. m : r[i] \in Seq(S)
    BY <1>1
  <2>2. \A i \in 0 .. m : f[i] \in Seq(S)
    BY <1>2
  <2> HIDE DEF e
  <2>3. PartialAfter(e, r, f, m)
    BY <1>2, <2>1, <2>2, PartialBehind
  <2> QED BY <2>3 DEF e, PartialAfter
<1>4. g \in [0 .. n -> Seq(S)]
  <2>1. ASSUME NEW i \in 0 .. n PROVE g[i] \in Seq(S)
    <3>1. CASE i = 0
      BY <3>1, EmptySeq
    <3>2. CASE i # 0
      <4>1. i - 1 \in 0 .. m
        BY <1>1, <3>2
      <4> QED BY <1>1, <1>2, <3>2, <4>1, ConcatProperties
    <3> QED BY <3>1, <3>2
  <2> QED BY <2>1
<1>5. Partial(s, g, n)
  <2>1. g[0] = <<>>
    BY <1>1
  <2>2. ASSUME NEW i \in 1 .. n PROVE g[i] = g[i - 1] \o s[i]
    <3>0. i \in 0 .. n /\ i # 0 /\ i - 1 \in 0 .. n /\ i - 1 \in 0 .. m
      BY <1>1
    <3>1. g[i] = s[1] \o f[i - 1]
      BY <3>0
    <3>2. CASE i = 1
      <4>1. i - 1 = 0
        BY <3>2
      <4>2. g[i - 1] = <<>> /\ f[i - 1] = <<>>
        BY <1>2, <2>1, <4>1 DEF Partial
      <4>3. s[1] \o <<>> = s[1] /\ <<>> \o s[1] = s[1]
        BY <1>1, ConcatEmptySeq
      <4> QED BY <3>1, <3>2, <4>2, <4>3
    <3>3. CASE i # 1
      <4> DEFINE j == i - 1
      <4>1. j \in 1 .. m /\ j - 1 \in 0 .. m /\ j # 0 /\ j + 1 = i
        BY <1>1, <3>3
      <4>2. f[j] = f[j - 1] \o r[j] /\ r[j] = s[i]
        BY <1>1, <1>2, <4>1 DEF Partial
      <4>3. g[j] = s[1] \o f[j - 1]
        BY <3>0, <4>1
      <4>5. s[1] \o f[j] = (s[1] \o f[j - 1]) \o r[j]
        BY <1>8, <4>1
      <4> HIDE DEF j, g
      <4>6. g[i - 1] = g[j] /\ f[i - 1] = f[j]
        BY DEF j
      <4> QED BY <3>1, <4>2, <4>3, <4>5, <4>6
    <3> QED BY <3>2, <3>3
  <2> QED BY <2>1, <2>2 DEF Partial
<1>6. g[n] = s[1] \o f[m]
  <2>1. n \in 0 .. n /\ n # 0 /\ n - 1 = m
    BY <1>1
  <2> QED BY <2>1
<1> HIDE DEF g
<1>7. FlattenSeq(s) = g[n]
  BY <1>0, <1>4, <1>5, FlattenIs DEF n
<1> QED BY <1>3, <1>6, <1>7 DEF r

\* What is appended adds nothing when it is empty.
LEMMA FlattenPadded ==
  ASSUME NEW S, NEW s \in Seq(Seq(S)), NEW r \in Seq(Seq(S)), Len(s) <= Len(r),
         \A i \in 1 .. Len(r) : r[i] = IF i <= Len(s) THEN s[i] ELSE <<>>
  PROVE  FlattenSeq(r) = FlattenSeq(s)
<1> DEFINE n == Len(s)
           m == Len(r)
<1>1. n \in Nat /\ m \in Nat /\ n <= m
  OBVIOUS
<1>2. PICK f \in [0 .. n -> Seq(S)] : Partial(s, f, n)
  BY PartialExists
<1> DEFINE g == [i \in 0 .. m |-> IF i <= n THEN f[i] ELSE f[n]]
<1>3. FlattenSeq(s) = f[n] /\ f[n] \in Seq(S)
  BY <1>1, <1>2, FlattenIs
<1>4. \A i \in 1 .. m : r[i] = IF i <= n THEN s[i] ELSE <<>>
  OBVIOUS
<1> HIDE DEF n, m
<1>5. g \in [0 .. m -> Seq(S)]
  BY <1>1, <1>3
<1>6. Partial(r, g, m)
  <2>1. g[0] = <<>>
    BY <1>1, <1>2 DEF Partial
  <2>2. ASSUME NEW i \in 1 .. m PROVE g[i] = g[i - 1] \o r[i]
    <3>1. i \in 0 .. m /\ i - 1 \in 0 .. m
      BY <1>1
    <3>2. CASE i <= n
      <4>1. i \in 1 .. n /\ i - 1 <= n
        BY <1>1, <3>2
      <4>2. g[i] = f[i] /\ g[i - 1] = f[i - 1]
        BY <3>1, <3>2, <4>1
      <4> QED BY <1>2, <1>4, <3>2, <4>1, <4>2 DEF Partial
    <3>3. CASE ~(i <= n)
      <4>1. i - 1 <= n => i - 1 = n
        BY <1>1, <3>3
      <4>2. g[i] = f[n] /\ g[i - 1] = f[n]
        BY <3>1, <3>3, <4>1
      <4> QED BY <1>3, <1>4, <3>3, <4>2, ConcatEmptySeq
    <3> QED BY <3>2, <3>3
  <2> QED BY <2>1, <2>2 DEF Partial
<1>7. g[m] = f[n]
  BY <1>1
<1> HIDE DEF g
<1>8. FlattenSeq(r) = g[m]
  BY <1>5, <1>6, FlattenIs DEF m
<1> QED BY <1>3, <1>7, <1>8

LEMMA FlattenNothing ==
  /\ FlattenSeq(<<>>) = <<>>
  /\ \A S : \A r \in Seq(Seq(S)) :
       (\A i \in 1 .. Len(r) : r[i] = <<>>) => FlattenSeq(r) = <<>>
<1>1. FlattenSeq(<<>>) = <<>>
  BY DEF FlattenSeq
<1>2. ASSUME NEW S, NEW r \in Seq(Seq(S)), \A i \in 1 .. Len(r) : r[i] = <<>>
      PROVE  FlattenSeq(r) = <<>>
  <2>1. /\ <<>> \in Seq(Seq(S)) /\ Len(<<>>) = 0 /\ Len(r) \in Nat
    BY EmptySeq, LenProperties
  <2>2. Len(<<>>) <= Len(r) /\ \A i \in 1 .. Len(r) : ~(i <= Len(<<>>))
    BY <2>1
  <2> DEFINE e == <<>>
  <2>3. \A i \in 1 .. Len(r) : r[i] = IF i <= Len(e) THEN e[i] ELSE <<>>
    BY <1>2, <2>2
  <2> QED BY <1>1, <2>1, <2>2, <2>3, FlattenPadded
<1> QED BY <1>1, <1>2

\* What follows a sequence is not in its front.
LEMMA FrontOfConcat ==
  ASSUME NEW S, NEW s \in Seq(S), NEW t \in Seq(S), NEW n \in 0 .. Len(s)
  PROVE  SubSeq(s \o t, 1, n) = SubSeq(s, 1, n)
<1> DEFINE a == SubSeq(s \o t, 1, n)
           b == SubSeq(s, 1, n)
<1>1. 1 \in Int /\ n \in Int /\ n \in Nat /\ Len(s) \in Nat /\ Len(t) \in Nat /\ n <= Len(s)
  BY LenProperties
<1>2. \A i \in 1 .. n : (s \o t)[i] = s[i] /\ s[i] \in S
  <2>1. \A i \in 1 .. Len(s) + Len(t) :
          (s \o t)[i] = IF i <= Len(s) THEN s[i] ELSE t[i - Len(s)]
    BY ConcatProperties
  <2>2. \A i \in 1 .. Len(s) : s[i] \in S
    BY ElementOfSeq
  <2> QED BY <1>1, <2>1, <2>2
<1>3. /\ a \in Seq(S) /\ Len(a) = IF 1 <= n THEN n - 1 + 1 ELSE 0
      /\ \A i \in 1 .. n - 1 + 1 : a[i] = (s \o t)[1 + i - 1]
  <2>1. \A i \in 1 .. n : (s \o t)[i] \in S
    BY <1>2
  <2> QED BY <1>1, <2>1, SubSeqProperties
<1>4. /\ b \in Seq(S) /\ Len(b) = IF 1 <= n THEN n - 1 + 1 ELSE 0
      /\ \A i \in 1 .. n - 1 + 1 : b[i] = s[1 + i - 1]
  <2>1. \A i \in 1 .. n : s[i] \in S
    BY <1>2
  <2> QED BY <1>1, <2>1, SubSeqProperties
<1> HIDE DEF a, b
<1>5. Len(a) = n /\ Len(b) = n /\ \A i \in 1 .. n : a[i] = b[i]
  BY <1>1, <1>2, <1>3, <1>4
<1>6. a = b
  BY <1>3, <1>4, <1>5, SeqEqual
<1> QED BY <1>6 DEF a, b

LEMMA PrefixOfConcat ==
  ASSUME NEW S, NEW s \in Seq(S), NEW t \in Seq(S)
  PROVE  IsPrefix(s, s \o t)
<1>1. Len(s) \in Nat /\ Len(t) \in Nat /\ Len(s \o t) = Len(s) + Len(t)
  BY LenProperties, ConcatProperties
<1>2. SubSeq(s \o t, 1, Len(s)) = SubSeq(s, 1, Len(s))
  <2>1. Len(s) \in 0 .. Len(s)
    BY <1>1
  <2> QED BY <2>1, FrontOfConcat
<1>3. Len(s) <= Len(s \o t)
  BY <1>1
<1> QED BY <1>2, <1>3 DEF IsPrefix

LEMMA BackOfConcat ==
  ASSUME NEW S, NEW s \in Seq(S), NEW t \in Seq(S)
  PROVE  SubSeq(s \o t, Len(s) + 1, Len(s \o t)) = t
<1> DEFINE c == s \o t
           n == Len(s)
           N == Len(c)
           back == SubSeq(c, n + 1, N)
<1>1. c \in Seq(S) /\ n \in Nat /\ N \in Nat /\ n <= N
  <2>1. c \in Seq(S) /\ N = n + Len(t) /\ n \in Nat /\ Len(t) \in Nat
    BY LenProperties, ConcatProperties
  <2> HIDE DEF c, n, N
  <2> QED BY <2>1
<1>2. SubSeq(c, 1, n) = s
  <2>1. n \in 0 .. Len(s)
    BY <1>1
  <2>2. SubSeq(s \o t, 1, n) = SubSeq(s, 1, n)
    BY <2>1, FrontOfConcat
  <2> QED BY <2>2, SubSeqFull
<1> HIDE DEF c, n
<1>3. 1 \in 1 .. Len(c) + 1 /\ n \in 1 - 1 .. Len(c) /\ N \in n .. Len(c)
  BY <1>1
<1>4. SubSeq(c, 1, n) \o SubSeq(c, n + 1, N) = SubSeq(c, 1, N)
  BY <1>1, <1>3, ConcatAdjacentSubSeq
<1>5. SubSeq(c, 1, N) = c
  BY <1>1, SubSeqFull
<1>6. back \in Seq(S)
  <2>1. n + 1 \in Int /\ N \in Int /\ \A i \in n + 1 .. N : c[i] \in S
    BY <1>1, ElementOfSeq
  <2> QED BY <2>1, SubSeqProperties
<1> HIDE DEF back
<1>7. s \o back = s \o t
  BY <1>2, <1>4, <1>5 DEF back, c
<1>8. \A x, y, z \in Seq(S) : x \o y = x \o z => y = z
  BY ConcatSimplifications
<1>9. back = t
  BY <1>6, <1>7, <1>8
<1> QED BY <1>9 DEF back, c, n, N
=============================================================================
