-------------------------- MODULE FragmentsProofs --------------------------
(***************************************************************************)
(* Proofs about Fragments, for every text, size and limit: that the parts  *)
(* of a text, in order and without their NULs, are the text; from this     *)
(* type correctness, OnlyWhole, and, when a datagram fits into the map,    *)
(* OneOfTwoCopies; and what size the fragments have, SizesAsTested.        *)
(***************************************************************************)
EXTENDS Fragments, QueueLemmas, FiniteSetTheorems, TLAPS

-----------------------------------------------------------------------------
(***************************************************************************)
(* FlattenSeq, by what it is after each of its sequences.                  *)
(***************************************************************************)
LEMMA FunctionIsSeq ==
  ASSUME NEW S, NEW n \in Nat, NEW f \in [1..n -> S]
  PROVE  f \in Seq(S) /\ Len(f) = n
OBVIOUS

\* g[i] is what the first i sequences of ss make.
Steps(ss, g) ==
  /\ g[0] = <<>>
  /\ \A i \in 1..Len(ss) : g[i] = g[i - 1] \o ss[i]

LEMMA FlattenIs ==
  ASSUME NEW S, NEW ss \in Seq(Seq(S)), NEW g \in [0..Len(ss) -> Seq(S)], Steps(ss, g)
  PROVE  FlattenSeq(ss) = g[Len(ss)]
<1> DEFINE n == Len(ss)
           F == CHOOSE f : f = [i \in 1..n |-> IF i = 1 THEN ss[i] ELSE f[i - 1] \o ss[i]]
<1>1. n \in Nat /\ (n = 0 => ss = <<>>)
  OBVIOUS
<1>2. CASE n = 0
  BY <1>1, <1>2 DEF FlattenSeq, Steps
<1>3. CASE n # 0
  <2>1. FlattenSeq(ss) = F[n]
    BY <1>3 DEF FlattenSeq
  <2> DEFINE f == [i \in 1..n |-> g[i]]
  <2>2. f = [i \in 1..n |-> IF i = 1 THEN ss[i] ELSE f[i - 1] \o ss[i]]
    <3> SUFFICES ASSUME NEW i \in 1..n
                 PROVE  f[i] = IF i = 1 THEN ss[i] ELSE f[i - 1] \o ss[i]
      OBVIOUS
    <3>1. f[i] = g[i - 1] \o ss[i] /\ ss[i] \in Seq(S)
      BY DEF Steps
    <3>2. CASE i = 1
      <4>1. g[i - 1] = <<>> /\ <<>> \o ss[i] = ss[i]
        BY <3>1, <3>2, ConcatEmptySeq DEF Steps
      <4> QED
        BY <3>1, <3>2, <4>1
    <3>3. CASE i # 1
      <4>1. i - 1 \in 1..n
        BY <1>1, <3>3
      <4> QED
        BY <3>1, <3>3, <4>1
    <3> QED
      BY <3>2, <3>3
  <2> HIDE DEF f
  <2>3. F = [i \in 1..n |-> IF i = 1 THEN ss[i] ELSE F[i - 1] \o ss[i]]
    BY <2>2
  <2> HIDE DEF F
  <2> DEFINE P == {k \in Nat : k + 1 \in 1..n => F[k + 1] = g[k + 1]}
  <2>4. 0 \in P
    <3>0. 1 \in 1..n
      BY <1>1, <1>3
    <3>1. F[1] = ss[1]
      <4> DEFINE R == [i \in 1..n |-> IF i = 1 THEN ss[i] ELSE F[i - 1] \o ss[i]]
      <4>1. R[1] = ss[1]
        BY <3>0
      <4>2. F = R
        BY <2>3
      <4> HIDE DEF R
      <4> QED
        BY <4>1, <4>2
    <3>2. g[1] = g[0] \o ss[1] /\ ss[1] \in Seq(S) /\ g[0] = <<>>
      <4>1. g[1] = g[1 - 1] \o ss[1] /\ g[0] = <<>>
        BY <3>0 DEF Steps
      <4>2. ss[1] \in Seq(S)
        BY <3>0
      <4>3. 1 - 1 = 0
        OBVIOUS
      <4> QED
        BY <4>1, <4>2, <4>3
    <3>3. <<>> \o ss[1] = ss[1]
      BY <3>2, ConcatEmptySeq
    <3> QED
      BY <3>1, <3>2, <3>3
  <2>5. ASSUME NEW k \in Nat, k \in P PROVE k + 1 \in P
    <3> SUFFICES ASSUME (k + 1) + 1 \in 1..n PROVE F[(k + 1) + 1] = g[(k + 1) + 1]
      OBVIOUS
    <3> DEFINE j == (k + 1) + 1
    <3>1. j \in 1..n /\ j # 1 /\ j - 1 = k + 1 /\ k + 1 \in 1..n
      BY <1>1
    <3> HIDE DEF j
    <3>2. F[j] = F[j - 1] \o ss[j]
      BY <2>3, <3>1
    <3>3. g[j] = g[j - 1] \o ss[j]
      BY <3>1 DEF Steps
    <3>4. F[k + 1] = g[k + 1]
      BY <2>5, <3>1
    <3>5. F[j] = g[j]
      BY <3>1, <3>2, <3>3, <3>4
    <3> QED
      BY <3>5 DEF j
  <2> HIDE DEF P
  <2>6. n - 1 \in P
    <3>1. n - 1 \in Nat
      BY <1>1, <1>3
    <3>2. \A k \in Nat : k \in P => k + 1 \in P
      BY <2>5
    <3>3. Nat \subseteq P
      BY <2>4, <3>2, CountingUp
    <3> QED
      BY <3>1, <3>3
  <2>7. (n - 1) + 1 = n /\ n \in 1..n
    BY <1>1, <1>3
  <2> QED
    BY <2>1, <2>6, <2>7 DEF P
<1> QED
  BY <1>2, <1>3

LEMMA FlattenExists ==
  ASSUME NEW S, NEW ss \in Seq(Seq(S))
  PROVE  \E g \in [0..Len(ss) -> Seq(S)] : Steps(ss, g)
<1> DEFINE n == Len(ss)
           Upto(k, g) == g[0] = <<>> /\ \A i \in 1..k : g[i] = g[i - 1] \o ss[i]
           Reached(k) == \E g \in [0..k -> Seq(S)] : Upto(k, g)
           P == {k \in Nat : k <= n => Reached(k)}
<1>1. n \in Nat
  OBVIOUS
<1>2. 0 \in P
  <2> DEFINE g == [i \in 0..0 |-> <<>>]
  <2>1. g \in [0..0 -> Seq(S)] /\ Upto(0, g)
    OBVIOUS
  <2> QED
    BY <2>1
<1>3. \A k \in Nat : k \in P => k + 1 \in P
  <2> HIDE DEF Reached
  <2> SUFFICES ASSUME NEW k \in Nat, k \in P, k + 1 <= n
               PROVE  Reached(k + 1)
    OBVIOUS
  <2>1. k <= n /\ k + 1 \in 1..n
    BY <1>1
  <2>2. PICK g \in [0..k -> Seq(S)] : Upto(k, g)
    BY <2>1 DEF Reached
  <2>3. ss[k + 1] \in Seq(S) /\ g[k] \in Seq(S)
    BY <2>1
  <2>4. g[k] \o ss[k + 1] \in Seq(S)
    BY <2>3
  <2> DEFINE h == [i \in 0..k + 1 |-> IF i <= k THEN g[i] ELSE g[k] \o ss[k + 1]]
  <2>5. h \in [0..k + 1 -> Seq(S)]
    <3> SUFFICES ASSUME NEW i \in 0..k + 1 PROVE h[i] \in Seq(S)
      OBVIOUS
    <3>1. i <= k => i \in 0..k
      OBVIOUS
    <3> QED
      BY <2>4, <3>1
  <2>6. ASSUME NEW i \in 1..k + 1 PROVE h[i] = h[i - 1] \o ss[i]
    <3>1. i - 1 \in 0..k /\ i - 1 \in 0..k + 1 /\ i - 1 <= k
      OBVIOUS
    <3>2. h[i - 1] = g[i - 1]
      BY <3>1
    <3>3. CASE i <= k
      <4>1. i \in 1..k
        BY <3>3
      <4>2. g[i] = g[i - 1] \o ss[i]
        BY <2>2, <4>1
      <4>3. h[i] = g[i]
        BY <3>3
      <4> QED
        BY <3>2, <4>2, <4>3
    <3>4. CASE ~(i <= k)
      <4>1. i = k + 1 /\ i - 1 = k
        BY <3>4
      <4>2. h[i] = g[k] \o ss[k + 1]
        <5>1. k + 1 \in 0..k + 1 /\ ~(k + 1 <= k)
          OBVIOUS
        <5>2. h[k + 1] = g[k] \o ss[k + 1]
          BY <5>1
        <5> QED
          BY <4>1, <5>2
      <4> QED
        BY <3>2, <4>1, <4>2
    <3> QED
      BY <3>3, <3>4
  <2>7. h[0] = <<>>
    BY <2>2
  <2> HIDE DEF h
  <2> QED
    BY <2>5, <2>6, <2>7 DEF Reached
<1> HIDE DEF Reached
<1> HIDE DEF P
<1>4. n \in P
  BY <1>1, <1>2, <1>3, CountingUp
<1>5. Reached(n)
  <2>1. n <= n
    BY <1>1
  <2> QED
    BY <1>4, <2>1 DEF P
<1> QED
  BY <1>5 DEF Reached, Steps

LEMMA FlattenType ==
  ASSUME NEW S, NEW ss \in Seq(Seq(S))
  PROVE  FlattenSeq(ss) \in Seq(S)
<1>1. PICK g \in [0..Len(ss) -> Seq(S)] : Steps(ss, g)
  BY FlattenExists
<1>2. FlattenSeq(ss) = g[Len(ss)]
  BY <1>1, FlattenIs
<1> QED
  BY <1>2

\* Concatenation by another name, so that the provers do not expand it.
Glue(a, b) == a \o b

LEMMA GlueAssociates ==
  ASSUME NEW S, NEW s \in Seq(S), NEW t \in Seq(S), NEW u \in Seq(S)
  PROVE  Glue(s, Glue(t, u)) = Glue(Glue(s, t), u)
BY ConcatAssociative DEF Glue

LEMMA FlattenConcat ==
  ASSUME NEW S, NEW ss \in Seq(Seq(S)), NEW tt \in Seq(Seq(S))
  PROVE  FlattenSeq(ss \o tt) = FlattenSeq(ss) \o FlattenSeq(tt)
<1>n. PICK n \in Nat : n = Len(ss)
  OBVIOUS
<1>m. PICK m \in Nat : m = Len(tt)
  OBVIOUS
<1>b. PICK b : b = ss \o tt
  OBVIOUS
<1>1. PICK g \in [0..n -> Seq(S)] : Steps(ss, g)
  BY <1>n, FlattenExists
<1>2. PICK h \in [0..m -> Seq(S)] : Steps(tt, h)
  BY <1>m, FlattenExists
<1>3. b \in Seq(Seq(S)) /\ Len(b) = n + m
  BY <1>n, <1>m, <1>b
<1>4. g[n] = FlattenSeq(ss) /\ h[m] = FlattenSeq(tt)
  BY <1>n, <1>m, <1>1, <1>2, FlattenIs
<1>5. g[0] = <<>> /\ h[0] = <<>>
  BY <1>1, <1>2 DEF Steps
<1>6. \A i \in 1..n : b[i] = ss[i] /\ g[i] = g[i - 1] \o ss[i]
  <2>1. \A i \in 1..n : g[i] = g[i - 1] \o ss[i]
    BY <1>1, <1>n DEF Steps
  <2>2. \A i \in 1..n : (ss \o tt)[i] = ss[i]
    BY <1>n
  <2> QED
    BY <2>1, <2>2, <1>b
<1>7. \A i \in 1..m : b[n + i] = tt[i] /\ h[i] = h[i - 1] \o tt[i] /\ tt[i] \in Seq(S)
  <2>1. \A i \in 1..m : h[i] = h[i - 1] \o tt[i]
    BY <1>2, <1>m DEF Steps
  <2>2. \A i \in 1..m : tt[i] \in Seq(S)
    BY <1>m
  <2>3. ASSUME NEW i \in 1..m PROVE (ss \o tt)[n + i] = tt[i]
    <3>1. n + i \in 1..n + m /\ n + i > n /\ (n + i) - n = i
      OBVIOUS
    <3> QED
      BY <1>n, <1>m, <3>1
  <2> QED
    BY <2>1, <2>2, <2>3, <1>b
<1>8. PICK f : f = [i \in 0..n + m |-> IF i <= n THEN g[i] ELSE g[n] \o h[i - n]]
  OBVIOUS
<1>9. g[n] \in Seq(S)
  <2>1. n \in 0..n
    OBVIOUS
  <2> QED
    BY <2>1
<1>10. \A i \in 0..n : f[i] = g[i]
  BY <1>8
<1>11. \A j \in 0..m : f[n + j] = g[n] \o h[j]
  <2> SUFFICES ASSUME NEW j \in 0..m PROVE f[n + j] = g[n] \o h[j]
    OBVIOUS
  <2>1. CASE j = 0
    <3>1. n + j = n /\ n \in 0..n
      BY <2>1
    <3>2. g[n] \o <<>> = g[n]
      BY <1>9, ConcatEmptySeq
    <3> QED
      BY <1>5, <1>10, <2>1, <3>1, <3>2
  <2>2. CASE j # 0
    <3>1. n + j \in 0..n + m /\ ~(n + j <= n) /\ (n + j) - n = j
      BY <2>2
    <3> QED
      BY <1>8, <3>1
  <2> QED
    BY <2>1, <2>2
<1>12. f \in [0..n + m -> Seq(S)]
  <2> SUFFICES ASSUME NEW i \in 0..n + m
               PROVE  (IF i <= n THEN g[i] ELSE g[n] \o h[i - n]) \in Seq(S)
    BY <1>8
  <2>1. CASE i <= n
    <3>1. i \in 0..n
      BY <2>1
    <3> QED
      BY <2>1, <3>1
  <2>2. CASE ~(i <= n)
    <3>1. i - n \in 0..m
      BY <2>2
    <3>2. h[i - n] \in Seq(S)
      BY <3>1
    <3> QED
      BY <1>9, <2>2, <3>2
  <2> QED
    BY <2>1, <2>2
<1>13. f[0] = <<>>
  <2>1. 0 \in 0..n
    OBVIOUS
  <2> QED
    BY <1>5, <1>10, <2>1
<1>14. f[n + m] = g[n] \o h[m]
  <2>1. m \in 0..m
    OBVIOUS
  <2> QED
    BY <1>11, <2>1
<1>15. ASSUME NEW i \in 1..n + m PROVE f[i] = f[i - 1] \o b[i]
  <2>1. CASE i <= n
    <3>1. i \in 1..n /\ i \in 0..n /\ i - 1 \in 0..n
      BY <2>1
    <3>2. f[i] = g[i] /\ f[i - 1] = g[i - 1]
      BY <1>10, <3>1
    <3> QED
      BY <1>6, <3>1, <3>2
  <2>2. CASE ~(i <= n)
    <3>1. i - n \in 1..m /\ i = n + (i - n)
      BY <2>2
    <3>2. PICK j \in 1..m : i = n + j
      BY <3>1
    <3>3. j \in 0..m /\ j - 1 \in 0..m /\ i - 1 = n + (j - 1)
      BY <3>2
    <3>4. f[i] = g[n] \o h[j] /\ f[i - 1] = g[n] \o h[j - 1]
      BY <1>11, <3>2, <3>3
    <3>5. b[i] = tt[j] /\ h[j] = h[j - 1] \o tt[j] /\ tt[j] \in Seq(S)
      BY <1>7, <3>2
    <3>6. h[j - 1] \in Seq(S)
      BY <3>3
    <3>7. PICK p \in Seq(S) : p = h[j - 1]
      BY <3>6
    <3>8. PICK q \in Seq(S) : q = tt[j]
      BY <3>5
    <3>9. PICK a \in Seq(S) : a = g[n]
      BY <1>9
    <3>10. Glue(a, Glue(p, q)) = Glue(Glue(a, p), q)
      BY GlueAssociates
    <3> QED
      BY <3>4, <3>5, <3>7, <3>8, <3>9, <3>10 DEF Glue
  <2> QED
    BY <2>1, <2>2
<1>16. Steps(b, f) /\ f \in [0..Len(b) -> Seq(S)]
  BY <1>3, <1>12, <1>13, <1>15 DEF Steps
<1>17. FlattenSeq(b) = f[n + m]
  BY <1>3, <1>16, FlattenIs
<1> QED
  BY <1>4, <1>14, <1>17, <1>b

LEMMA FlattenOne ==
  ASSUME NEW S, NEW s \in Seq(S)
  PROVE  FlattenSeq(<<s>>) = s
<1> DEFINE ss == <<s>>
           g == [i \in 0..1 |-> IF i = 0 THEN <<>> ELSE s]
<1>1. ss \in Seq(Seq(S)) /\ Len(ss) = 1 /\ ss[1] = s
  OBVIOUS
<1>2. g \in [0..1 -> Seq(S)] /\ g[0] = <<>> /\ g[1] = s
  OBVIOUS
<1> HIDE DEF ss, g
<1>3. Steps(ss, g)
  <2> SUFFICES ASSUME NEW i \in 1..1 PROVE g[i] = g[i - 1] \o ss[i]
    BY <1>1, <1>2 DEF Steps
  <2>1. i = 1 /\ i - 1 = 0
    OBVIOUS
  <2>2. <<>> \o s = s
    BY ConcatEmptySeq
  <2> QED
    BY <1>1, <1>2, <2>1, <2>2
<1>4. FlattenSeq(ss) = g[1]
  BY <1>1, <1>2, <1>3, FlattenIs
<1> QED
  BY <1>2, <1>4 DEF ss

-----------------------------------------------------------------------------
(***************************************************************************)
(* What a sequence becomes when each of its characters c becomes d[c].     *)
(***************************************************************************)
Each(s, d) == [i \in DOMAIN s |-> d[s[i]]]
Image(s, d) == FlattenSeq(Each(s, d))

LEMMA EachAt ==
  ASSUME NEW C, NEW d, NEW s \in Seq(C)
  PROVE  \A i \in 1..Len(s) : Each(s, d)[i] = d[s[i]]
BY DEF Each

LEMMA EachType ==
  ASSUME NEW C, NEW d \in [C -> Seq(C)], NEW s \in Seq(C)
  PROVE  Each(s, d) \in Seq(Seq(C)) /\ Len(Each(s, d)) = Len(s)
<1>1. PICK n \in Nat : n = Len(s) /\ DOMAIN s = 1..n
  OBVIOUS
<1>2. \A i \in 1..n : s[i] \in C
  BY <1>1
<1>3. Each(s, d) = [i \in 1..n |-> d[s[i]]]
  BY <1>1 DEF Each
<1>4. \A i \in 1..n : d[s[i]] \in Seq(C)
  BY <1>2
<1>5. Each(s, d) \in [1..n -> Seq(C)]
  BY <1>3, <1>4
<1>6. Each(s, d) \in Seq(Seq(C)) /\ Len(Each(s, d)) = n
  BY <1>5, FunctionIsSeq
<1> QED
  BY <1>1, <1>3, <1>6

LEMMA ImageType ==
  ASSUME NEW C, NEW d \in [C -> Seq(C)], NEW s \in Seq(C)
  PROVE  Image(s, d) \in Seq(C)
<1>1. PICK e \in Seq(Seq(C)) : e = Each(s, d)
  BY EachType
<1> QED
  BY <1>1, FlattenType DEF Image

LEMMA EachConcat ==
  ASSUME NEW C, NEW d \in [C -> Seq(C)], NEW s \in Seq(C), NEW t \in Seq(C)
  PROVE  Each(s \o t, d) = Each(s, d) \o Each(t, d)
<1>n. PICK n \in Nat : n = Len(s)
  OBVIOUS
<1>m. PICK m \in Nat : m = Len(t)
  OBVIOUS
<1>1. n = Len(s) /\ m = Len(t)
  BY <1>n, <1>m
<1>2. PICK b \in Seq(C) : b = s \o t
  <2>1. s \o t \in Seq(C)
    OBVIOUS
  <2> QED
    BY <2>1
<1>3. Len(b) = n + m
  BY <1>1, <1>2
<1>4. PICK e \in Seq(Seq(C)) :
        e = Each(b, d) /\ Len(e) = Len(b) /\ \A i \in 1..Len(b) : e[i] = d[b[i]]
  <2>1. Each(b, d) \in Seq(Seq(C)) /\ Len(Each(b, d)) = Len(b)
    BY EachType
  <2>2. \A i \in 1..Len(b) : Each(b, d)[i] = d[b[i]]
    BY EachAt
  <2> QED
    BY <2>1, <2>2
<1>5. Len(e) = n + m /\ \A i \in 1..n + m : e[i] = d[b[i]]
  BY <1>3, <1>4
<1>6. PICK x \in Seq(Seq(C)) :
        x = Each(s, d) /\ Len(x) = Len(s) /\ \A i \in 1..Len(s) : x[i] = d[s[i]]
  <2>1. Each(s, d) \in Seq(Seq(C)) /\ Len(Each(s, d)) = Len(s)
    BY EachType
  <2>2. \A i \in 1..Len(s) : Each(s, d)[i] = d[s[i]]
    BY EachAt
  <2> QED
    BY <2>1, <2>2
<1>7. Len(x) = n /\ \A i \in 1..n : x[i] = d[s[i]]
  BY <1>1, <1>6
<1>8. PICK y \in Seq(Seq(C)) :
        y = Each(t, d) /\ Len(y) = Len(t) /\ \A i \in 1..Len(t) : y[i] = d[t[i]]
  <2>1. Each(t, d) \in Seq(Seq(C)) /\ Len(Each(t, d)) = Len(t)
    BY EachType
  <2>2. \A i \in 1..Len(t) : Each(t, d)[i] = d[t[i]]
    BY EachAt
  <2> QED
    BY <2>1, <2>2
<1>9. Len(y) = m /\ \A i \in 1..m : y[i] = d[t[i]]
  BY <1>1, <1>8
<1>10. x \o y \in Seq(Seq(C)) /\ Len(x \o y) = n + m
  <2>1. x \o y \in Seq(Seq(C)) /\ Len(x \o y) = Len(x) + Len(y)
    OBVIOUS
  <2> QED
    BY <1>7, <1>9, <2>1
<1>11. ASSUME NEW i \in 1..n + m PROVE e[i] = (x \o y)[i]
  <2>1. CASE i <= n
    <3>1. i \in 1..n
      BY <2>1
    <3>2. b[i] = s[i]
      BY <1>1, <1>2, <3>1
    <3>3. (x \o y)[i] = x[i]
      BY <1>7, <1>9, <3>1
    <3> QED
      BY <1>5, <1>7, <3>1, <3>2, <3>3
  <2>2. CASE ~(i <= n)
    <3>1. i - n \in 1..m /\ i = n + (i - n)
      BY <2>2
    <3>2. PICK j \in 1..m : j = i - n
      BY <3>1
    <3>3. b[i] = t[j]
      <4>1. i \in 1..Len(s) + Len(t) /\ i > Len(s) /\ i - Len(s) = j
        BY <1>1, <2>2, <3>2
      <4> QED
        BY <1>2, <4>1
    <3>4. (x \o y)[i] = y[j]
      <4>1. i \in 1..Len(x) + Len(y) /\ i > Len(x) /\ i - Len(x) = j
        BY <1>7, <1>9, <2>2, <3>2
      <4> QED
        BY <4>1
    <3> QED
      BY <1>5, <1>9, <3>3, <3>4
  <2> QED
    BY <2>1, <2>2
<1>12. e = x \o y
  BY <1>5, <1>10, <1>11, SeqEqual
<1> QED
  BY <1>2, <1>4, <1>6, <1>8, <1>12

LEMMA ImageConcat ==
  ASSUME NEW C, NEW d \in [C -> Seq(C)], NEW s \in Seq(C), NEW t \in Seq(C)
  PROVE  Image(s \o t, d) = Image(s, d) \o Image(t, d)
<1>1. Each(s \o t, d) = Each(s, d) \o Each(t, d)
  BY EachConcat
<1>2. PICK x \in Seq(Seq(C)), y \in Seq(Seq(C)) : x = Each(s, d) /\ y = Each(t, d)
  BY EachType
<1>3. FlattenSeq(x \o y) = FlattenSeq(x) \o FlattenSeq(y)
  BY FlattenConcat
<1> QED
  BY <1>1, <1>2, <1>3 DEF Image

LEMMA ImageOne ==
  ASSUME NEW C, NEW d \in [C -> Seq(C)], NEW c \in C
  PROVE  Image(<<c>>, d) = d[c]
<1>1. Each(<<c>>, d) = <<d[c]>>
  BY DEF Each
<1>2. FlattenSeq(<<d[c]>>) = d[c]
  <2>1. PICK s \in Seq(C) : s = d[c]
    OBVIOUS
  <2>2. FlattenSeq(<<s>>) = s
    BY FlattenOne
  <2> QED
    BY <2>1, <2>2
<1> QED
  BY <1>1, <1>2 DEF Image

LEMMA ImageNone ==
  ASSUME NEW C, NEW d \in [C -> Seq(C)]
  PROVE  Image(<<>>, d) = <<>>
<1>1. Each(<<>>, d) = <<>>
  BY DEF Each
<1>2. FlattenSeq(<<>>) = <<>>
  BY DEF FlattenSeq
<1> QED
  BY <1>1, <1>2 DEF Image

\* Named, so that the provers do not expand them.
Maps(C) == [C -> Seq(C)]
Rows(n, C) == [1..n -> Seq(C)]

LEMMA ImageFlatten ==
  ASSUME NEW C, NEW d \in Maps(C), NEW n \in Nat, NEW ss \in Rows(n, C)
  PROVE  \E ii \in Rows(n, C) :
           (\A i \in 1..n : ii[i] = Image(ss[i], d)) /\ Image(FlattenSeq(ss), d) = FlattenSeq(ii)
<1> USE DEF Maps, Rows
<1>0. PICK ii : ii = [i \in 1..n |-> Image(ss[i], d)]
  OBVIOUS
<1>a. ii \in [1..n -> Seq(C)]
  BY <1>0, ImageType
<1>1. ss \in Seq(Seq(C)) /\ Len(ss) = n /\ ii \in Seq(Seq(C)) /\ Len(ii) = n
  BY <1>a, FunctionIsSeq
<1>2. PICK g \in [0..n -> Seq(C)] : Steps(ss, g)
  BY <1>1, FlattenExists
<1>3. PICK h : h = [i \in 0..n |-> Image(g[i], d)]
  OBVIOUS
<1>4. h \in [0..n -> Seq(C)]
  BY <1>3, ImageType
<1>5. h[0] = <<>>
  <2>1. 0 \in 0..n /\ g[0] = <<>>
    BY <1>2 DEF Steps
  <2> QED
    BY <1>3, <2>1, ImageNone
<1>6. ASSUME NEW i \in 1..n PROVE h[i] = h[i - 1] \o ii[i]
  <2>1. i \in 0..n /\ i - 1 \in 0..n
    OBVIOUS
  <2>2. h[i] = Image(g[i], d) /\ h[i - 1] = Image(g[i - 1], d)
    BY <1>3, <2>1
  <2>3. g[i] = g[i - 1] \o ss[i]
    BY <1>1, <1>2 DEF Steps
  <2>4. PICK p \in Seq(C), q \in Seq(C) : p = g[i - 1] /\ q = ss[i]
    BY <2>1
  <2>5. Image(p \o q, d) = Image(p, d) \o Image(q, d)
    BY ImageConcat
  <2>6. ii[i] = Image(ss[i], d)
    BY <1>0
  <2> QED
    BY <2>2, <2>3, <2>4, <2>5, <2>6
<1>7. Steps(ii, h)
  BY <1>1, <1>5, <1>6 DEF Steps
<1>8. FlattenSeq(ii) = h[n]
  BY <1>1, <1>4, <1>7, FlattenIs
<1>9. FlattenSeq(ss) = g[n]
  BY <1>1, <1>2, FlattenIs
<1>10. n \in 0..n
  OBVIOUS
<1>11. Image(FlattenSeq(ss), d) = FlattenSeq(ii)
  BY <1>3, <1>8, <1>9, <1>10
<1> QED
  BY <1>0, <1>a, <1>11

\* A sequence, from its characters one by one.
LEMMA FlattenSingles ==
  ASSUME NEW C, NEW s \in Seq(C), NEW n \in Nat, n = Len(s),
         NEW ss \in [1..n -> Seq(C)], \A i \in 1..n : ss[i] = <<s[i]>>
  PROVE  FlattenSeq(ss) = s
<1>1. ss \in Seq(Seq(C)) /\ Len(ss) = n
  BY FunctionIsSeq
<1>2. PICK g : g = [i \in 0..n |-> SubSeq(s, 1, i)]
  OBVIOUS
<1>3. g \in [0..n -> Seq(C)]
  BY <1>2
<1>4. g[0] = <<>>
  BY <1>2
<1>5. ASSUME NEW i \in 1..n PROVE g[i] = g[i - 1] \o ss[i]
  <2>1. i \in 0..n /\ i - 1 \in 0..n
    OBVIOUS
  <2>2. g[i] = SubSeq(s, 1, i) /\ g[i - 1] = SubSeq(s, 1, i - 1)
    BY <1>2, <2>1
  <2>3. ss[i] = <<s[i]>>
    OBVIOUS
  <2>4. SubSeq(s, 1, i) = SubSeq(s, 1, i - 1) \o <<s[i]>>
    OBVIOUS
  <2> QED
    BY <2>2, <2>3, <2>4
<1>6. Steps(ss, g)
  BY <1>1, <1>4, <1>5 DEF Steps
<1>7. FlattenSeq(ss) = g[n]
  BY <1>1, <1>3, <1>6, FlattenIs
<1>8. g[n] = s
  BY <1>2
<1> QED
  BY <1>7, <1>8

-----------------------------------------------------------------------------
(***************************************************************************)
(* Cutting and joining.                                                    *)
(***************************************************************************)
Letters == {Quote, Other}
Chars == {Quote, Other, Nul}
GuardQuote == [c \in Chars |-> IF c = Quote THEN <<Nul, Quote>> ELSE <<c>>]
DropNul == [c \in Chars |-> IF c = Nul THEN <<>> ELSE <<c>>]

LEMMA CharsType ==
  /\ GuardQuote \in [Chars -> Seq(Chars)] /\ DropNul \in [Chars -> Seq(Chars)]
  /\ Letters \subseteq Chars /\ Quote # Nul /\ Other # Nul
  /\ \A s \in Seq(Letters) : s \in Seq(Chars)
<1>0. /\ <<Nul, Quote>> \in Seq(Chars) /\ <<>> \in Seq(Chars)
      /\ \A c \in Chars : <<c>> \in Seq(Chars)
  <2>1. Nul \in Chars /\ Quote \in Chars
    BY DEF Chars
  <2> HIDE DEF Chars, Nul, Quote
  <2>2. <<Nul, Quote>> \in Seq(Chars)
    BY <2>1
  <2>3. \A c \in Chars : <<c>> \in Seq(Chars)
    OBVIOUS
  <2> QED
    BY <2>2, <2>3
<1>1. \A c \in Chars : (IF c = Quote THEN <<Nul, Quote>> ELSE <<c>>) \in Seq(Chars)
  BY <1>0
<1>2. \A c \in Chars : (IF c = Nul THEN <<>> ELSE <<c>>) \in Seq(Chars)
  BY <1>0
<1>3. Letters \subseteq Chars /\ Quote # Nul /\ Other # Nul
  BY DEF Letters, Chars, Quote, Other, Nul
<1>4. \A s \in Seq(Letters) : s \in Seq(Chars)
  BY <1>3
<1> QED
  BY <1>1, <1>2, <1>3, <1>4 DEF GuardQuote, DropNul

LEMMA AsImages ==
  ASSUME NEW s \in Seq(Chars)
  PROVE  Guarded(s) = Image(s, GuardQuote) /\ WithoutNuls(s) = Image(s, DropNul)
<1>1. \A i \in DOMAIN s : s[i] \in Chars
  OBVIOUS
<1>2. [i \in DOMAIN s |-> IF s[i] = Quote THEN <<Nul, Quote>> ELSE <<s[i]>>] = Each(s, GuardQuote)
  BY <1>1 DEF Each, GuardQuote
<1>3. [i \in DOMAIN s |-> IF s[i] = Nul THEN <<>> ELSE <<s[i]>>] = Each(s, DropNul)
  BY <1>1 DEF Each, DropNul
<1> QED
  BY <1>2, <1>3 DEF Image, Guarded, WithoutNuls

LEMMA WithoutNulsOfGuarded ==
  ASSUME NEW text \in Seq(Letters)
  PROVE  Guarded(text) \in Seq(Chars) /\ WithoutNuls(Guarded(text)) = text
<1>1. text \in Seq(Chars)
  BY CharsType
<1>n. PICK n \in Nat : n = Len(text) /\ DOMAIN text = 1..n
  OBVIOUS
<1>2. PICK ss : ss = Each(text, GuardQuote)
  OBVIOUS
<1>3. Guarded(text) = FlattenSeq(ss)
  BY <1>1, <1>2, AsImages DEF Image
<1>4. Guarded(text) \in Seq(Chars)
  BY <1>1, AsImages, CharsType, ImageType
<1>5. ss \in [1..n -> Seq(Chars)]
  BY <1>1, <1>n, <1>2, CharsType DEF Each
<1>6. PICK ii \in [1..n -> Seq(Chars)] :
        /\ \A i \in 1..n : ii[i] = Image(ss[i], DropNul)
        /\ Image(FlattenSeq(ss), DropNul) = FlattenSeq(ii)
  <2>1. DropNul \in Maps(Chars) /\ ss \in Rows(n, Chars)
    BY <1>5, CharsType DEF Maps, Rows
  <2>2. PICK ii \in Rows(n, Chars) :
          (\A i \in 1..n : ii[i] = Image(ss[i], DropNul)) /\ Image(FlattenSeq(ss), DropNul) = FlattenSeq(ii)
    BY <2>1, ImageFlatten
  <2> QED
    BY <2>2 DEF Rows
<1>8. ASSUME NEW i \in 1..n PROVE ii[i] = <<text[i]>>
  <2>1. text[i] \in Letters /\ ii[i] = Image(ss[i], DropNul) /\ ss[i] = GuardQuote[text[i]]
    BY <1>n, <1>2, <1>6 DEF Each
  <2>2. PICK c \in Letters : c = text[i]
    BY <2>1
  <2>3. c \in Chars /\ c # Nul /\ Nul \in Chars
    BY CharsType DEF Letters, Chars
  <2>4. Image(<<c>>, DropNul) = <<c>> /\ Image(<<Nul>>, DropNul) = <<>>
    <3>1. DropNul \in [Chars -> Seq(Chars)]
      BY CharsType
    <3>2. DropNul[c] = <<c>> /\ DropNul[Nul] = <<>>
      BY <2>3 DEF DropNul
    <3>3. Image(<<c>>, DropNul) = DropNul[c]
      BY <2>3, <3>1, ImageOne
    <3>4. Image(<<Nul>>, DropNul) = DropNul[Nul]
      BY <2>3, <3>1, ImageOne
    <3> QED
      BY <3>2, <3>3, <3>4
  <2>5. CASE c = Quote
    <3>1. ss[i] = <<Nul>> \o <<c>>
      BY <2>1, <2>2, <2>3, <2>5 DEF GuardQuote
    <3>2. <<Nul>> \in Seq(Chars) /\ <<c>> \in Seq(Chars)
      BY <2>3
    <3>3. Image(<<Nul>> \o <<c>>, DropNul) = Image(<<Nul>>, DropNul) \o Image(<<c>>, DropNul)
      BY <3>2, CharsType, ImageConcat
    <3>4. <<>> \o <<c>> = <<c>>
      OBVIOUS
    <3> QED
      BY <2>1, <2>2, <2>4, <3>1, <3>3, <3>4
  <2>6. CASE c # Quote
    <3>1. ss[i] = <<c>>
      BY <2>1, <2>2, <2>3, <2>6 DEF GuardQuote
    <3> QED
      BY <2>1, <2>2, <2>4, <3>1
  <2> QED
    BY <2>5, <2>6
<1>10. FlattenSeq(ii) = text
  BY <1>1, <1>n, <1>8, FlattenSingles
<1> QED
  BY <1>3, <1>4, <1>6, <1>10, AsImages

LEMMA Multiples ==
  ASSUME NEW D \in Nat \ {0}, NEW i \in Nat, NEW j \in Nat, i <= j
  PROVE  i * D <= j * D
<1>1. PICK k \in Nat : j = i + k
  <2>1. j - i \in Nat /\ j = i + (j - i)
    OBVIOUS
  <2> QED
    BY <2>1
<1>2. k * D \in Nat /\ i * D \in Nat /\ j * D = i * D + k * D
  BY <1>1
<1> QED
  BY <1>2

LEMMA Quotient ==
  ASSUME NEW D \in Nat, D > 0, NEW a \in Nat
  PROVE  a \div D \in Nat /\ D * (a \div D) <= a /\ a < D * (a \div D) + D
<1>1. a \div D \in Nat
  OBVIOUS
<1>2. D * (a \div D) <= a
  OBVIOUS
<1>3. a < D * (a \div D) + D
  OBVIOUS
<1> QED
  BY <1>1, <1>2, <1>3

LEMMA RoundedUp ==
  ASSUME NEW D \in Nat \ {0}, NEW n \in Nat \ {0}, NEW c, c = (n + D - 1) \div D
  PROVE  c \in Nat \ {0} /\ n <= c * D /\ (c - 1) * D < n
<1>1. PICK a \in Nat : a = n + D - 1
  OBVIOUS
<1>2. D \in Nat /\ D > 0
  OBVIOUS
<1>3. c = a \div D
  BY <1>1
<1>4. c \in Nat /\ D * c <= a /\ a < D * c + D
  BY <1>2, <1>3, Quotient
<1>5. c # 0
  <2> SUFFICES ASSUME c = 0 PROVE FALSE
    OBVIOUS
  <2>1. D * c = 0
    OBVIOUS
  <2> QED
    BY <1>1, <1>4, <2>1
<1>6. c * D = D * c /\ (c - 1) * D = D * c - D /\ D * c \in Nat
  BY <1>4
<1> QED
  BY <1>1, <1>4, <1>5, <1>6

LEMMA MinIs ==
  ASSUME NEW a \in Nat, NEW b \in Nat
  PROVE  Min({a, b}) = IF a <= b THEN a ELSE b
<1>1. CASE a <= b
  <2>1. a \in {a, b} /\ \A y \in {a, b} : a <= y
    BY <1>1
  <2>2. \A x \in {a, b} : (\A y \in {a, b} : x <= y) => x = a
    BY <1>1
  <2> QED
    BY <1>1, <2>1, <2>2 DEF Min
<1>2. CASE ~(a <= b)
  <2>1. b \in {a, b} /\ \A y \in {a, b} : b <= y
    BY <1>2
  <2>2. \A x \in {a, b} : (\A y \in {a, b} : x <= y) => x = b
    BY <1>2
  <2> QED
    BY <1>2, <2>1, <2>2 DEF Min
<1> QED
  BY <1>1, <1>2

\* The parts of a text, one after the other, are its guarded text.
LEMMA PartsJoin ==
  ASSUME NEW text \in Seq(Letters), text # <<>>
  PROVE  \E c \in Nat \ {0} :
           /\ Parts(text) \in Rows(c, Chars)
           /\ FlattenSeq(Parts(text)) = Guarded(text)
<1>1. PICK json \in Seq(Chars) : json = Guarded(text) /\ WithoutNuls(json) = text
  BY WithoutNulsOfGuarded
<1>2. json # <<>>
  <2>1. WithoutNuls(<<>>) = <<>>
    BY DEF WithoutNuls, FlattenSeq
  <2> QED
    BY <1>1, <2>1
<1>3. PICK n \in Nat \ {0} : n = Len(json)
  BY <1>2
<1>4. PICK D \in Nat \ {0} : D = DataMaxSize
  BY ConstantsAssumption DEF DataMaxSize
<1>5. PICK c : c = (n + D - 1) \div D
  OBVIOUS
<1>6. c \in Nat \ {0} /\ n <= c * D /\ (c - 1) * D < n
  BY <1>5, RoundedUp
<1>7. PICK pp : pp = [i \in 1..c |-> SubSeq(json, (i - 1) * D + 1, Min({i * D, n}))]
  OBVIOUS
<1>8. Parts(text) = pp
  BY <1>1, <1>3, <1>4, <1>5, <1>7 DEF Parts
<1>9. PICK e : e = [i \in 0..c |-> IF i * D <= n THEN i * D ELSE n]
  OBVIOUS
<1>10. e \in [0..c -> 0..n]
  <2> SUFFICES ASSUME NEW i \in 0..c PROVE (IF i * D <= n THEN i * D ELSE n) \in 0..n
    BY <1>9
  <2>1. i * D \in Nat
    BY <1>6
  <2> QED
    BY <2>1
<1>11. ASSUME NEW i \in 1..c
       PROVE  /\ (i - 1) * D = e[i - 1] /\ Min({i * D, n}) = e[i]
              /\ e[i - 1] \in 0..n /\ e[i] \in e[i - 1]..n
  <2>1. i \in Nat /\ i - 1 \in Nat /\ c - 1 \in Nat /\ i - 1 <= c - 1 /\ i - 1 \in 0..c /\ i \in 0..c
    BY <1>6
  <2>2. (i - 1) * D <= (c - 1) * D
    BY <2>1, Multiples
  <2>3. (i - 1) * D \in Nat /\ i * D \in Nat /\ (c - 1) * D \in Nat /\ (i - 1) * D <= i * D
    BY <2>1, Multiples
  <2>4. (i - 1) * D < n
    BY <1>6, <2>2, <2>3
  <2>5. e[i - 1] = (i - 1) * D
    BY <1>9, <2>1, <2>3, <2>4
  <2>6. e[i] = IF i * D <= n THEN i * D ELSE n
    BY <1>9, <2>1
  <2>7. Min({i * D, n}) = e[i]
    BY <2>3, <2>6, MinIs
  <2>8. e[i - 1] \in 0..n /\ e[i] \in 0..n
    BY <1>10, <2>1
  <2>9. e[i - 1] <= e[i]
    BY <2>3, <2>4, <2>5, <2>6
  <2> QED
    BY <2>5, <2>7, <2>8, <2>9
<1>12. ASSUME NEW i \in 1..c PROVE pp[i] = SubSeq(json, e[i - 1] + 1, e[i])
  BY <1>7, <1>11
<1>13. pp \in [1..c -> Seq(Chars)]
  <2> SUFFICES ASSUME NEW i \in 1..c
               PROVE  SubSeq(json, (i - 1) * D + 1, Min({i * D, n})) \in Seq(Chars)
    BY <1>7
  <2>a. PICK k \in 0..n : k = e[i - 1]
    BY <1>11
  <2>1. PICK m \in k..n : m = e[i]
    BY <1>11, <2>a
  <2>2. SubSeq(json, k + 1, m) \in Seq(Chars)
    BY <1>3, <2>1
  <2> QED
    BY <1>11, <2>a, <2>1, <2>2
<1>14. PICK g : g = [i \in 0..c |-> SubSeq(json, 1, e[i])]
  OBVIOUS
<1>15. g \in [0..c -> Seq(Chars)]
  <2> SUFFICES ASSUME NEW i \in 0..c PROVE SubSeq(json, 1, e[i]) \in Seq(Chars)
    BY <1>14
  <2>1. PICK k \in 0..n : k = e[i]
    BY <1>10
  <2> QED
    BY <1>3, <2>1
<1>16. g[0] = <<>>
  <2>1. 0 \in 0..c /\ 0 * D = 0
    BY <1>6
  <2>2. e[0] = 0
    BY <1>9, <2>1
  <2> QED
    BY <1>14, <2>1, <2>2
<1>17. ASSUME NEW i \in 1..c PROVE g[i] = g[i - 1] \o pp[i]
  <2>1. i \in 0..c /\ i - 1 \in 0..c
    BY <1>6
  <2>2. PICK k \in 0..n : k = e[i - 1]
    BY <1>11
  <2>3. PICK m \in k..n : m = e[i]
    BY <1>11, <2>2
  <2>4. SubSeq(json, 1, k) \o SubSeq(json, k + 1, m) = SubSeq(json, 1, m)
    <3>1. 1 \in 1..Len(json) + 1 /\ k \in 1 - 1..Len(json) /\ m \in k..Len(json)
      BY <1>3, <2>2, <2>3
    <3> QED
      BY <3>1, ConcatAdjacentSubSeq
  <2> QED
    BY <1>12, <1>14, <2>1, <2>2, <2>3, <2>4
<1>18. pp \in Seq(Seq(Chars)) /\ Len(pp) = c
  BY <1>6, <1>13, FunctionIsSeq
<1>19. Steps(pp, g)
  BY <1>16, <1>17, <1>18 DEF Steps
<1>20. FlattenSeq(pp) = g[c]
  BY <1>15, <1>18, <1>19, FlattenIs
<1>21. g[c] = json
  <2>1. c \in 0..c
    BY <1>6
  <2>2. e[c] = n
    BY <1>6, <1>9, <2>1
  <2>3. SubSeq(json, 1, Len(json)) = json
    BY SubSeqFull
  <2> QED
    BY <1>3, <1>14, <2>1, <2>2, <2>3
<1> QED
  BY <1>1, <1>6, <1>8, <1>13, <1>20, <1>21 DEF Rows

Data(pieces) == [i \in DOMAIN pieces |-> pieces[i].data]

\* The fragments of a text: numbered from 0, each with the number of all of them,
\* and with data that, put together, is the text.
LEMMA CutShape ==
  ASSUME NEW t \in Seq(Letters), t # <<>>
  PROVE  /\ Len(Cut(t)) \in Nat \ {0} /\ DOMAIN Cut(t) = 1..Len(Cut(t))
         /\ \A i \in 1..Len(Cut(t)) :
              /\ Cut(t)[i].digest = t /\ Cut(t)[i].index = i - 1
              /\ Cut(t)[i].length = Len(Cut(t))
              /\ Cut(t)[i].data \in Seq(Chars)
         /\ FlattenSeq(Data(Cut(t))) = t
<1>1. PICK c \in Nat \ {0} : /\ Parts(t) \in Rows(c, Chars)
                             /\ FlattenSeq(Parts(t)) = Guarded(t)
  BY PartsJoin
<1>2. PICK pp : pp = Parts(t)
  OBVIOUS
<1>3. pp \in Rows(c, Chars) /\ pp \in [1..c -> Seq(Chars)] /\ DOMAIN pp = 1..c /\ Len(pp) = c
  BY <1>1, <1>2 DEF Rows
<1>4. PICK cut : cut = Cut(t)
  OBVIOUS
<1>5. cut = [i \in 1..c |-> [digest |-> t, index |-> i - 1, length |-> c,
                             data |-> WithoutNuls(pp[i])]]
  BY <1>2, <1>3, <1>4 DEF Cut
<1>6. DOMAIN cut = 1..c /\ Len(cut) = c
  BY <1>5
<1>7. \A i \in 1..c : /\ cut[i].digest = t /\ cut[i].index = i - 1 /\ cut[i].length = c
                      /\ cut[i].data = WithoutNuls(pp[i])
  BY <1>5
<1>8. DropNul \in Maps(Chars) /\ c \in Nat /\ pp \in Rows(c, Chars)
  BY <1>3, CharsType DEF Maps
<1>9. PICK ii \in Rows(c, Chars) : /\ \A i \in 1..c : ii[i] = Image(pp[i], DropNul)
                                   /\ Image(FlattenSeq(pp), DropNul) = FlattenSeq(ii)
  BY <1>8, ImageFlatten
<1>10. \A i \in 1..c : cut[i].data = ii[i] /\ ii[i] \in Seq(Chars)
  <2> SUFFICES ASSUME NEW i \in 1..c PROVE cut[i].data = ii[i] /\ ii[i] \in Seq(Chars)
    OBVIOUS
  <2>1. pp[i] \in Seq(Chars) /\ ii[i] \in Seq(Chars)
    BY <1>3 DEF Rows
  <2>2. WithoutNuls(pp[i]) = Image(pp[i], DropNul)
    BY <2>1, AsImages
  <2> QED
    BY <1>7, <1>9, <2>1, <2>2
<1>11. Data(cut) = ii
  <2>1. ii = [i \in 1..c |-> ii[i]]
    BY DEF Rows
  <2>2. Data(cut) = [i \in 1..c |-> cut[i].data]
    BY <1>6 DEF Data
  <2> QED
    BY <1>10, <2>1, <2>2
<1>12. Guarded(t) \in Seq(Chars) /\ WithoutNuls(Guarded(t)) = t
  BY WithoutNulsOfGuarded
<1>13. FlattenSeq(ii) = t
  BY <1>1, <1>2, <1>9, <1>12, AsImages
<1> QED
  BY <1>4, <1>6, <1>7, <1>10, <1>11, <1>13

LEMMA RangeSize ==
  ASSUME NEW n \in Nat, NEW s, DOMAIN s = 1..n, NEW T, s \in [1..n -> T],
         \A i, j \in 1..n : s[i] = s[j] => i = j
  PROVE  IsFiniteSet(Range(s)) /\ Cardinality(Range(s)) = n
<1>1. s \in [1..n -> Range(s)]
  BY DEF Range
<1>2. s \in Bijection(1..n, Range(s))
  BY <1>1 DEF Bijection, Injection, Surjection, IsInjective, Range
<1>3. IsFiniteSet(1..n) /\ Cardinality(1..n) = n
  BY FS_Interval
<1>4. ExistsBijection(1..n, Range(s))
  BY <1>2 DEF ExistsBijection
<1> QED
  BY <1>3, <1>4, FS_Bijection

-----------------------------------------------------------------------------
(***************************************************************************)
(* The fragments of a text as a set, and joining them.                     *)
(***************************************************************************)
Texts == {t \in Seq(Letters) : t # <<>> /\ t # None}
Pieces(t) == Len(Cut(t))
FragsOf(t) == Range(Cut(t))

LEMMA SentTexts ==
  ASSUME NEW texts \in Sendings, NEW t \in texts
  PROVE  t \in Texts
BY ConstantsAssumption DEF Texts, Letters

LEMMA FragsShape ==
  ASSUME NEW t \in Texts
  PROVE  /\ Pieces(t) \in Nat \ {0}
         /\ \A g \in FragsOf(t) :
              /\ g.digest = t /\ g.length = Pieces(t) /\ g.index \in 0..Pieces(t) - 1
              /\ g = Cut(t)[g.index + 1]
         /\ \A i \in 0..Pieces(t) - 1 : Cut(t)[i + 1] \in FragsOf(t) /\ Cut(t)[i + 1].index = i
<1>1. t \in Seq(Letters) /\ t # <<>>
  BY DEF Texts
<1>2. PICK cut : cut = Cut(t)
  OBVIOUS
<1>3. PICK c \in Nat \ {0} : c = Len(cut)
  BY <1>1, <1>2, CutShape
<1>4. DOMAIN cut = 1..c
  BY <1>1, <1>2, <1>3, CutShape
<1>5. \A i \in 1..c : cut[i].digest = t /\ cut[i].index = i - 1 /\ cut[i].length = c
  BY <1>1, <1>2, <1>3, CutShape
<1>6. Pieces(t) = c /\ FragsOf(t) = {cut[i] : i \in 1..c}
  BY <1>2, <1>3, <1>4 DEF Pieces, FragsOf, Range
<1>7. ASSUME NEW g \in FragsOf(t)
      PROVE  /\ g.digest = t /\ g.length = c /\ g.index \in 0..c - 1
             /\ g = cut[g.index + 1]
  <2>1. PICK i \in 1..c : g = cut[i]
    BY <1>6
  <2>2. g.index = i - 1 /\ (i - 1) + 1 = i /\ i - 1 \in 0..c - 1
    BY <1>5, <2>1
  <2> QED
    BY <1>5, <2>1, <2>2
<1>8. ASSUME NEW i \in 0..c - 1 PROVE cut[i + 1] \in FragsOf(t) /\ cut[i + 1].index = i
  <2>1. i + 1 \in 1..c /\ (i + 1) - 1 = i
    OBVIOUS
  <2> QED
    BY <1>5, <1>6, <2>1
<1> QED
  BY <1>2, <1>6, <1>7, <1>8

LEMMA FragsSize ==
  ASSUME NEW t \in Texts
  PROVE  IsFiniteSet(FragsOf(t)) /\ Cardinality(FragsOf(t)) = Pieces(t)
<1>1. t \in Seq(Letters) /\ t # <<>>
  BY DEF Texts
<1>2. PICK cut : cut = Cut(t)
  OBVIOUS
<1>3. PICK c \in Nat \ {0} : c = Len(cut)
  BY <1>1, <1>2, CutShape
<1>4. DOMAIN cut = 1..c
  BY <1>1, <1>2, <1>3, CutShape
<1>5. \A i \in 1..c : cut[i].index = i - 1
  BY <1>1, <1>2, <1>3, CutShape
<1>6. cut \in [1..c -> FragsOf(t)]
  <2>1. cut = [i \in 1..c |-> cut[i]]
    BY <1>2, <1>4 DEF Cut
  <2>2. \A i \in 1..c : cut[i] \in FragsOf(t)
    BY <1>2, <1>4 DEF FragsOf, Range
  <2> QED
    BY <2>1, <2>2
<1>7. \A i, j \in 1..c : cut[i] = cut[j] => i = j
  <2> SUFFICES ASSUME NEW i \in 1..c, NEW j \in 1..c, cut[i] = cut[j] PROVE i = j
    OBVIOUS
  <2>1. i - 1 = j - 1
    BY <1>5
  <2> QED
    BY <2>1
<1>8. IsFiniteSet(Range(cut)) /\ Cardinality(Range(cut)) = c
  BY <1>4, <1>6, <1>7, RangeSize
<1> QED
  BY <1>2, <1>3, <1>8 DEF FragsOf, Pieces

LEMMA JoinedIs ==
  ASSUME NEW t \in Texts
  PROVE  Joined(FragsOf(t)) = t
<1>1. PICK c \in Nat \ {0} : c = Pieces(t) /\ Cardinality(FragsOf(t)) = c
  BY FragsShape, FragsSize
<1>2. ASSUME NEW i \in 1..c
      PROVE  (CHOOSE g \in FragsOf(t) : g.index = i - 1).data = Cut(t)[i].data
  <2>1. i - 1 \in 0..c - 1 /\ (i - 1) + 1 = i
    OBVIOUS
  <2>2. Cut(t)[i] \in FragsOf(t) /\ Cut(t)[i].index = i - 1
    BY <1>1, <2>1, FragsShape
  <2>3. \A g \in FragsOf(t) : g.index = i - 1 => g = Cut(t)[i]
    BY <2>1, FragsShape
  <2>4. (CHOOSE g \in FragsOf(t) : g.index = i - 1) = Cut(t)[i]
    BY <2>2, <2>3
  <2> QED
    BY <2>4
<1>3. DOMAIN Cut(t) = 1..c
  <2>1. t \in Seq(Letters) /\ t # <<>>
    BY DEF Texts
  <2> QED
    BY <1>1, <2>1, CutShape DEF Pieces
<1>4. [i \in 1..c |-> (CHOOSE g \in FragsOf(t) : g.index = i - 1).data] = Data(Cut(t))
  BY <1>2, <1>3 DEF Data
<1>5. FlattenSeq(Data(Cut(t))) = t
  BY CutShape DEF Texts
<1> QED
  BY <1>1, <1>4, <1>5 DEF Joined

-----------------------------------------------------------------------------
(***************************************************************************)
(* One call of get_complete_datagram: the map after the insertion, the     *)
(* siblings found in it, and when they are all there.                      *)
(***************************************************************************)
LEMMA AllShape ==
  ASSUME sent \in Sendings
  PROVE  /\ \A g \in AllFragments :
              /\ g.digest \in sent /\ g.digest \in Texts /\ g \in FragsOf(g.digest)
              /\ g.length = Pieces(g.digest) /\ g.index \in 0..Pieces(g.digest) - 1
         /\ \A g, h \in AllFragments : g.digest = h.digest /\ g.index = h.index => g = h
         /\ \A t \in sent : t \in Texts /\ FragsOf(t) \subseteq AllFragments
<1>1. \A t \in sent : t \in Texts
  BY SentTexts
<1>2. AllFragments = UNION {FragsOf(t) : t \in sent}
  BY DEF AllFragments, FragsOf
<1>3. \A t \in sent : FragsOf(t) \subseteq AllFragments
  BY <1>2
<1>4. ASSUME NEW g \in AllFragments
      PROVE  /\ g.digest \in sent /\ g.digest \in Texts /\ g \in FragsOf(g.digest)
             /\ g.length = Pieces(g.digest) /\ g.index \in 0..Pieces(g.digest) - 1
             /\ g = Cut(g.digest)[g.index + 1]
  <2>1. PICK t \in sent : g \in FragsOf(t)
    BY <1>2
  <2>2. /\ g.digest = t /\ g.length = Pieces(t) /\ g.index \in 0..Pieces(t) - 1
        /\ g = Cut(t)[g.index + 1]
    BY <1>1, <2>1, FragsShape
  <2> QED
    BY <1>1, <2>1, <2>2
<1>5. ASSUME NEW g \in AllFragments, NEW h \in AllFragments, g.digest = h.digest, g.index = h.index
      PROVE  g = h
  BY <1>4, <1>5
<1> QED
  BY <1>1, <1>3, <1>4, <1>5

LEMMA InsertedIs ==
  ASSUME sent \in Sendings, fragments \subseteq AllFragments, IsFiniteSet(fragments),
         NEW f \in AllFragments
  PROVE  /\ Inserted(f) \subseteq AllFragments /\ IsFiniteSet(Inserted(f))
         /\ Cardinality(Inserted(f)) \in Nat /\ Cardinality(Inserted(f)) <= Limit
         /\ \/ Inserted(f) = {} /\ Cardinality(fragments \cup {f}) > Limit
            \/ Inserted(f) = fragments \cup {f}
<1>1. \A g \in fragments : Key(g) = Key(f) => g = f
  BY AllShape DEF Key
<1>2. PICK all : all = fragments \cup {f}
  OBVIOUS
<1>3. {g \in fragments : Key(g) # Key(f)} \cup {f} = all
  BY <1>1, <1>2
<1>4. Inserted(f) = IF Cardinality(all) > Limit THEN {} ELSE all
  BY <1>3 DEF Inserted
<1>5. IsFiniteSet(all) /\ all \subseteq AllFragments
  BY <1>2, FS_AddElement
<1>6. Cardinality(all) \in Nat
  BY <1>5, FS_CardinalityType
<1>7. IsFiniteSet({}) /\ Cardinality({}) = 0
  BY FS_EmptySet
<1>8. Limit \in Nat
  BY ConstantsAssumption
<1>9. CASE Cardinality(all) > Limit
  <2>1. Inserted(f) = {}
    BY <1>4, <1>9
  <2> QED
    BY <1>2, <1>7, <1>8, <1>9, <2>1
<1>10. CASE ~(Cardinality(all) > Limit)
  <2>1. Inserted(f) = all
    BY <1>4, <1>10
  <2> QED
    BY <1>2, <1>5, <1>6, <1>8, <1>10, <2>1
<1> QED
  BY <1>9, <1>10

LEMMA SiblingsAre ==
  ASSUME sent \in Sendings, NEW f \in AllFragments, NEW kept \in SUBSET AllFragments
  PROVE  Siblings(f, kept) = {g \in kept : g.digest = f.digest}
<1>1. f \in FragsOf(f.digest) /\ f.length = Pieces(f.digest)
  BY AllShape
<1>2. ASSUME NEW i PROVE Key([f EXCEPT !.index = i]) = <<i, f.digest>>
  <2>1. f = Cut(f.digest)[f.index + 1] /\ f.digest \in Texts
    BY <1>1, AllShape, FragsShape
  <2>2. PICK t \in Texts : t = f.digest
    BY <2>1
  <2>3. PICK p : p = Parts(t)
    OBVIOUS
  <2>4. PICK j : j = f.index + 1 /\ j \in DOMAIN Cut(t)
    <3>1. f.index + 1 \in 1..Pieces(t) /\ DOMAIN Cut(t) = 1..Pieces(t)
      <4>1. f.index \in 0..Pieces(t) - 1 /\ Pieces(t) \in Nat \ {0}
        BY <2>2, AllShape, FragsShape
      <4>2. t \in Seq(Letters) /\ t # <<>>
        BY DEF Texts
      <4> QED
        BY <4>1, <4>2, CutShape DEF Pieces
    <3> QED
      BY <3>1
  <2>5. f = [digest |-> t, index |-> j - 1, length |-> Len(p), data |-> WithoutNuls(p[j])]
    BY <2>1, <2>2, <2>3, <2>4 DEF Cut
  <2> QED
    BY <2>5 DEF Key
<1>3. \A g \in kept : g.digest = f.digest => g.index \in 0..f.length - 1
  BY <1>1, AllShape
<1>4. \A g \in kept : (\E i \in 0..f.length - 1 : Key(g) = <<i, f.digest>>) <=> g.digest = f.digest
  BY <1>3 DEF Key
<1> QED
  BY <1>2, <1>4 DEF Siblings

\* All siblings are there if they are as many as the fragment says.
LEMMA FoundIs ==
  ASSUME sent \in Sendings, NEW f \in AllFragments, NEW kept \in SUBSET AllFragments
  PROVE  /\ Siblings(f, kept) \subseteq FragsOf(f.digest)
         /\ Cardinality(Siblings(f, kept)) = f.length => Siblings(f, kept) = FragsOf(f.digest)
         /\ Siblings(f, kept) = FragsOf(f.digest) =>
              /\ Cardinality(Siblings(f, kept)) = f.length
              /\ Joined(Siblings(f, kept)) = f.digest /\ Joined(Siblings(f, kept)) \in sent
<1>1. PICK t \in Texts : t = f.digest /\ t \in sent /\ f.length = Pieces(t)
  BY AllShape
<1>2. Siblings(f, kept) = {g \in kept : g.digest = t}
  BY <1>1, SiblingsAre
<1>3. Siblings(f, kept) \subseteq FragsOf(t)
  BY <1>2, AllShape
<1>4. IsFiniteSet(FragsOf(t)) /\ Cardinality(FragsOf(t)) = Pieces(t)
  BY FragsSize
<1>5. Cardinality(Siblings(f, kept)) = Pieces(t) => Siblings(f, kept) = FragsOf(t)
  BY <1>3, <1>4, FS_Subset
<1>6. Joined(FragsOf(t)) = t
  BY JoinedIs
<1> QED
  BY <1>1, <1>3, <1>4, <1>5, <1>6

-----------------------------------------------------------------------------
(***************************************************************************)
(* The invariant of the handler's map: what it has of a datagram arrived   *)
(* since that datagram last came out.                                      *)
(***************************************************************************)
Fresh(t) == IF t = complete THEN {} ELSE arrived[t]
Others(F, t) == {g \in F : g.digest # t}

MapInv ==
  /\ sent \in Sendings
  /\ fragments \subseteq AllFragments /\ IsFiniteSet(fragments) /\ Cardinality(fragments) <= Limit
  /\ complete \in sent \cup {None}
WholeInv == whole \in [text : sent \cup {None}, next : Nat, vain : 0..2]
ArrivedInv ==
  /\ arrived \in [sent -> SUBSET Nat]
  /\ \A t \in sent : arrived[t] \subseteq 0..Pieces(t) - 1
FreshInv == \A g \in fragments : g.index \in Fresh(g.digest)
CompleteInv == complete # None => arrived[complete] = 0..Pieces(complete) - 1
ContentInv == MapInv /\ WholeInv /\ ArrivedInv /\ FreshInv /\ CompleteInv

LEMMA StepIs ==
  ASSUME MapInv, NEW f \in AllFragments, GetCompleteDatagram(f)
  PROVE  \E kept \in SUBSET AllFragments, found \in BOOLEAN :
           /\ IsFiniteSet(kept) /\ Cardinality(kept) \in Nat /\ Cardinality(kept) <= Limit
           /\ \/ kept = {} /\ Cardinality(fragments \cup {f}) > Limit
              \/ kept = fragments \cup {f}
           /\ found <=> {g \in kept : g.digest = f.digest} = FragsOf(f.digest)
           /\ complete' = IF found THEN f.digest ELSE None
           /\ fragments' = IF found THEN Others(kept, f.digest) ELSE kept
           /\ arrived' = [t \in sent |-> Fresh(t) \cup (IF t = f.digest THEN {f.index} ELSE {})]
           /\ whole' = IF Follows(f)
                       THEN [text |-> f.digest, next |-> (f.index + 1) % f.length,
                             vain |-> Vain(f, found)]
                       ELSE [text |-> None, next |-> 0, vain |-> 0]
           /\ sent' = sent
<1>1. PICK kept : kept = Inserted(f)
  OBVIOUS
<1>2. /\ kept \in SUBSET AllFragments /\ IsFiniteSet(kept)
      /\ Cardinality(kept) \in Nat /\ Cardinality(kept) <= Limit
      /\ \/ kept = {} /\ Cardinality(fragments \cup {f}) > Limit
         \/ kept = fragments \cup {f}
  BY <1>1, InsertedIs DEF MapInv
<1>3. PICK siblings : siblings = Siblings(f, kept)
  OBVIOUS
<1>4. siblings = {g \in kept : g.digest = f.digest}
  BY <1>2, <1>3, SiblingsAre DEF MapInv
<1>5. PICK found \in BOOLEAN :
        found <=> (Cardinality(siblings) = f.length /\ Joined(siblings) \in sent)
  OBVIOUS
<1>6. /\ found <=> siblings = FragsOf(f.digest)
      /\ found => Joined(siblings) = f.digest
  BY <1>2, <1>3, <1>5, FoundIs DEF MapInv
<1>7. complete' = IF found THEN f.digest ELSE None
  BY <1>1, <1>3, <1>5, <1>6 DEF GetCompleteDatagram
<1>8. fragments' = IF found THEN Others(kept, f.digest) ELSE kept
  <2>1. fragments' = IF found THEN kept \ siblings ELSE kept
    BY <1>1, <1>3, <1>5 DEF GetCompleteDatagram, Without
  <2>2. kept \ siblings = Others(kept, f.digest)
    BY <1>4 DEF Others
  <2> QED
    BY <2>1, <2>2
<1>9. arrived' = [t \in sent |-> Fresh(t) \cup (IF t = f.digest THEN {f.index} ELSE {})]
  BY DEF GetCompleteDatagram, Fresh
<1>10. whole' = IF Follows(f)
                THEN [text |-> f.digest, next |-> (f.index + 1) % f.length,
                      vain |-> Vain(f, found)]
                ELSE [text |-> None, next |-> 0, vain |-> 0]
  <2>1. whole' = IF Follows(f)
                 THEN [text |-> f.digest, next |-> (f.index + 1) % f.length,
                       vain |-> Vain(f, Cardinality(siblings) = f.length /\ Joined(siblings) \in sent)]
                 ELSE [text |-> None, next |-> 0, vain |-> 0]
    BY <1>1, <1>3 DEF GetCompleteDatagram
  <2>2. (Cardinality(siblings) = f.length /\ Joined(siblings) \in sent) = found
    BY <1>5
  <2> QED
    BY <2>1, <2>2
<1>11. sent' = sent
  BY DEF GetCompleteDatagram
<1>12. found <=> {g \in kept : g.digest = f.digest} = FragsOf(f.digest)
  BY <1>4, <1>6
<1> QED
  BY <1>2, <1>7, <1>8, <1>9, <1>10, <1>11, <1>12

LEMMA VainIs ==
  ASSUME WholeInv, NEW f, NEW found \in BOOLEAN,
         NEW before, before = IF whole.text = f.digest THEN whole.vain ELSE 0
  PROVE  /\ before \in 0..2
         /\ Vain(f, found) \in 0..2
         /\ found => Vain(f, found) = 0
         /\ ~found /\ f.index = f.length - 1 =>
              Vain(f, found) = IF before = 0 THEN 1 ELSE 2
         /\ ~found /\ f.index # f.length - 1 => Vain(f, found) = before
<1>1. before \in 0..2
  BY DEF WholeInv
<1>2. Min({before + 1, 2}) = IF before = 0 THEN 1 ELSE 2
  <2>1. before + 1 \in Nat
    BY <1>1
  <2>2. Min({before + 1, 2}) = IF before + 1 <= 2 THEN before + 1 ELSE 2
    BY <2>1, MinIs
  <2> QED
    BY <1>1, <2>2
<1>3. found => Vain(f, found) = 0
  BY DEF Vain
<1>4. ~found /\ f.index = f.length - 1 => Vain(f, found) = Min({before + 1, 2})
  BY DEF Vain
<1>5. ~found /\ f.index # f.length - 1 => Vain(f, found) = before
  BY DEF Vain
<1> QED
  BY <1>1, <1>2, <1>3, <1>4, <1>5

LEMMA Modulo ==
  ASSUME NEW n \in Nat \ {0}, NEW i \in Nat
  PROVE  /\ i % n \in 0..n - 1
         /\ i < n => i % n = i
         /\ i = n => i % n = 0
<1>1. i % n \in 0..n - 1
  OBVIOUS
<1>2. ASSUME i < n PROVE i % n = i
  BY <1>2
<1>3. ASSUME i = n PROVE i % n = 0
  BY <1>3
<1> QED
  BY <1>1, <1>2, <1>3

LEMMA ContentInit ==
  Init => ContentInv
<1> SUFFICES ASSUME Init PROVE ContentInv
  OBVIOUS
<1>1. sent \in Sendings /\ fragments = {} /\ complete = None
  BY DEF Init
<1>2. IsFiniteSet({}) /\ Cardinality({}) = 0
  BY FS_EmptySet
<1>3. MapInv
  BY <1>1, <1>2, ConstantsAssumption DEF MapInv
<1>4. WholeInv
  BY DEF Init, WholeInv
<1>5. ArrivedInv
  <2>1. arrived = [t \in sent |-> {}]
    BY DEF Init
  <2> QED
    BY <2>1 DEF ArrivedInv
<1>6. FreshInv /\ CompleteInv
  BY <1>1 DEF FreshInv, CompleteInv
<1> QED
  BY <1>3, <1>4, <1>5, <1>6 DEF ContentInv

LEMMA ContentStep ==
  ASSUME ContentInv, NEW f \in AllFragments, GetCompleteDatagram(f)
  PROVE  ContentInv'
<1>0. MapInv /\ WholeInv /\ ArrivedInv /\ FreshInv /\ CompleteInv
  BY DEF ContentInv
<1>1. PICK kept \in SUBSET AllFragments, found \in BOOLEAN :
           /\ IsFiniteSet(kept) /\ Cardinality(kept) \in Nat /\ Cardinality(kept) <= Limit
           /\ \/ kept = {} /\ Cardinality(fragments \cup {f}) > Limit
              \/ kept = fragments \cup {f}
           /\ found <=> {g \in kept : g.digest = f.digest} = FragsOf(f.digest)
           /\ complete' = IF found THEN f.digest ELSE None
           /\ fragments' = IF found THEN Others(kept, f.digest) ELSE kept
           /\ arrived' = [t \in sent |-> Fresh(t) \cup (IF t = f.digest THEN {f.index} ELSE {})]
           /\ whole' = IF Follows(f)
                       THEN [text |-> f.digest, next |-> (f.index + 1) % f.length,
                             vain |-> Vain(f, found)]
                       ELSE [text |-> None, next |-> 0, vain |-> 0]
           /\ sent' = sent
  BY <1>0, StepIs
<1>2. sent \in Sendings
  BY <1>0 DEF MapInv
<1>3. PICK d : d = f.digest
  OBVIOUS
<1>4. /\ d \in sent /\ d \in Texts /\ f.length = Pieces(d) /\ f.index \in 0..Pieces(d) - 1
      /\ Pieces(d) \in Nat \ {0}
  BY <1>2, <1>3, AllShape, FragsShape
<1>5. AllFragments' = AllFragments
  BY <1>1 DEF AllFragments
<1>6. kept \subseteq fragments \cup {f}
  BY <1>1
<1>7. MapInv'
  <2>1. fragments' \subseteq kept
    BY <1>1 DEF Others
  <2>2. IsFiniteSet(fragments') /\ Cardinality(fragments') <= Cardinality(kept)
    BY <1>1, <2>1, FS_Subset
  <2>3. Cardinality(fragments') \in Nat /\ Limit \in Nat
    BY <2>2, FS_CardinalityType, ConstantsAssumption
  <2>4. Cardinality(fragments') <= Limit
    BY <1>1, <2>2, <2>3
  <2>5. fragments' \subseteq AllFragments' /\ complete' \in sent' \cup {None} /\ sent' \in Sendings
    BY <1>1, <1>2, <1>3, <1>4, <1>5, <2>1
  <2> QED
    BY <2>2, <2>4, <2>5 DEF MapInv
<1>8. WholeInv'
  <2>1. Vain(f, found) \in 0..2
    BY <1>0, VainIs
  <2>2. (f.index + 1) % f.length \in Nat
    <3>1. PICK n \in Nat : n = f.length /\ n > 0
      BY <1>4
    <3>2. PICK i \in Nat : i = f.index + 1
      BY <1>4
    <3>3. i % n \in Nat
      <4>1. n \in Nat \ {0}
        BY <3>1
      <4>2. i % n \in 0..n - 1
        BY <4>1, Modulo
      <4> QED
        BY <4>2
    <3> QED
      BY <3>1, <3>2, <3>3
  <2>3. whole' \in [text : sent \cup {None}, next : Nat, vain : 0..2]
    BY <1>1, <1>3, <1>4, <2>1, <2>2
  <2> QED
    BY <1>1, <2>3 DEF WholeInv
<1>9. \A t \in sent : Fresh(t) \subseteq arrived'[t] /\ (t = d => f.index \in arrived'[t])
  BY <1>1, <1>3
<1>10. ArrivedInv'
  <2>1. ASSUME NEW t \in sent
        PROVE  Fresh(t) \cup (IF t = f.digest THEN {f.index} ELSE {}) \in SUBSET (0..Pieces(t) - 1)
    BY <1>0, <1>3, <1>4 DEF ArrivedInv, Fresh
  <2>2. \A t \in sent : Pieces(t) \in Nat \ {0}
    BY <1>2, AllShape, FragsShape
  <2>3. \A t \in sent : 0..Pieces(t) - 1 \subseteq Nat
    BY <2>2
  <2>4. arrived' \in [sent -> SUBSET Nat]
    BY <1>1, <2>1, <2>3
  <2>5. \A t \in sent : arrived'[t] \subseteq 0..Pieces(t) - 1
    BY <1>1, <2>1
  <2>6. Pieces(d)' = Pieces(d)
    BY DEF Pieces
  <2> QED
    BY <1>1, <2>4, <2>5 DEF ArrivedInv, Pieces
<1>11. FreshInv'
  <2> SUFFICES ASSUME NEW g \in fragments' PROVE g.index \in Fresh(g.digest)'
    BY DEF FreshInv
  <2>1. g \in kept /\ g \in AllFragments
    BY <1>1 DEF Others
  <2>2. PICK t \in sent : t = g.digest
    BY <1>2, <2>1, AllShape
  <2>3. g.index \in arrived'[t]
    <3>1. CASE g = f
      BY <1>3, <1>9, <2>2, <3>1
    <3>2. CASE g # f
      <4>1. g.index \in Fresh(t)
        BY <1>0, <1>6, <2>1, <2>2, <3>2 DEF FreshInv
      <4> QED
        BY <1>9, <4>1
    <3> QED
      BY <3>1, <3>2
  <2>4. t # complete'
    <3>1. t # None
      BY <1>2, AllShape DEF Texts
    <3>2. found => t # d
      BY <1>1, <1>3, <2>2 DEF Others
    <3> QED
      BY <1>1, <1>3, <3>1, <3>2
  <2> QED
    BY <2>2, <2>3, <2>4 DEF Fresh
<1>12. CompleteInv'
  <2> SUFFICES ASSUME complete' # None
               PROVE  arrived'[complete'] = 0..Pieces(complete') - 1
    BY DEF CompleteInv, Pieces
  <2>1. found /\ complete' = d
    BY <1>1, <1>3
  <2>2. ASSUME NEW i \in 0..Pieces(d) - 1 PROVE i \in arrived'[d]
    <3>1. PICK g \in FragsOf(d) : g.index = i
      BY <1>4, FragsShape
    <3>2. g \in kept /\ g.digest = d
      BY <1>1, <1>3, <2>1, <3>1
    <3>3. CASE g = f
      BY <1>3, <1>4, <1>9, <3>1, <3>3
    <3>4. CASE g # f
      <4>1. g.index \in Fresh(d)
        BY <1>0, <1>6, <3>2, <3>4 DEF FreshInv
      <4> QED
        BY <1>4, <1>9, <3>1, <4>1
    <3> QED
      BY <3>3, <3>4
  <2>3. arrived'[d] \subseteq 0..Pieces(d) - 1
    BY <1>1, <1>4, <1>10 DEF ArrivedInv, Pieces
  <2> QED
    BY <2>1, <2>2, <2>3
<1> QED
  BY <1>7, <1>8, <1>10, <1>11, <1>12 DEF ContentInv

LEMMA ContentHolds ==
  Spec => []ContentInv
<1>1. ContentInv /\ [Next]_vars => ContentInv'
  <2> SUFFICES ASSUME ContentInv, [Next]_vars PROVE ContentInv'
    OBVIOUS
  <2>1. CASE Next
    BY <2>1, ContentStep DEF Next
  <2>2. CASE UNCHANGED vars
    BY <2>2 DEF vars, ContentInv, MapInv, WholeInv, ArrivedInv, FreshInv, CompleteInv,
                Fresh, AllFragments, Pieces
  <2> QED
    BY <2>1, <2>2
<1> QED
  BY <1>1, ContentInit, PTL DEF Spec

LEMMA IndicesOf ==
  ASSUME NEW t \in Texts
  PROVE  {g.index : g \in FragsOf(t)} = 0..Pieces(t) - 1
BY FragsShape

\* The handler's map holds at most Limit fragments, all of them of texts that were
\* sent, and what comes out of it is one of these texts or nothing.
THEOREM TypeCorrect == Spec => []TypeOK
<1>1. ContentInv => TypeOK
  <2> SUFFICES ASSUME ContentInv PROVE TypeOK
    OBVIOUS
  <2>1. MapInv /\ WholeInv /\ ArrivedInv
    BY DEF ContentInv
  <2>2. arrived \in [sent -> SUBSET {f.index : f \in AllFragments}]
    <3>1. ASSUME NEW t \in sent PROVE arrived[t] \in SUBSET {f.index : f \in AllFragments}
      <4>1. t \in Texts /\ FragsOf(t) \subseteq AllFragments
        BY <2>1, AllShape DEF MapInv
      <4>2. {g.index : g \in FragsOf(t)} = 0..Pieces(t) - 1
        BY <4>1, IndicesOf
      <4>3. arrived[t] \subseteq 0..Pieces(t) - 1
        BY <2>1 DEF ArrivedInv
      <4> QED
        BY <4>1, <4>2, <4>3
    <3>2. arrived = [t \in sent |-> arrived[t]]
      BY <2>1 DEF ArrivedInv
    <3> QED
      BY <3>1, <3>2
  <2> QED
    BY <2>1, <2>2 DEF TypeOK, MapInv, WholeInv
<1> QED
  BY <1>1, ContentHolds, PTL

\* A datagram comes out only when each of its fragments has come in since it last came
\* out, and it is then the text that was cut (get_complete_datagram removes what it
\* joined): in whatever order fragments come, however often, and whatever was dropped.
THEOREM OnlyWholeHolds == Spec => []OnlyWhole
<1>1. ContentInv => OnlyWhole
  <2> SUFFICES ASSUME ContentInv, complete # None
               PROVE  arrived[complete] = {f.index : f \in Range(Cut(complete))}
    BY DEF OnlyWhole
  <2>1. MapInv /\ arrived[complete] = 0..Pieces(complete) - 1
    BY DEF ContentInv, CompleteInv
  <2>2. complete \in Texts
    BY <2>1, AllShape DEF MapInv
  <2>3. {f.index : f \in FragsOf(complete)} = 0..Pieces(complete) - 1
    BY <2>2, IndicesOf
  <2> QED
    BY <2>1, <2>3 DEF FragsOf
<1> QED
  BY <1>1, ContentHolds, PTL

-----------------------------------------------------------------------------
(***************************************************************************)
(* Two whole copies in a row. While the copy that arrives may still come   *)
(* to nothing, either all of it so far is in the map or the rest of the    *)
(* map leaves room for all of it; after one copy that came to nothing,     *)
(* both.                                                                   *)
(***************************************************************************)
Here(F, t, n) == \A i \in 0..n - 1 : \E g \in F : g.digest = t /\ g.index = i
Room(F, t) == Cardinality(Others(F, t)) + Pieces(t) <= Limit
AllFit == \A texts \in Sendings : \A t \in texts : Len(Cut(t)) <= Limit

CopyInv ==
  /\ whole.text # None => whole.vain < 2
  /\ whole.text # None /\ whole.vain = 0 =>
       Here(fragments, whole.text, whole.next) \/ Room(fragments, whole.text)
  /\ whole.text # None /\ whole.vain = 1 =>
       Here(fragments, whole.text, whole.next) /\ Room(fragments, whole.text)
  /\ whole.text = None => whole.vain = 0

\* With room for all fragments of its text, a fragment does not overflow the map.
LEMMA NoOverflow ==
  ASSUME NEW F, IsFiniteSet(F), NEW t \in Texts, NEW f \in FragsOf(t), Room(F, t),
         {g \in F : g.digest = t} \subseteq FragsOf(t)
  PROVE  Cardinality(F \cup {f}) <= Limit
<1>1. IsFiniteSet(Others(F, t)) /\ Cardinality(Others(F, t)) \in Nat
  <2>1. Others(F, t) \subseteq F
    BY DEF Others
  <2> QED
    BY <2>1, FS_Subset, FS_CardinalityType
<1>2. IsFiniteSet(FragsOf(t)) /\ Cardinality(FragsOf(t)) = Pieces(t) /\ Pieces(t) \in Nat
  BY FragsSize, FragsShape
<1>3. PICK U : U = Others(F, t) \cup FragsOf(t)
  OBVIOUS
<1>4. PICK I : I = Others(F, t) \cap FragsOf(t)
  OBVIOUS
<1>5. IsFiniteSet(U) /\ Cardinality(U) =
        Cardinality(Others(F, t)) + Cardinality(FragsOf(t)) - Cardinality(I)
  BY <1>1, <1>2, <1>3, <1>4, FS_Union
<1>6. I = {}
  BY <1>4, FragsShape DEF Others
<1>7. Cardinality(I) = 0
  BY <1>6, FS_EmptySet
<1>8. Cardinality(U) = Cardinality(Others(F, t)) + Pieces(t)
  BY <1>1, <1>2, <1>5, <1>7
<1>9. F \cup {f} \subseteq U
  BY <1>3 DEF Others
<1>10. Cardinality(F \cup {f}) <= Cardinality(U) /\ IsFiniteSet(F \cup {f})
  BY <1>5, <1>9, FS_Subset
<1>11. Cardinality(F \cup {f}) \in Nat /\ Limit \in Nat
  BY <1>10, FS_CardinalityType, ConstantsAssumption
<1> QED
  BY <1>1, <1>2, <1>8, <1>10, <1>11 DEF Room

\* Joining a text leaves room for all of it.
LEMMA RoomAfterJoining ==
  ASSUME NEW F, IsFiniteSet(F), Cardinality(F) <= Limit, NEW t \in Texts,
         {g \in F : g.digest = t} = FragsOf(t)
  PROVE  Room(Others(F, t), t)
<1>1. PICK O : O = Others(F, t)
  OBVIOUS
<1>2. O \subseteq F /\ O \cup FragsOf(t) = F /\ Others(O, t) = O
  BY <1>1 DEF Others
<1>3. IsFiniteSet(O) /\ Cardinality(O) \in Nat
  BY <1>2, FS_Subset, FS_CardinalityType
<1>4. IsFiniteSet(FragsOf(t)) /\ Cardinality(FragsOf(t)) = Pieces(t) /\ Pieces(t) \in Nat
  BY FragsSize, FragsShape
<1>5. PICK I : I = O \cap FragsOf(t)
  OBVIOUS
<1>6. I = {}
  BY <1>1, <1>5, FragsShape DEF Others
<1>7. Cardinality(I) = 0
  BY <1>6, FS_EmptySet
<1>8. Cardinality(F) = Cardinality(O) + Cardinality(FragsOf(t)) - Cardinality(I)
  BY <1>2, <1>3, <1>4, <1>5, FS_Union
<1>9. Cardinality(F) = Cardinality(O) + Pieces(t)
  BY <1>3, <1>4, <1>7, <1>8
<1> QED
  BY <1>1, <1>2, <1>9 DEF Room

LEMMA RoomInEmpty ==
  ASSUME AllFit, NEW texts \in Sendings, NEW t \in texts
  PROVE  Room({}, t)
<1>1. Pieces(t) <= Limit /\ Pieces(t) \in Nat
  BY SentTexts, FragsShape DEF AllFit, Pieces
<1>2. Others({}, t) = {}
  BY DEF Others
<1>3. Cardinality(Others({}, t)) = 0
  BY <1>2, FS_EmptySet
<1> QED
  BY <1>1, <1>3, ConstantsAssumption DEF Room

\* The fragments of a text are all here when those below each index are.
LEMMA AllHere ==
  ASSUME NEW t \in Texts, NEW F, {g \in F : g.digest = t} \subseteq FragsOf(t),
         Here(F, t, Pieces(t))
  PROVE  {g \in F : g.digest = t} = FragsOf(t)
<1> SUFFICES ASSUME NEW h \in FragsOf(t) PROVE h \in F /\ h.digest = t
  OBVIOUS
<1>1. h.digest = t /\ h.index \in 0..Pieces(t) - 1
  BY FragsShape
<1>2. PICK g \in F : g.digest = t /\ g.index = h.index
  BY <1>1 DEF Here
<1>3. g \in FragsOf(t)
  BY <1>2
<1>4. g = h
  BY <1>2, <1>3, FragsShape
<1> QED
  BY <1>1, <1>4

LEMMA CopyStep ==
  ASSUME AllFit, ContentInv, CopyInv, NEW f \in AllFragments, GetCompleteDatagram(f)
  PROVE  CopyInv'
<1>0. MapInv /\ WholeInv /\ sent \in Sendings /\ IsFiniteSet(fragments)
  BY DEF ContentInv, MapInv
<1>1. PICK kept \in SUBSET AllFragments, found \in BOOLEAN :
           /\ IsFiniteSet(kept) /\ Cardinality(kept) \in Nat /\ Cardinality(kept) <= Limit
           /\ \/ kept = {} /\ Cardinality(fragments \cup {f}) > Limit
              \/ kept = fragments \cup {f}
           /\ found <=> {g \in kept : g.digest = f.digest} = FragsOf(f.digest)
           /\ complete' = IF found THEN f.digest ELSE None
           /\ fragments' = IF found THEN Others(kept, f.digest) ELSE kept
           /\ arrived' = [t \in sent |-> Fresh(t) \cup (IF t = f.digest THEN {f.index} ELSE {})]
           /\ whole' = IF Follows(f)
                       THEN [text |-> f.digest, next |-> (f.index + 1) % f.length,
                             vain |-> Vain(f, found)]
                       ELSE [text |-> None, next |-> 0, vain |-> 0]
           /\ sent' = sent
  BY <1>0, StepIs
<1>2. PICK d : d = f.digest
  OBVIOUS
<1>3. /\ d \in sent /\ d \in Texts /\ d # None /\ f \in FragsOf(d) /\ f.length = Pieces(d)
      /\ f.index \in 0..Pieces(d) - 1 /\ Pieces(d) \in Nat \ {0}
  BY <1>0, <1>2, AllShape, FragsShape DEF Texts
<1>4. PICK n \in Nat \ {0} : n = Pieces(d)
  BY <1>3
<1>5. PICK i \in 0..n - 1 : i = f.index
  BY <1>3, <1>4
<1>6. /\ {g \in kept : g.digest = d} \subseteq FragsOf(d)
      /\ {g \in fragments : g.digest = d} \subseteq FragsOf(d)
  BY <1>0, AllShape DEF MapInv
<1>7. CASE ~Follows(f)
  <2>1. whole'.text = None /\ whole'.vain = 0
    BY <1>1, <1>7
  <2> QED
    BY <2>1 DEF CopyInv
<1>8. CASE Follows(f)
  <2>1. whole'.text = d /\ whole'.next = (i + 1) % n /\ whole'.vain = Vain(f, found)
    BY <1>1, <1>2, <1>3, <1>4, <1>5, <1>8
  <2>2. SUFFICES
          /\ Vain(f, found) = 0 => Here(fragments', d, (i + 1) % n) \/ Room(fragments', d)
          /\ Vain(f, found) = 1 => Here(fragments', d, (i + 1) % n) /\ Room(fragments', d)
          /\ Vain(f, found) < 2
    <3>1. whole'.text = d /\ d # None
      BY <1>3, <2>1
    <3>2. Room(fragments', d) = Room(fragments, whole.text)'
      BY <3>1 DEF Room, Pieces, Others
    <3>3. Here(fragments', d, (i + 1) % n) = Here(fragments, whole.text, whole.next)'
      BY <2>1 DEF Here
    <3> QED
      BY <2>1, <3>1, <3>2, <3>3 DEF CopyInv
  <2>3. CASE found
    <3>1. Vain(f, found) = 0
      BY <1>0, <2>3, VainIs
    <3>2. fragments' = Others(kept, d) /\ {g \in kept : g.digest = d} = FragsOf(d)
      BY <1>1, <1>2, <2>3
    <3>3. Room(fragments', d)
      BY <1>1, <1>3, <3>2, RoomAfterJoining
    <3> QED
      BY <3>1, <3>3
  <2>4. CASE ~found
    <3>1. fragments' = kept /\ {g \in kept : g.digest = d} # FragsOf(d)
      BY <1>1, <1>2, <2>4
    <3>2. PICK before \in {0, 1} : before = IF whole.text = f.digest THEN whole.vain ELSE 0
      BY <1>0, <1>2, <1>3 DEF CopyInv, WholeInv
    <3>3. /\ i = n - 1 => Vain(f, found) = IF before = 0 THEN 1 ELSE 2
          /\ i # n - 1 => Vain(f, found) = before
      BY <1>0, <1>3, <1>4, <1>5, <2>4, <3>2, VainIs
    <3>4. i = 0 => Here(fragments, d, i)
      BY DEF Here
    <3>5. i # 0 => whole.text = d /\ whole.next = i
      BY <1>2, <1>5, <1>8 DEF Follows
    <3>6. before = 0 => Here(fragments, d, i) \/ Room(fragments, d)
      BY <1>2, <1>3, <3>2, <3>4, <3>5 DEF CopyInv
    <3>7. before = 1 => Here(fragments, d, i) /\ Room(fragments, d)
      BY <1>2, <1>3, <3>2, <3>4, <3>5 DEF CopyInv
    <3>8. Room(fragments, d) => kept = fragments \cup {f}
      <4> SUFFICES ASSUME Room(fragments, d), kept # fragments \cup {f} PROVE FALSE
        OBVIOUS
      <4>1. Cardinality(fragments \cup {f}) <= Limit
        BY <1>0, <1>3, <1>6, NoOverflow
      <4>2. IsFiniteSet(fragments \cup {f})
        BY <1>0, FS_AddElement
      <4>3. Cardinality(fragments \cup {f}) \in Nat /\ Limit \in Nat
        BY <4>2, FS_CardinalityType, ConstantsAssumption
      <4> QED
        BY <1>1, <4>1, <4>3
    <3>9. kept = fragments \cup {f} =>
            /\ Room(fragments, d) => Room(kept, d)
            /\ Here(fragments, d, i) => Here(kept, d, i + 1)
      <4> SUFFICES ASSUME kept = fragments \cup {f}
                   PROVE  /\ Room(fragments, d) => Room(kept, d)
                          /\ Here(fragments, d, i) => Here(kept, d, i + 1)
        OBVIOUS
      <4>1. Others(kept, d) = Others(fragments, d)
        BY <1>2 DEF Others
      <4>2. ASSUME Here(fragments, d, i), NEW j \in 0..(i + 1) - 1
            PROVE  \E g \in kept : g.digest = d /\ g.index = j
        <5>1. CASE j = i
          BY <1>2, <1>5, <5>1
        <5>2. CASE j # i
          <6>1. j \in 0..i - 1
            BY <5>2
          <6> QED
            BY <4>2, <6>1 DEF Here
        <5> QED
          BY <5>1, <5>2
      <4> QED
        BY <4>1, <4>2 DEF Room, Here
    <3>10. kept = {} => Room(kept, d)
      BY <1>0, <1>3, RoomInEmpty
    <3>11. i = n - 1 => ~Here(kept, d, i + 1)
      <4> SUFFICES ASSUME i = n - 1, Here(kept, d, i + 1) PROVE FALSE
        OBVIOUS
      <4>1. i + 1 = Pieces(d)
        BY <1>4
      <4>2. {g \in kept : g.digest = d} = FragsOf(d)
        BY <1>3, <1>6, <4>1, AllHere
      <4> QED
        BY <3>1, <4>2
    <3>12. kept = {} \/ kept = fragments \cup {f}
      BY <1>1
    <3>13. CASE i = n - 1
      <4>1. (i + 1) % n = 0
        <5>1. i + 1 = n /\ i + 1 \in Nat
          BY <3>13
        <5> QED
          BY <5>1, Modulo
      <4>2. Here(kept, d, 0)
        BY DEF Here
      <4>3. before = 0
        BY <3>2, <3>7, <3>8, <3>9, <3>11, <3>13
      <4>4. Room(kept, d)
        BY <3>6, <3>8, <3>9, <3>10, <3>11, <3>12, <3>13, <4>3
      <4>5. Vain(f, found) = 1
        BY <3>3, <3>13, <4>3
      <4> QED
        BY <3>1, <4>1, <4>2, <4>4, <4>5
    <3>14. CASE i # n - 1
      <4>1. (i + 1) % n = i + 1
        <5>1. i + 1 < n /\ i + 1 \in Nat
          BY <3>14
        <5> QED
          BY <5>1, Modulo
      <4>2. before = 0 => Here(kept, d, i + 1) \/ Room(kept, d)
        BY <3>6, <3>8, <3>9, <3>10, <3>12
      <4>3. before = 1 => Here(kept, d, i + 1) /\ Room(kept, d)
        BY <3>7, <3>8, <3>9
      <4>4. Vain(f, found) = before
        BY <3>3, <3>14
      <4> QED
        BY <3>1, <3>2, <4>1, <4>2, <4>3, <4>4
    <3> QED
      BY <3>13, <3>14
  <2> QED
    BY <2>3, <2>4
<1> QED
  BY <1>7, <1>8

\* Dropping all fragments costs at most one copy of a datagram that arrives whole,
\* provided that a datagram has at most Limit fragments: a larger one can never be
\* whole in the map of get_complete_datagram.
THEOREM OneOfTwoCopiesHolds ==
  ASSUME AllFit
  PROVE  Spec => []OneOfTwoCopies
<1>1. Init => CopyInv
  BY DEF Init, CopyInv
<1>2. ContentInv /\ CopyInv /\ [Next]_vars => CopyInv'
  <2> SUFFICES ASSUME ContentInv, CopyInv, [Next]_vars PROVE CopyInv'
    OBVIOUS
  <2>1. CASE Next
    BY <2>1, CopyStep DEF Next
  <2>2. CASE UNCHANGED vars
    BY <2>2 DEF vars, CopyInv, Here, Room, Others, Pieces
  <2> QED
    BY <2>1, <2>2
<1>3. ContentInv /\ CopyInv => OneOfTwoCopies
  <2> SUFFICES ASSUME ContentInv, CopyInv PROVE whole.vain < 2
    BY DEF OneOfTwoCopies
  <2> QED
    BY DEF CopyInv
<1> QED
  BY <1>1, <1>2, <1>3, ContentHolds, PTL DEF Spec

-----------------------------------------------------------------------------
(***************************************************************************)
(* The bytes of a fragment. In the guarded text a NUL stands before every  *)
(* quote and nowhere else, so a part has as many bytes, quotes counted     *)
(* twice and NULs not at all, as it has characters; but for one more if it *)
(* begins with a quote, and one less if it ends with a NUL.                *)
(***************************************************************************)
QuotesAt(s) == {i \in 1..Len(s) : s[i] = Quote}
Value(c) == IF c = Quote THEN 2 ELSE 1

LEMMA BytesNone == Bytes(<<>>) = 0
<1>1. {i \in DOMAIN <<>> : <<>>[i] = Quote} = {}
  OBVIOUS
<1>2. Cardinality({}) = 0
  BY FS_EmptySet
<1> QED
  BY <1>1, <1>2 DEF Bytes

LEMMA BytesAppend ==
  ASSUME NEW s \in Seq(Chars), NEW c \in Chars
  PROVE  /\ Bytes(s) \in Nat
         /\ Bytes(s \o <<c>>) = Bytes(s) + Value(c)
<1>1. PICK n \in Nat : n = Len(s)
  OBVIOUS
<1>0. PICK t : t = s \o <<c>>
  OBVIOUS
<1>2. /\ t \in Seq(Chars) /\ Len(t) = n + 1
      /\ \A i \in 1..n : t[i] = s[i]
      /\ t[n + 1] = c
  <2> HIDE DEF Chars
  <2>1. <<c>> \in Seq(Chars) /\ Len(<<c>>) = 1 /\ <<c>>[1] = c
    OBVIOUS
  <2>2. t \in Seq(Chars) /\ Len(t) = n + 1
    BY <1>0, <1>1, <2>1
  <2>3. \A i \in 1..n : t[i] = s[i]
    BY <1>0, <1>1
  <2>4. t[n + 1] = c
    BY <1>0, <1>1
  <2> QED
    BY <2>2, <2>3, <2>4
<1>3. /\ Bytes(s) = n + Cardinality(QuotesAt(s))
      /\ Bytes(t) = n + 1 + Cardinality(QuotesAt(t))
  <2>1. DOMAIN s = 1..Len(s) /\ DOMAIN t = 1..Len(t)
    OBVIOUS
  <2> QED
    BY <1>1, <1>2, <2>1 DEF Bytes, QuotesAt
<1>4. IsFiniteSet(QuotesAt(s)) /\ Cardinality(QuotesAt(s)) \in Nat
  <2>1. IsFiniteSet(1..n) /\ QuotesAt(s) \subseteq 1..n
    BY <1>1, FS_Interval DEF QuotesAt
  <2> QED
    BY <2>1, FS_Subset, FS_CardinalityType
<1>5. CASE c = Quote
  <2>1. QuotesAt(t) = QuotesAt(s) \cup {n + 1} /\ n + 1 \notin QuotesAt(s)
    BY <1>1, <1>2, <1>5 DEF QuotesAt
  <2>2. Cardinality(QuotesAt(t)) = Cardinality(QuotesAt(s)) + 1
    BY <1>4, <2>1, FS_AddElement
  <2> QED
    <3>1. PICK q \in Nat : q = Cardinality(QuotesAt(s))
      BY <1>4
    <3>2. Bytes(s) = n + q /\ Bytes(t) = n + 1 + (q + 1) /\ Value(c) = 2
      BY <1>3, <1>5, <2>2, <3>1 DEF Value
    <3>3. Bytes(s) \in Nat /\ Bytes(t) = Bytes(s) + Value(c)
      BY <3>2
    <3> QED
      BY <1>0, <3>3
<1>6. CASE c # Quote
  <2>1. QuotesAt(t) = QuotesAt(s)
    BY <1>1, <1>2, <1>6 DEF QuotesAt
  <2> QED
    BY <1>0, <1>1, <1>3, <1>4, <1>6, <2>1 DEF Value
<1> QED
  BY <1>5, <1>6

LEMMA WithoutNulsAppend ==
  ASSUME NEW s \in Seq(Chars), NEW c \in Chars
  PROVE  /\ WithoutNuls(s) \in Seq(Chars)
         /\ WithoutNuls(s \o <<c>>) = IF c = Nul THEN WithoutNuls(s) ELSE WithoutNuls(s) \o <<c>>
<1>1. <<c>> \in Seq(Chars) /\ s \o <<c>> \in Seq(Chars)
  OBVIOUS
<1>2. DropNul \in [Chars -> Seq(Chars)]
  BY CharsType
<1>3. WithoutNuls(s \o <<c>>) = Image(s \o <<c>>, DropNul) /\ WithoutNuls(s) = Image(s, DropNul)
  BY <1>1, AsImages
<1>4. Image(s \o <<c>>, DropNul) = Image(s, DropNul) \o Image(<<c>>, DropNul)
  BY <1>1, <1>2, ImageConcat
<1>5. Image(<<c>>, DropNul) = DropNul[c]
  BY <1>2, ImageOne
<1>6. PICK w \in Seq(Chars) : w = Image(s, DropNul)
  BY <1>2, ImageType
<1>7. w \o <<>> = w
  OBVIOUS
<1>8. DropNul[c] = IF c = Nul THEN <<>> ELSE <<c>>
  BY DEF DropNul
<1> QED
  BY <1>3, <1>4, <1>5, <1>6, <1>7, <1>8

LEMMA WithoutNulsNone == WithoutNuls(<<>>) = <<>>
BY DEF WithoutNuls, FlattenSeq

\* What a character has in a fragment.
Share(c) == IF c = Nul THEN 0 ELSE Value(c)

LEMMA ShareAppend ==
  ASSUME NEW s \in Seq(Chars), NEW c \in Chars
  PROVE  /\ Bytes(WithoutNuls(s)) \in Nat
         /\ Bytes(WithoutNuls(s \o <<c>>)) = Bytes(WithoutNuls(s)) + Share(c)
<1>1. PICK w \in Seq(Chars) : w = WithoutNuls(s)
  BY WithoutNulsAppend
<1>2. WithoutNuls(s \o <<c>>) = IF c = Nul THEN w ELSE w \o <<c>>
  BY <1>1, WithoutNulsAppend
<1>3. Bytes(w) \in Nat /\ Bytes(w \o <<c>>) = Bytes(w) + Value(c)
  BY BytesAppend
<1>4. CASE c = Nul
  BY <1>1, <1>2, <1>3, <1>4 DEF Share
<1>5. CASE c # Nul
  BY <1>1, <1>2, <1>3, <1>5 DEF Share
<1> QED
  BY <1>4, <1>5

\* Within s, a NUL stands before each quote and nowhere else.
PairedInside(s) == \A i \in 1..Len(s) - 1 : s[i] = Nul <=> s[i + 1] = Quote
LoneQuote(s) == IF s[1] = Quote THEN 1 ELSE 0
LoneNul(s) == IF s[Len(s)] = Nul THEN 1 ELSE 0

LEMMA PartBytes ==
  ASSUME NEW s \in Seq(Chars), s # <<>>, PairedInside(s)
  PROVE  Bytes(WithoutNuls(s)) = Len(s) + LoneQuote(s) - LoneNul(s)
<1>0. Quote # Nul /\ Other # Nul /\ Quote # Other
  BY DEF Quote, Other, Nul
<1>1. PICK n \in Nat \ {0} : n = Len(s)
  OBVIOUS
<1>2. PICK a \in {0, 1} : a = LoneQuote(s)
  BY DEF LoneQuote
<1> DEFINE Upto(k) == SubSeq(s, 1, k)
           Ends(k) == IF s[k] = Nul THEN 1 ELSE 0
           P == {k \in Nat : k + 1 <= n => Bytes(WithoutNuls(Upto(k + 1))) = k + 1 + a - Ends(k + 1)}
<1>3. ASSUME NEW k \in Nat, k + 1 <= n
      PROVE  /\ Upto(k) \in Seq(Chars) /\ s[k + 1] \in Chars
             /\ Upto(k + 1) = Upto(k) \o <<s[k + 1]>>
  <2>1. k + 1 \in 1..Len(s)
    BY <1>1, <1>3
  <2>2. Upto(k) \in Seq(Chars) /\ s[k + 1] \in Chars
    BY <2>1
  <2>3. Upto(k + 1) = Upto(k) \o <<s[k + 1]>>
    BY <2>1
  <2> QED
    BY <2>2, <2>3
<1>4. Upto(0) = <<>>
  OBVIOUS
<1> HIDE DEF Upto
<1>5. 0 \in P
  <2> SUFFICES Bytes(WithoutNuls(Upto(0 + 1))) = 0 + 1 + a - Ends(0 + 1)
    OBVIOUS
  <2>0. 0 \in Nat /\ 0 + 1 <= n /\ 0 + 1 = 1
    BY <1>1
  <2>1. PICK c \in Chars : c = s[1]
    BY <1>3, <2>0
  <2>2. Upto(1) = <<>> \o <<c>>
    BY <1>3, <1>4, <2>0, <2>1
  <2>3. Bytes(WithoutNuls(<<>> \o <<c>>)) = Bytes(WithoutNuls(<<>>)) + Share(c)
    <3>1. <<>> \in Seq(Chars)
      OBVIOUS
    <3> QED
      BY <3>1, ShareAppend
  <2>4. Bytes(WithoutNuls(Upto(1))) = 0 + Share(c)
    BY <2>2, <2>3, WithoutNulsNone, BytesNone
  <2>5. a = IF c = Quote THEN 1 ELSE 0
    BY <1>2, <2>1 DEF LoneQuote
  <2>6. Share(c) = 1 + a - Ends(1)
    BY <1>0, <2>1, <2>5 DEF Share, Value
  <2> QED
    BY <2>4, <2>6
<1>6. ASSUME NEW k \in Nat, k \in P PROVE k + 1 \in P
  <2> SUFFICES ASSUME k + 1 + 1 <= n
               PROVE  Bytes(WithoutNuls(Upto(k + 1 + 1))) = k + 1 + 1 + a - Ends(k + 1 + 1)
    OBVIOUS
  <2>1. PICK j \in 1..n - 1 : j = k + 1
    OBVIOUS
  <2>2. Bytes(WithoutNuls(Upto(j))) = j + a - Ends(j)
    BY <1>6, <2>1
  <2>3. PICK u \in Seq(Chars), c \in Chars : /\ u = Upto(j) /\ c = s[j + 1]
                                             /\ Upto(j + 1) = u \o <<c>>
    <3>1. j \in Nat /\ j + 1 <= n
      OBVIOUS
    <3>2. Upto(j) \in Seq(Chars) /\ s[j + 1] \in Chars /\ Upto(j + 1) = Upto(j) \o <<s[j + 1]>>
      BY <1>3, <3>1
    <3> QED
      BY <3>2
  <2>4. Bytes(WithoutNuls(u \o <<c>>)) = Bytes(WithoutNuls(u)) + Share(c)
    BY ShareAppend
  <2>5. s[j] = Nul <=> c = Quote
    BY <1>1, <2>1, <2>3 DEF PairedInside
  <2>6. Ends(j) = IF c = Quote THEN 1 ELSE 0
    BY <2>5
  <2>7. j + a - Ends(j) + Share(c) = j + 1 + a - Ends(j + 1)
    BY <1>0, <2>3, <2>6 DEF Share, Value
  <2> QED
    BY <2>1, <2>2, <2>3, <2>4, <2>7
<1> HIDE DEF P
<1>7. n - 1 \in P
  <2>1. n - 1 \in Nat
    OBVIOUS
  <2> QED
    BY <1>5, <1>6, <2>1, CountingUp
<1>8. Upto(n) = s
  BY <1>1, SubSeqFull DEF Upto
<1>9. (n - 1) + 1 = n /\ n - 1 \in Nat
  OBVIOUS
<1>10. Bytes(WithoutNuls(s)) = n + a - Ends(n)
  BY <1>7, <1>8, <1>9 DEF P
<1>11. Ends(n) = LoneNul(s)
  BY <1>1 DEF LoneNul
<1> QED
  BY <1>1, <1>2, <1>10, <1>11

\* In s, a NUL stands before each quote and nowhere else.
Paired(s) ==
  \A i \in 1..Len(s) : /\ s[i] = Nul => i < Len(s) /\ s[i + 1] = Quote
                       /\ s[i] = Quote => i > 1 /\ s[i - 1] = Nul

\* Each quote of s comes from one of text, at most twice as far from either end.
NearAs(s, text, n) ==
  /\ Len(s) \in Nat /\ Len(s) <= 2 * n
  /\ \A i \in 1..Len(s) : s[i] = Quote =>
       \E q \in 1..n : text[q] = Quote /\ i <= 2 * q /\ Len(s) - i <= 2 * (n - q)

LEMMA GuardOther ==
  ASSUME NEW s \in Seq(Chars), NEW text \in Seq(Letters), NEW n \in Nat, n + 1 <= Len(text),
         Paired(s), NearAs(s, text, n), text[n + 1] # Quote
  PROVE  Paired(s \o <<text[n + 1]>>) /\ NearAs(s \o <<text[n + 1]>>, text, n + 1)
<1>1. PICK c \in Letters : c = text[n + 1] /\ c # Quote /\ c # Nul
  <2>1. n + 1 \in 1..Len(text)
    OBVIOUS
  <2>2. text[n + 1] \in Letters
    BY <2>1
  <2> QED
    BY <2>2, CharsType DEF Letters
<1>2. PICK m \in Nat : m = Len(s)
  OBVIOUS
<1>3. PICK t : t = s \o <<c>>
  OBVIOUS
<1>4. Len(t) = m + 1 /\ (\A i \in 1..m : t[i] = s[i]) /\ t[m + 1] = c
  BY <1>2, <1>3
<1>5. Paired(t)
  <2> SUFFICES ASSUME NEW i \in 1..m + 1
               PROVE  /\ t[i] = Nul => i < m + 1 /\ t[i + 1] = Quote
                      /\ t[i] = Quote => i > 1 /\ t[i - 1] = Nul
    BY <1>4 DEF Paired
  <2>1. CASE i = m + 1
    BY <1>1, <1>4, <2>1
  <2>2. CASE i \in 1..m
    <3>1. /\ s[i] = Nul => i < m /\ s[i + 1] = Quote
          /\ s[i] = Quote => i > 1 /\ s[i - 1] = Nul
      BY <1>2, <2>2 DEF Paired
    <3>2. t[i] = s[i] /\ (i < m => t[i + 1] = s[i + 1]) /\ (i > 1 => t[i - 1] = s[i - 1])
      BY <1>4, <2>2
    <3> QED
      BY <2>2, <3>1, <3>2
  <2> QED
    BY <2>1, <2>2
<1>6. NearAs(t, text, n + 1)
  <2>1. m <= 2 * n /\ m + 1 <= 2 * (n + 1)
    BY <1>2 DEF NearAs
  <2>2. ASSUME NEW i \in 1..m + 1, t[i] = Quote
        PROVE  \E q \in 1..n + 1 : text[q] = Quote /\ i <= 2 * q /\ m + 1 - i <= 2 * (n + 1 - q)
    <3>1. i \in 1..m /\ s[i] = Quote
      BY <1>1, <1>4, <2>2
    <3>2. PICK q \in 1..n : text[q] = Quote /\ i <= 2 * q /\ m - i <= 2 * (n - q)
      BY <1>2, <3>1 DEF NearAs
    <3>3. q \in 1..n + 1 /\ m + 1 - i <= 2 * (n + 1 - q)
      BY <3>2
    <3> QED
      BY <3>2, <3>3
  <2> QED
    BY <1>4, <2>1, <2>2 DEF NearAs
<1> QED
  BY <1>1, <1>3, <1>5, <1>6

LEMMA GuardQuotes ==
  ASSUME NEW s \in Seq(Chars), NEW text \in Seq(Letters), NEW n \in Nat, n + 1 <= Len(text),
         Paired(s), NearAs(s, text, n), text[n + 1] = Quote
  PROVE  Paired(s \o <<Nul, Quote>>) /\ NearAs(s \o <<Nul, Quote>>, text, n + 1)
<1>1. Quote # Nul
  BY CharsType
<1>2. PICK m \in Nat : m = Len(s)
  OBVIOUS
<1>3. PICK t : t = s \o <<Nul, Quote>>
  OBVIOUS
<1>4. Len(t) = m + 2 /\ (\A i \in 1..m : t[i] = s[i]) /\ t[m + 1] = Nul /\ t[m + 2] = Quote
  <2>1. PICK v : v = <<Nul, Quote>>
    OBVIOUS
  <2>2. v \in Seq(Chars) /\ Len(v) = 2 /\ v[1] = Nul /\ v[2] = Quote
    BY <2>1 DEF Chars
  <2>3. t = s \o v
    BY <1>3, <2>1
  <2>a. v \in Seq(Chars)
    BY <2>2
  <2>b. Len(s \o v) = Len(s) + Len(v)
    BY <2>a, ConcatProperties
  <2>c. \A i \in 1..Len(s) + Len(v) :
             (s \o v)[i] = IF i <= Len(s) THEN s[i] ELSE v[i - Len(s)]
    BY <2>a, ConcatProperties
  <2>5. Len(t) = m + 2 /\ \A i \in 1..m + 2 : t[i] = IF i <= m THEN s[i] ELSE v[i - m]
    BY <1>2, <2>2, <2>3, <2>b, <2>c
  <2>6. t[m + 1] = v[1] /\ t[m + 2] = v[2] /\ \A i \in 1..m : t[i] = s[i]
    BY <2>5
  <2> QED
    BY <2>2, <2>5, <2>6
<1>5. Paired(t)
  <2> SUFFICES ASSUME NEW i \in 1..m + 2
               PROVE  /\ t[i] = Nul => i < m + 2 /\ t[i + 1] = Quote
                      /\ t[i] = Quote => i > 1 /\ t[i - 1] = Nul
    BY <1>4 DEF Paired
  <2>1. CASE i = m + 1
    BY <1>1, <1>4, <2>1
  <2>2. CASE i = m + 2
    BY <1>1, <1>4, <2>2
  <2>3. CASE i \in 1..m
    <3>1. /\ s[i] = Nul => i < m /\ s[i + 1] = Quote
          /\ s[i] = Quote => i > 1 /\ s[i - 1] = Nul
      BY <1>2, <2>3 DEF Paired
    <3>2. t[i] = s[i] /\ (i < m => t[i + 1] = s[i + 1]) /\ (i > 1 => t[i - 1] = s[i - 1])
      BY <1>4, <2>3
    <3> QED
      BY <2>3, <3>1, <3>2
  <2> QED
    BY <2>1, <2>2, <2>3
<1>6. NearAs(t, text, n + 1)
  <2>1. m <= 2 * n /\ m + 2 <= 2 * (n + 1)
    BY <1>2 DEF NearAs
  <2>2. ASSUME NEW i \in 1..m + 2, t[i] = Quote
        PROVE  \E q \in 1..n + 1 : text[q] = Quote /\ i <= 2 * q /\ m + 2 - i <= 2 * (n + 1 - q)
    <3>1. CASE i = m + 2
      <4>1. n + 1 \in 1..n + 1 /\ i <= 2 * (n + 1) /\ m + 2 - i <= 2 * (n + 1 - (n + 1))
        BY <2>1, <3>1
      <4> QED
        BY <4>1
    <3>2. CASE i # m + 2
      <4>1. i \in 1..m /\ s[i] = Quote
        BY <1>1, <1>4, <2>2, <3>2
      <4>2. PICK q \in 1..n : text[q] = Quote /\ i <= 2 * q /\ m - i <= 2 * (n - q)
        BY <1>2, <4>1 DEF NearAs
      <4>3. q \in 1..n + 1 /\ m + 2 - i <= 2 * (n + 1 - q)
        BY <4>2
      <4> QED
        BY <4>2, <4>3
    <3> QED
      BY <3>1, <3>2
  <2> QED
    BY <1>4, <2>1, <2>2 DEF NearAs
<1> QED
  BY <1>3, <1>5, <1>6

LEMMA GuardedPaired ==
  ASSUME NEW text \in Seq(Letters)
  PROVE  Paired(Guarded(text)) /\ NearAs(Guarded(text), text, Len(text))
<1>1. PICK n \in Nat : n = Len(text)
  OBVIOUS
<1> DEFINE J(k) == Guarded(SubSeq(text, 1, k))
           P == {k \in Nat : k <= n => J(k) \in Seq(Chars) /\ Paired(J(k)) /\ NearAs(J(k), text, k)}
<1>2. 0 \in P
  <2>1. J(0) = <<>>
    <3>1. SubSeq(text, 1, 0) = <<>> /\ <<>> \in Seq(Chars)
      OBVIOUS
    <3>2. Guarded(<<>>) = <<>>
      BY <3>1, AsImages, CharsType, ImageNone
    <3> QED
      BY <3>1, <3>2
  <2>2. <<>> \in Seq(Chars) /\ Paired(<<>>) /\ NearAs(<<>>, text, 0)
    BY DEF Paired, NearAs
  <2> QED
    BY <2>1, <2>2
<1>3. ASSUME NEW k \in Nat, k \in P PROVE k + 1 \in P
  <2> SUFFICES ASSUME k + 1 <= n
               PROVE  J(k + 1) \in Seq(Chars) /\ Paired(J(k + 1)) /\ NearAs(J(k + 1), text, k + 1)
    OBVIOUS
  <2>1. PICK u \in Seq(Chars) : u = J(k) /\ Paired(u) /\ NearAs(u, text, k)
    BY <1>3
  <2>2. k + 1 \in 1..Len(text) /\ k + 1 <= Len(text)
    BY <1>1
  <2>3. PICK c \in Letters : c = text[k + 1] /\ c \in Chars
    BY <2>2, CharsType
  <2>4. PICK x \in Seq(Letters) : x = SubSeq(text, 1, k) /\ x \in Seq(Chars)
    <3>1. SubSeq(text, 1, k) \in Seq(Letters)
      BY <2>2
    <3> QED
      BY <3>1, CharsType
  <2>5. SubSeq(text, 1, k + 1) = x \o <<c>>
    BY <2>2, <2>3, <2>4
  <2>6. Guarded(x \o <<c>>) = u \o GuardQuote[c]
    <3>1. <<c>> \in Seq(Chars) /\ x \o <<c>> \in Seq(Chars)
      BY <2>3, <2>4
    <3>2. GuardQuote \in [Chars -> Seq(Chars)]
      BY CharsType
    <3>3. Image(x \o <<c>>, GuardQuote) = Image(x, GuardQuote) \o Image(<<c>>, GuardQuote)
      BY <2>4, <3>1, <3>2, ImageConcat
    <3>4. Image(<<c>>, GuardQuote) = GuardQuote[c]
      BY <2>3, <3>2, ImageOne
    <3> QED
      BY <2>1, <2>4, <3>1, <3>3, <3>4, AsImages
  <2>7. GuardQuote[c] = IF c = Quote THEN <<Nul, Quote>> ELSE <<c>>
    BY <2>3 DEF GuardQuote
  <2>8. J(k + 1) \in Seq(Chars)
    <3>1. GuardQuote[c] \in Seq(Chars)
      BY <2>3, CharsType
    <3>2. u \o GuardQuote[c] \in Seq(Chars)
      BY <3>1
    <3> QED
      BY <2>5, <2>6, <3>2
  <2>9. CASE c = Quote
    BY <2>1, <2>2, <2>3, <2>5, <2>6, <2>7, <2>8, <2>9, GuardQuotes
  <2>10. CASE c # Quote
    BY <2>1, <2>2, <2>3, <2>5, <2>6, <2>7, <2>8, <2>10, GuardOther
  <2> QED
    BY <2>9, <2>10
<1>4. n \in P
  <2> HIDE DEF P
  <2> QED
    BY <1>2, <1>3, CountingUp
<1>5. SubSeq(text, 1, n) = text
  BY <1>1, SubSeqFull
<1>6. J(n) = Guarded(text)
  BY <1>5
<1> HIDE DEF J
<1>7. Paired(J(n)) /\ NearAs(J(n), text, n)
  BY <1>4
<1> QED
  BY <1>1, <1>6, <1>7

\* The parts are D characters each, one after the other, and a shorter one at the end.
LEMMA PartIs ==
  ASSUME NEW text \in Seq(Letters), text # <<>>, NEW i \in 1..Len(Parts(text))
  PROVE  \E k, m \in Nat :
           /\ k < m /\ m <= k + DataMaxSize /\ m <= Len(Guarded(text))
           /\ k = 0 \/ DataMaxSize <= k
           /\ m < Len(Guarded(text)) => m = k + DataMaxSize
           /\ i < Len(Parts(text)) => m = k + DataMaxSize
           /\ Parts(text)[i] = SubSeq(Guarded(text), k + 1, m)
<1>1. PICK json \in Seq(Chars) : json = Guarded(text) /\ WithoutNuls(json) = text
  BY WithoutNulsOfGuarded
<1>2. json # <<>>
  BY <1>1, WithoutNulsNone
<1>3. PICK n \in Nat \ {0} : n = Len(json)
  BY <1>2
<1>4. PICK D \in Nat \ {0} : D = DataMaxSize
  BY ConstantsAssumption DEF DataMaxSize
<1>5. PICK c : c = (n + D - 1) \div D
  OBVIOUS
<1>6. c \in Nat \ {0} /\ n <= c * D /\ (c - 1) * D < n
  BY <1>5, RoundedUp
<1>7. PICK pp : pp = [j \in 1..c |-> SubSeq(json, (j - 1) * D + 1, Min({j * D, n}))]
  OBVIOUS
<1>8. Parts(text) = pp /\ Len(pp) = c
  <2>1. Parts(text) = pp
    BY <1>1, <1>3, <1>4, <1>5, <1>7 DEF Parts
  <2>2. \E d \in Nat \ {0} : Parts(text) \in Rows(d, Chars)
    BY PartsJoin
  <2>3. PICK d \in Nat \ {0} : pp \in [1..d -> Seq(Chars)]
    BY <2>1, <2>2 DEF Rows
  <2>4. DOMAIN pp = 1..c /\ DOMAIN pp = 1..d /\ Len(pp) = d
    BY <1>7, <2>3, FunctionIsSeq
  <2>5. c = d
    BY <1>6, <2>4
  <2> QED
    BY <2>1, <2>4, <2>5
<1>9. i \in 1..c
  BY <1>8
<1>10. PICK k \in Nat : k = (i - 1) * D
  BY <1>9
<1>11. i * D = k + D
  BY <1>9, <1>10
<1>12. k < n
  <2>1. i - 1 \in Nat /\ c - 1 \in Nat /\ i - 1 <= c - 1
    BY <1>6, <1>9
  <2>2. (i - 1) * D <= (c - 1) * D /\ (c - 1) * D \in Nat
    BY <2>1, Multiples
  <2> QED
    BY <1>6, <1>10, <2>2
<1>13. k = 0 \/ D <= k
  <2>1. CASE i = 1
    BY <1>10, <2>1
  <2>2. CASE i # 1
    <3>1. 1 \in Nat /\ i - 1 \in Nat /\ 1 <= i - 1
      BY <1>9, <2>2
    <3>2. 1 * D <= (i - 1) * D
      BY <3>1, Multiples
    <3> QED
      BY <1>10, <3>2
  <2> QED
    BY <2>1, <2>2
<1>14. PICK m \in Nat : m = IF k + D <= n THEN k + D ELSE n
  OBVIOUS
<1>15. Min({i * D, n}) = m
  BY <1>11, <1>14, MinIs
<1>16. pp[i] = SubSeq(json, k + 1, m)
  BY <1>7, <1>9, <1>10, <1>15
<1>17. i < c => k + D <= n
  <2> SUFFICES ASSUME i < c PROVE k + D <= n
    OBVIOUS
  <2>1. i \in Nat /\ c - 1 \in Nat /\ i <= c - 1
    BY <1>6, <1>9
  <2>2. i * D <= (c - 1) * D /\ (c - 1) * D \in Nat
    BY <2>1, Multiples
  <2> QED
    BY <1>6, <1>11, <2>2
<1>18. k < m /\ m <= k + D /\ m <= n /\ (m < n => m = k + D) /\ (i < c => m = k + D)
  BY <1>12, <1>14, <1>17
<1> QED
  BY <1>1, <1>3, <1>4, <1>8, <1>13, <1>16, <1>18

\* What a part becomes: its length, one more for a lone quote in front and one less
\* for a lone NUL behind. Such a quote is not in the first half part of the text; and
\* not in its last one unless the part is the short one at the end.
LEMMA CutBytes ==
  ASSUME NEW text \in Seq(Letters), text # <<>>, NEW i \in 1..Len(Cut(text))
  PROVE  \E len \in 1..DataMaxSize, a, b \in {0, 1} :
           /\ Size(Cut(text)[i]) = EnvelopeSize + len + a - b
           /\ i < Len(Cut(text)) => len = DataMaxSize
           /\ a = 1 => \E q \in 1..Len(text) :
                /\ text[q] = Quote /\ 2 * q > DataMaxSize
                /\ len = DataMaxSize => 2 * (Len(text) - q) + 1 >= DataMaxSize
<1>1. PICK json \in Seq(Chars) : json = Guarded(text)
  BY WithoutNulsOfGuarded
<1>2. PICK n \in Nat : n = Len(json)
  OBVIOUS
<1>3. PICK D \in Nat \ {0} : D = DataMaxSize
  BY ConstantsAssumption DEF DataMaxSize
<1>4. PICK c \in Nat \ {0} : c = Len(Parts(text)) /\ DOMAIN Parts(text) = 1..c
  <2>1. PICK d \in Nat \ {0} : Parts(text) \in [1..d -> Seq(Chars)]
    BY PartsJoin DEF Rows
  <2> QED
    BY <2>1, FunctionIsSeq
<1>5. Len(Cut(text)) = c /\ i \in 1..c /\ Cut(text)[i].data = WithoutNuls(Parts(text)[i])
  <2>1. DOMAIN Cut(text) = 1..c
    BY <1>4 DEF Cut
  <2>2. DOMAIN Cut(text) = 1..Len(Cut(text)) /\ Len(Cut(text)) \in Nat \ {0}
    BY CutShape
  <2>3. Len(Cut(text)) = c
    BY <2>1, <2>2
  <2>4. i \in DOMAIN Parts(text)
    BY <1>4, <2>3
  <2> QED
    BY <1>4, <2>3, <2>4 DEF Cut
<1>6. PICK k \in Nat, m \in Nat :
        /\ k < m /\ m <= k + D /\ m <= n
        /\ k = 0 \/ D <= k
        /\ m < n => m = k + D
        /\ i < c => m = k + D
        /\ Parts(text)[i] = SubSeq(json, k + 1, m)
  BY <1>1, <1>2, <1>3, <1>4, <1>5, PartIs
<1>7. PICK s : s = SubSeq(json, k + 1, m)
  OBVIOUS
<1>8. /\ s \in Seq(Chars) /\ Len(s) = m - k /\ s # <<>>
      /\ \A j \in 1..m - k : s[j] = json[k + j]
  <2>1. k + 1 \in 1..n /\ m \in k + 1..n
    BY <1>6
  <2>2. s \in Seq(Chars) /\ Len(s) = m - k
    BY <1>2, <1>7, <2>1
  <2>3. \A j \in 1..m - k : s[j] = json[k + j]
    BY <1>2, <1>7, <2>1
  <2> QED
    BY <1>6, <2>2, <2>3
<1>9. Paired(json) /\ NearAs(json, text, Len(text))
  BY <1>1, GuardedPaired
<1>10. PairedInside(s)
  <2> SUFFICES ASSUME NEW j \in 1..(m - k) - 1 PROVE s[j] = Nul <=> s[j + 1] = Quote
    BY <1>8 DEF PairedInside
  <2>1. PICK p \in 1..n - 1 : p = k + j
    BY <1>6
  <2>2. p + 1 = k + (j + 1) /\ j \in 1..m - k /\ j + 1 \in 1..m - k /\ p \in 1..n /\ p + 1 \in 1..n
    BY <1>6, <2>1
  <2>3. s[j] = json[p] /\ s[j + 1] = json[p + 1]
    BY <1>8, <2>1, <2>2
  <2>4. json[p] = Nul => json[p + 1] = Quote
    BY <1>2, <1>9, <2>2 DEF Paired
  <2>5. json[p + 1] = Quote => json[p] = Nul
    <3>1. (p + 1) - 1 = p
      OBVIOUS
    <3> QED
      BY <1>2, <1>9, <2>2, <3>1 DEF Paired
  <2> QED
    BY <2>3, <2>4, <2>5
<1>11. PICK len \in 1..D : len = m - k
  BY <1>6
<1>12. PICK a \in {0, 1}, b \in {0, 1} : a = LoneQuote(s) /\ b = LoneNul(s)
  BY DEF LoneQuote, LoneNul
<1>13. Size(Cut(text)[i]) = EnvelopeSize + len + a - b
  <2>1. Bytes(WithoutNuls(s)) = len + a - b
    BY <1>8, <1>10, <1>11, <1>12, PartBytes
  <2>2. EnvelopeSize \in Nat
    BY ConstantsAssumption
  <2> QED
    BY <1>5, <1>6, <1>7, <2>1, <2>2 DEF Size
<1>14. i < c => len = D
  BY <1>6, <1>11
<1>15. ASSUME a = 1
       PROVE  \E q \in 1..Len(text) :
                /\ text[q] = Quote /\ 2 * q > D
                /\ len = D => 2 * (Len(text) - q) + 1 >= D
  <2>1. k + 1 \in 1..n /\ json[k + 1] = Quote
    <3>1. 1 \in 1..m - k
      BY <1>6
    <3>2. s[1] = Quote
      BY <1>12, <1>15 DEF LoneQuote
    <3> QED
      BY <1>6, <1>8, <3>1, <3>2
  <2>2. k + 1 > 1
    BY <1>2, <1>9, <2>1 DEF Paired
  <2>3. D <= k
    BY <1>6, <2>2
  <2>4. PICK q \in 1..Len(text) :
          text[q] = Quote /\ k + 1 <= 2 * q /\ n - (k + 1) <= 2 * (Len(text) - q)
    BY <1>2, <1>9, <2>1 DEF NearAs
  <2>5. 2 * q > D
    BY <2>3, <2>4
  <2>6. len = D => 2 * (Len(text) - q) + 1 >= D
    BY <1>6, <1>11, <2>4
  <2> QED
    BY <2>4, <2>5, <2>6
<1> QED
  BY <1>3, <1>5, <1>13, <1>14, <1>15

\* A fragment has at most one byte more than allowed, and any but the last at most
\* one less, whatever the text: fragments() counts a quote as two bytes before it cuts,
\* and a cut between the two gives one of them to the fragment after it.
THEOREM FragmentSizes ==
  ASSUME NEW text \in Seq(Letters), text # <<>>, NEW i \in 1..Len(Cut(text))
  PROVE  /\ Size(Cut(text)[i]) <= MaxSize + 1
         /\ i < Len(Cut(text)) => Size(Cut(text)[i]) >= MaxSize - 1
<1>1. PICK len \in 1..DataMaxSize, a \in {0, 1}, b \in {0, 1} :
        /\ Size(Cut(text)[i]) = EnvelopeSize + len + a - b
        /\ i < Len(Cut(text)) => len = DataMaxSize
  BY CutBytes
<1>2. EnvelopeSize \in Nat /\ MaxSize \in Nat /\ EnvelopeSize < MaxSize /\ DataMaxSize = MaxSize - EnvelopeSize
  BY ConstantsAssumption DEF DataMaxSize
<1>3. PICK l : l = Len(Cut(text))
  OBVIOUS
<1> QED
  BY <1>1, <1>2, <1>3

\* Texts as those of datagram_tests.rs, of any length, with quotes near their ends
\* only, are cut into fragments of the sizes tested there.
THEOREM SizesAsTestedHolds == Spec => []SizesAsTested
<1>1. ContentInv => SizesAsTested
  <2> SUFFICES ASSUME ContentInv, NEW text \in sent, QuotesNearTheEnds(text),
                      NEW i \in DOMAIN Cut(text)
               PROVE  /\ Size(Cut(text)[i]) <= MaxSize
                      /\ i < Len(Cut(text)) => Size(Cut(text)[i]) >= MaxSize - 1
    BY DEF SizesAsTested
  <2>1. text \in Seq(Letters) /\ text # <<>>
    BY SentTexts DEF ContentInv, MapInv, Texts
  <2>2. i \in 1..Len(Cut(text))
    BY <2>1, CutShape
  <2>3. PICK len \in 1..DataMaxSize, a \in {0, 1}, b \in {0, 1} :
          /\ Size(Cut(text)[i]) = EnvelopeSize + len + a - b
          /\ i < Len(Cut(text)) => len = DataMaxSize
          /\ a = 1 => \E q \in 1..Len(text) :
               /\ text[q] = Quote /\ 2 * q > DataMaxSize
               /\ len = DataMaxSize => 2 * (Len(text) - q) + 1 >= DataMaxSize
    BY <2>1, <2>2, CutBytes
  <2>4. PICK D \in Nat, E \in Nat :
          D = DataMaxSize /\ E = EnvelopeSize /\ MaxSize = E + D
    BY ConstantsAssumption DEF DataMaxSize
  <2>5. len = D => a = 0
    <3> SUFFICES ASSUME len = D, a = 1 PROVE FALSE
      BY <2>3
    <3>1. PICK q \in 1..Len(text) :
            text[q] = Quote /\ 2 * q > D /\ 2 * (Len(text) - q) + 1 >= D
      BY <2>3, <2>4
    <3>2. q \in DOMAIN text
      BY <2>1, <3>1
    <3>3. 2 * q <= D \/ 2 * (Len(text) - q) + 1 < D
      BY <2>4, <3>1, <3>2 DEF QuotesNearTheEnds
    <3>4. PICK n \in Nat : n = Len(text)
      BY <2>1
    <3> QED
      BY <3>1, <3>3, <3>4
  <2>6. len <= D - 1 \/ a = 0
    BY <2>4, <2>5
  <2>7. Size(Cut(text)[i]) <= MaxSize
    BY <2>3, <2>4, <2>6
  <2>8. i < Len(Cut(text)) => Size(Cut(text)[i]) >= MaxSize - 1
    BY <2>3, <2>4, <2>5
  <2> QED
    BY <2>7, <2>8
<1> QED
  BY <1>1, ContentHolds, PTL

=============================================================================
