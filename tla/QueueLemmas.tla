----------------------------- MODULE QueueLemmas -----------------------------
(***************************************************************************)
(* Facts about sequences used as channels, which the proofs about the      *)
(* components share: what is put in, taken out, lost or moved to the front.*)
(* At the end, two facts about numbers for arguments by counting.          *)
(***************************************************************************)
EXTENDS Naturals, Sequences, Functions, SequenceTheorems, WellFoundedInduction, TLAPS

LEMMA EmptyQueue ==
  ASSUME NEW S
  PROVE  <<>> \in Seq(S) /\ Len(<<>>) = 0
OBVIOUS

LEMMA OneInQueue ==
  ASSUME NEW S, NEW x \in S
  PROVE  <<x>> \in Seq(S) /\ Len(<<x>>) = 1
OBVIOUS

LEMMA PushKeeps ==
  ASSUME NEW S, NEW q \in Seq(S), NEW x \in S
  PROVE  Append(q, x) \in Seq(S) /\ Len(Append(q, x)) = Len(q) + 1
OBVIOUS

LEMMA PopKeeps ==
  ASSUME NEW S, NEW q \in Seq(S), q # <<>>
  PROVE  Head(q) \in S /\ Tail(q) \in Seq(S) /\ Len(Tail(q)) = Len(q) - 1
OBVIOUS

LEMMA InRange ==
  ASSUME NEW S, NEW q \in Seq(S), NEW x \in Range(q)
  PROVE  x \in S
BY DEF Range

LEMMA JoinKeeps ==
  ASSUME NEW S, NEW q \in Seq(S), NEW r \in Seq(S), NEW m \in Nat, NEW n \in Nat,
         Len(q) = m, Len(r) = n
  PROVE  q \o r \in Seq(S) /\ Len(q \o r) = m + n
BY ConcatProperties

\* A queue without its i-th element.
LEMMA LossKeeps ==
  ASSUME NEW S, NEW q \in Seq(S), NEW i \in 1..Len(q)
  PROVE  /\ SubSeq(q, 1, i - 1) \o SubSeq(q, i + 1, Len(q)) \in Seq(S)
         /\ Len(SubSeq(q, 1, i - 1) \o SubSeq(q, i + 1, Len(q))) = Len(q) - 1
<1> DEFINE before == SubSeq(q, 1, i - 1)
           after == SubSeq(q, i + 1, Len(q))
           m == i - 1
           n == Len(q) - i
<1>1. before \in Seq(S) /\ Len(before) = m
  OBVIOUS
<1>2. after \in Seq(S) /\ Len(after) = n
  OBVIOUS
<1>3. m \in Nat /\ n \in Nat /\ m + n = Len(q) - 1
  OBVIOUS
<1> HIDE DEF before, after, m, n
<1>4. before \o after \in Seq(S) /\ Len(before \o after) = Len(before) + Len(after)
  BY <1>1, <1>2, ConcatProperties
<1>5. Len(before \o after) = m + n
  BY <1>1, <1>2, <1>4
<1>6. before \o after \in Seq(S) /\ Len(before \o after) = Len(q) - 1
  BY <1>3, <1>4, <1>5
<1> QED
  BY <1>6 DEF before, after

\* One element in front of a queue.
LEMMA FrontKeeps ==
  ASSUME NEW S, NEW q \in Seq(S), NEW x \in S
  PROVE  <<x>> \o q \in Seq(S) /\ Len(<<x>> \o q) = Len(q) + 1
<1>1. Len(q) \in Nat /\ 1 \in Nat
  OBVIOUS
<1>2. <<x>> \o q \in Seq(S) /\ Len(<<x>> \o q) = 1 + Len(q)
  BY <1>1, OneInQueue, JoinKeeps
<1> QED
  BY <1>1, <1>2

\* What is held, where at most one thing is.
LEMMA HeldOne ==
  ASSUME NEW S, NEW q \in Seq(S), q # <<>>, Len(q) <= 1
  PROVE  Len(q) = 1 /\ Head(q) \in S /\ q = <<Head(q)>>
<1>1. Len(q) = 1 /\ Head(q) \in S /\ Head(q) = q[1]
  <2>1. Len(q) \in Nat /\ Len(q) # 0
    BY EmptySeq
  <2> QED
    BY <2>1
<1>2. <<Head(q)>> \in Seq(S) /\ Len(<<Head(q)>>) = 1 /\ <<Head(q)>>[1] = Head(q)
  BY <1>1
<1>3. q = <<Head(q)>>
  BY <1>1, <1>2, SeqEqual
<1> QED
  BY <1>1, <1>3

\* A held element goes to the end of a queue.
LEMMA PushHeld ==
  ASSUME NEW S, NEW q \in Seq(S), NEW h \in Seq(S), h # <<>>, Len(h) <= 1
  PROVE  q \o h = Append(q, Head(h)) /\ Head(h) \in S
<1>1. Head(h) \in S /\ h = <<Head(h)>>
  BY HeldOne
<1>2. Append(q, Head(h)) = q \o <<Head(h)>>
  BY <1>1, AppendIsConcat
<1> QED
  BY <1>1, <1>2

LEMMA PushRange ==
  ASSUME NEW S, NEW q \in Seq(S), NEW x \in S
  PROVE  Range(Append(q, x)) = Range(q) \cup {x}
<1>1. Append(q, x) = q \o <<x>> /\ <<x>> \in Seq(S)
  BY AppendIsConcat
<1>2. Range(q \o <<x>>) = Range(q) \cup Range(<<x>>)
  BY <1>1, RangeConcatenation
<1>3. Range(<<x>>) = {x}
  BY DEF Range
<1> QED
  BY <1>1, <1>2, <1>3

LEMMA PopRange ==
  ASSUME NEW S, NEW q \in Seq(S), q # <<>>
  PROVE  Range(q) = {Head(q)} \cup Range(Tail(q))
<1>1. Len(q) \in Nat /\ Len(q) # 0
  BY EmptySeq
<1>2. DOMAIN q = 1..Len(q) /\ DOMAIN Tail(q) = 1..(Len(q) - 1)
  BY <1>1
<1>3. Head(q) = q[1] /\ \A i \in 1..(Len(q) - 1) : Tail(q)[i] = q[i + 1]
  BY <1>1
<1>4. \A i \in 1..Len(q) : i = 1 \/ (i - 1 \in 1..(Len(q) - 1) /\ q[i] = Tail(q)[i - 1])
  BY <1>1, <1>3
<1>5. ASSUME NEW x \in Range(q) PROVE x \in {Head(q)} \cup Range(Tail(q))
  <2>1. PICK i \in 1..Len(q) : x = q[i]
    BY <1>2 DEF Range
  <2>2. CASE i = 1
    BY <1>3, <2>1, <2>2
  <2>3. CASE i - 1 \in 1..(Len(q) - 1) /\ q[i] = Tail(q)[i - 1]
    <3>1. Tail(q)[i - 1] \in Range(Tail(q))
      BY <1>2, <2>3 DEF Range
    <3> QED
      BY <2>1, <2>3, <3>1
  <2> QED
    BY <1>4, <2>2, <2>3
<1>6. {Head(q)} \cup Range(Tail(q)) \subseteq Range(q)
  BY <1>1, <1>2, <1>3 DEF Range
<1> QED
  BY <1>5, <1>6

-----------------------------------------------------------------------------
LEMMA LeastExists ==
  ASSUME NEW T \in SUBSET Nat, T # {}
  PROVE  \E t \in T : \A u \in T : t <= u
<1> DEFINE Less == {ss \in Nat \X Nat : ss[1] < ss[2]}
<1>1. IsWellFoundedOn(Less, Nat)
  BY NatLessThanWellFounded DEF OpToRel
<1>2. PICK t \in T : \A u \in T : ~(<<u, t>> \in Less)
  BY <1>1, WFMin
<1>3. \A u \in T : ~(u < t)
  BY <1>2
<1> QED
  BY <1>3

\* Induction, for a set that is written out: it contains each number when it
\* contains 0 and, with a number, the next.
LEMMA CountingUp ==
  ASSUME NEW P, 0 \in P, \A n \in Nat : n \in P => n + 1 \in P
  PROVE  Nat \subseteq P
<1> SUFFICES ASSUME NEW k \in Nat, k \notin P PROVE FALSE
  OBVIOUS
<1> DEFINE T == {n \in Nat : n \notin P}
<1>1. PICK t \in T : \A u \in T : t <= u
  BY LeastExists
<1>2. t \in Nat /\ t # 0
  BY <1>1
<1>3. t - 1 \in Nat /\ ~(t <= t - 1)
  BY <1>2
<1>4. t - 1 \in P
  BY <1>1, <1>3
<1>5. (t - 1) + 1 = t
  BY <1>2
<1> QED
  BY <1>1, <1>3, <1>4, <1>5

=============================================================================
