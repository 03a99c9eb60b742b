--------------------------- MODULE BulkOpsProofs ---------------------------
(***************************************************************************)
(* What a bulk pop does to a queue, for any queue and any limit: nothing   *)
(* is lost, repeated or moved.                                             *)
(***************************************************************************)
EXTENDS BulkOps, SequenceTheorems, TLAPS

LEMMA BulkSizeBounds ==
  ASSUME NEW S, NEW q \in Seq(S), NEW n \in Nat
  PROVE  /\ BulkSize(q, n) \in 0..Len(q)
         /\ BulkSize(q, n) <= n
         /\ q # <<>> /\ n > 0 => BulkSize(q, n) > 0
<1>1. Len(q) \in Nat /\ (q # <<>> => Len(q) > 0)
  BY LenProperties, EmptySeq
<1> QED BY <1>1 DEF BulkSize

\* pop_bulk splits the queue in two: what it returns and what it leaves
\* (message_queue.h:46-58, 106-117).
THEOREM BulkSplits ==
  ASSUME NEW S, NEW q \in Seq(S), NEW n \in Nat
  PROVE  /\ BulkOf(q, n) \in Seq(S) /\ Len(BulkOf(q, n)) = BulkSize(q, n)
         /\ BulkRest(q, n) \in Seq(S) /\ Len(BulkRest(q, n)) = Len(q) - BulkSize(q, n)
         /\ BulkOf(q, n) \o BulkRest(q, n) = q
<1> DEFINE k == BulkSize(q, n)
<1>1. k \in 0..Len(q) /\ Len(q) \in Nat /\ q \in [1..Len(q) -> S]
  BY BulkSizeBounds, LenProperties
<1>a. k \in Nat /\ k <= Len(q) /\ Len(q) \in Nat
  BY <1>1
<1> HIDE DEF k
<1>2. SubSeq(q, 1, k) \in Seq(S) /\ Len(SubSeq(q, 1, k)) = k
  <2>1. \A i \in 1..k : q[i] \in S
    BY <1>1
  <2>2. 1 \in Int /\ k \in Int
    BY <1>1
  <2>3. SubSeq(q, 1, k) \in Seq(S) /\ Len(SubSeq(q, 1, k)) = IF 1 <= k THEN k - 1 + 1 ELSE 0
    BY <2>1, <2>2, SubSeqProperties
  <2> QED BY <2>3, <1>1
<1>3. SubSeq(q, k + 1, Len(q)) \in Seq(S) /\ Len(SubSeq(q, k + 1, Len(q))) = Len(q) - k
  <2>1. \A i \in (k + 1)..Len(q) : q[i] \in S
    BY <1>1
  <2>2. k + 1 \in Int /\ Len(q) \in Int
    BY <1>1
  <2>3. /\ SubSeq(q, k + 1, Len(q)) \in Seq(S)
        /\ Len(SubSeq(q, k + 1, Len(q))) = IF k + 1 <= Len(q) THEN Len(q) - (k + 1) + 1 ELSE 0
    BY <2>1, <2>2, SubSeqProperties
  <2>4. CASE k + 1 <= Len(q)
    BY <2>3, <2>4, <1>a
  <2>5. CASE k = Len(q)
    BY <2>3, <2>5, <1>a
  <2> QED BY <2>4, <2>5, <1>a
<1>4. SubSeq(q, 1, k) \o SubSeq(q, k + 1, Len(q)) = q
  <2>1. 1 \in 1..Len(q) + 1 /\ k \in (1 - 1)..Len(q) /\ Len(q) \in k..Len(q)
    BY <1>1
  <2>2. SubSeq(q, 1, k) \o SubSeq(q, k + 1, Len(q)) = SubSeq(q, 1, Len(q))
    BY <2>1, ConcatAdjacentSubSeq
  <2> QED BY <2>2, SubSeqFull
<1> QED BY <1>2, <1>3, <1>4 DEF BulkOf, BulkRest, k

\* A bulk pop of an empty queue returns nothing, of any other queue something: the
\* pollers sleep on the first and never on the second.
LEMMA BulkOfEmpty ==
  ASSUME NEW S, NEW q \in Seq(S), NEW n \in Nat \ {0}
  PROVE  BulkOf(q, n) = <<>> <=> q = <<>>
<1>1. Len(BulkOf(q, n)) = BulkSize(q, n) /\ BulkOf(q, n) \in Seq(S)
  BY BulkSplits
<1>2. q # <<>> => BulkSize(q, n) > 0
  BY BulkSizeBounds
<1>3. q = <<>> => BulkSize(q, n) = 0
  <2>1. BulkSize(q, n) \in 0..Len(q)
    BY BulkSizeBounds
  <2> QED BY <2>1, EmptySeq
<1> QED BY <1>1, <1>2, <1>3, EmptySeq

\* Taking the head of a sequence is the pop_bulk of max_count 1.
LEMMA PopIsBulkOfOne ==
  ASSUME NEW S, NEW q \in Seq(S), q # <<>>
  PROVE  BulkOf(q, 1) = <<Head(q)>> /\ BulkRest(q, 1) = Tail(q)
<1>1. Len(q) \in Nat /\ Len(q) >= 1
  BY EmptySeq, LenProperties
<1>2. BulkSize(q, 1) = 1
  BY <1>1 DEF BulkSize
<1>3. Tail(q) = SubSeq(q, 2, Len(q))
  BY TailIsSubSeq
<1>4. \A i \in 1..1 : q[i] \in S
  BY <1>1, ElementOfSeq
<1>5. /\ SubSeq(q, 1, 1) \in Seq(S) /\ Len(SubSeq(q, 1, 1)) = 1
      /\ SubSeq(q, 1, 1)[1] = q[1]
  BY <1>4, SubSeqProperties
<1>6. SubSeq(q, 1, 1) = <<Head(q)>>
  <2>1. Head(q) \in S /\ Head(q) = q[1]
    BY HeadTailProperties
  <2>2. <<Head(q)>> \in Seq(S) /\ Len(<<Head(q)>>) = 1 /\ <<Head(q)>>[1] = Head(q)
    BY <2>1
  <2>3. \A i \in 1..Len(SubSeq(q, 1, 1)) : SubSeq(q, 1, 1)[i] = <<Head(q)>>[i]
    BY <1>5, <2>1, <2>2
  <2> QED BY <1>5, <2>2, <2>3, SeqEqual
<1> QED BY <1>2, <1>3, <1>6 DEF BulkOf, BulkRest
=============================================================================
