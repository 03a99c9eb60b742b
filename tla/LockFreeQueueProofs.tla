-------------------------- MODULE LockFreeQueueProofs --------------------------
(***************************************************************************)
(* For any producers, capacity, bulk size and number of pushes: the types, *)
(* the bookkeeping of size_ and where it may wrap, the order of each       *)
(* producer's messages, the account of every push, and that LockFreeQueue  *)
(* implements MessageQueue.  The inductive invariant adds to TypeOK and    *)
(* SizeTracksQueue that an idle consumer owes size_ nothing, without which *)
(* a new pop could start above its limit.                                  *)
(*                                                                         *)
(* Order: what was received, followed by what is queued, is one line that  *)
(* a pop leaves alone and a push extends by a higher number of its         *)
(* producer.  Account: the calls are a finite set that each push extends   *)
(* by one.                                                                 *)
(***************************************************************************)
EXTENDS LockFreeQueue, FiniteSetTheorems, BulkOpsProofs

USE LockFreeAssumption, GrowableAssumption

\* The sets of producers inside push() are finite, so that they can be counted.
LEMMA InFlightFinite ==
  /\ IsFiniteSet(Pushing) /\ Cardinality(Pushing) \in Nat
  /\ IsFiniteSet(Refusing) /\ Cardinality(Refusing) \in Nat
<1>1. Pushing \in SUBSET Producers /\ Refusing \in SUBSET Producers
  BY DEF Pushing, Refusing
<1>2. IsFiniteSet(Pushing) /\ IsFiniteSet(Refusing)
  BY <1>1, FS_Subset DEF LockFreeAssumption
<1> QED BY <1>2, FS_CardinalityType

\* What each step of a producer does to the number of producers inside push().
LEMMA StartPushCounts ==
  ASSUME TypeOK, NEW p \in Producers, NEW outcome \in {"pushed", "refused"},
         StartPush(p, outcome)
  PROVE  /\ Cardinality(Pushing') =
              Cardinality(Pushing) + (IF outcome = "pushed" THEN 1 ELSE 0)
         /\ Cardinality(Refusing') =
              Cardinality(Refusing) + (IF outcome = "refused" THEN 1 ELSE 0)
<1>1. CASE outcome = "pushed"
  <2>1. Pushing' = Pushing \cup {p} /\ p \notin Pushing /\ Refusing' = Refusing
    BY <1>1 DEF StartPush, Pushing, Refusing, TypeOK
  <2>2. Cardinality(Pushing') = Cardinality(Pushing) + 1
    BY <2>1, InFlightFinite, FS_AddElement
  <2> QED BY <1>1, <2>1, <2>2, InFlightFinite
<1>2. CASE outcome = "refused"
  <2>1. Refusing' = Refusing \cup {p} /\ p \notin Refusing /\ Pushing' = Pushing
    BY <1>2 DEF StartPush, Pushing, Refusing, TypeOK
  <2>2. Cardinality(Refusing') = Cardinality(Refusing) + 1
    BY <2>1, InFlightFinite, FS_AddElement
  <2> QED BY <1>2, <2>1, <2>2, InFlightFinite
<1> QED BY <1>1, <1>2

LEMMA CountPushCounts ==
  ASSUME TypeOK, NEW p \in Producers, CountPush(p)
  PROVE  /\ Cardinality(Pushing') = Cardinality(Pushing) - 1
         /\ Cardinality(Refusing') = Cardinality(Refusing)
<1>1. Pushing' = Pushing \ {p} /\ p \in Pushing /\ Refusing' = Refusing
  BY DEF CountPush, Pushing, Refusing, TypeOK
<1> QED BY <1>1, InFlightFinite, FS_RemoveElement

LEMMA CountDropCounts ==
  ASSUME TypeOK, NEW p \in Producers, CountDrop(p)
  PROVE  /\ Cardinality(Refusing') = Cardinality(Refusing) - 1
         /\ Cardinality(Pushing') = Cardinality(Pushing)
<1>1. Refusing' = Refusing \ {p} /\ p \in Refusing /\ Pushing' = Pushing
  BY DEF CountDrop, Pushing, Refusing, TypeOK
<1> QED BY <1>1, InFlightFinite, FS_RemoveElement

LEMMA SameProducerSameCounts ==
  ASSUME producer' = producer
  PROVE  Pushing' = Pushing /\ Refusing' = Refusing
BY DEF Pushing, Refusing

IdleOwesNothing == consumer = "idle" => count = 0

IInv == TypeOK /\ SizeTracksQueue /\ IdleOwesNothing

LEMMA InitIInv == Init => IInv
<1> SUFFICES ASSUME Init PROVE IInv
  OBVIOUS
<1>1. TypeOK
  BY DEF Init, TypeOK, LockFreeAssumption
<1>2. Pushing = {}
  BY DEF Init, Pushing
<1>3. SizeTracksQueue
  BY <1>2, FS_EmptySet DEF Init, SizeTracksQueue
<1>4. IdleOwesNothing
  BY DEF Init, IdleOwesNothing
<1> QED BY <1>1, <1>3, <1>4 DEF IInv

\* A producer appends at most one message at the tail, and counts it later.
LEMMA ProducerStep ==
  ASSUME IInv, NEW p \in Producers,
         PushNode(p) \/ CountPush(p) \/ RefuseNode(p) \/ CountDrop(p)
  PROVE  IInv'
<1> USE DEF IInv, TypeOK, SizeTracksQueue, IdleOwesNothing, consumerVars
<1>0. IdleOwesNothing'
  BY DEF PushNode, CountPush, RefuseNode, CountDrop
<1>1. CASE PushNode(p)
  <2>1. <<p, pushes[p] + 1>> \in Messages
    BY <1>1 DEF PushNode, StartPush, Messages, LockFreeAssumption
  <2>2. queue' \in Seq(Messages) /\ Len(queue') = Len(queue) + 1
    BY <1>1, <2>1, AppendProperties DEF PushNode
  <2>3. Cardinality(Pushing') = Cardinality(Pushing) + 1
    BY <1>1, StartPushCounts DEF PushNode
  <2>4. SizeTracksQueue'
    <3>1. Len(queue) \in Nat
      BY LenProperties
    <3>2. size_' = size_ /\ count' = count /\ count \in Int
      BY <1>1 DEF PushNode
    <3>3. size_ = Len(queue) + count - Cardinality(Pushing)
      OBVIOUS
    <3>4. Cardinality(Pushing) \in Int
      BY InFlightFinite
    <3>5. size_' = Len(queue') + count' - Cardinality(Pushing')
      BY <3>1, <3>2, <3>3, <3>4, <2>2, <2>3
    <3> QED BY <3>5
  <2>5. TypeOK'
    BY <1>1, <2>2 DEF PushNode, StartPush, LockFreeAssumption
  <2> QED BY <1>0, <2>4, <2>5
<1>2. CASE CountPush(p)
  <2>1. Cardinality(Pushing') = Cardinality(Pushing) - 1
    BY <1>2, CountPushCounts
  <2>2. SizeTracksQueue'
    BY <1>2, <2>1, InFlightFinite DEF CountPush
  <2>3. TypeOK'
    BY <1>2 DEF CountPush
  <2> QED BY <1>0, <2>2, <2>3
<1>3. CASE RefuseNode(p)
  <2>1. Cardinality(Pushing') = Cardinality(Pushing)
    BY <1>3, StartPushCounts, InFlightFinite DEF RefuseNode
  <2>2. SizeTracksQueue'
    BY <1>3, <2>1 DEF RefuseNode
  <2>3. TypeOK'
    BY <1>3 DEF RefuseNode, StartPush, LockFreeAssumption
  <2> QED BY <1>0, <2>2, <2>3
<1>4. CASE CountDrop(p)
  <2>1. Cardinality(Pushing') = Cardinality(Pushing)
    BY <1>4, CountDropCounts
  <2>2. SizeTracksQueue'
    BY <1>4, <2>1 DEF CountDrop
  <2>3. TypeOK'
    BY <1>4 DEF CountDrop
  <2> QED BY <1>0, <2>2, <2>3
<1> QED BY <1>1, <1>2, <1>3, <1>4

\* The consumer moves the head into received and subtracts what it took at the end.
LEMMA ConsumerStep ==
  ASSUME IInv,
         \/ \E max_count \in 1..BulkMax : StartPop(max_count)
         \/ PopNode \/ EndPopLoop \/ CountPop
  PROVE  IInv'
<1> USE DEF IInv, TypeOK, SizeTracksQueue, IdleOwesNothing, producerVars
<1>0. producer' = producer /\ Pushing' = Pushing
  BY SameProducerSameCounts DEF StartPop, PopNode, EndPopLoop, CountPop
<1>1. CASE \E max_count \in 1..BulkMax : StartPop(max_count)
  BY <1>0, <1>1 DEF StartPop
<1>2. CASE PopNode
  <2>1. /\ queue' \in Seq(Messages) /\ Len(queue') = Len(queue) - 1
        /\ Head(queue) \in Messages
    BY <1>2, HeadTailProperties DEF PopNode
  <2>2. received' \in Seq(Messages)
    BY <1>2, <2>1, AppendProperties DEF PopNode
  <2>3. count' \in 0..limit' /\ count' = count + 1 /\ size_' = size_
    BY <1>2 DEF PopNode
  <2>4. SizeTracksQueue'
    BY <1>0, <2>1, <2>3, InFlightFinite
  <2>5. TypeOK'
    BY <1>2, <2>1, <2>2, <2>3 DEF PopNode
  <2>6. IdleOwesNothing'
    BY <1>2 DEF PopNode
  <2> QED BY <2>4, <2>5, <2>6
<1>3. CASE EndPopLoop
  BY <1>0, <1>3 DEF EndPopLoop
<1>4. CASE CountPop
  BY <1>0, <1>4, InFlightFinite DEF CountPop
<1> QED BY <1>1, <1>2, <1>3, <1>4

LEMMA NextIInv == IInv /\ [Next]_vars => IInv'
<1> SUFFICES ASSUME IInv, [Next]_vars PROVE IInv'
  OBVIOUS
<1>1. CASE \E p \in Producers : PushNode(p) \/ CountPush(p) \/ RefuseNode(p) \/ CountDrop(p)
  BY <1>1, ProducerStep
<1>2. CASE \/ \E max_count \in 1..BulkMax : StartPop(max_count)
           \/ PopNode \/ EndPopLoop \/ CountPop
  BY <1>2, ConsumerStep
<1>3. CASE UNCHANGED vars
  BY <1>3, SameProducerSameCounts DEF vars, IInv, TypeOK, SizeTracksQueue, IdleOwesNothing, Messages
<1> QED BY <1>1, <1>2, <1>3 DEF Next

THEOREM Invariance == Spec => []IInv
BY InitIInv, NextIInv, PTL DEF Spec

\* Every variable of the lock-free queue keeps its type.
THEOREM TypeCorrect == Spec => []TypeOK
<1>1. IInv => TypeOK
  BY DEF IInv
<1> QED BY <1>1, Invariance, PTL

\* size_ always differs from the length of the queue by exactly the operations
\* between their queue step and their counter step (message_queue.h:88-117).
THEOREM SizeCorrect == Spec => []SizeTracksQueue
<1>1. IInv => SizeTracksQueue
  BY DEF IInv
<1> QED BY <1>1, Invariance, PTL

-----------------------------------------------------------------------------
(* A counter that wraps *)

\* The width of the counter in values: one for each set of its bits.
LEMMA CounterWidth == 2^SizeBits \in Nat \ {0}
<1>1. IsFiniteSet(1..SizeBits) /\ Cardinality(1..SizeBits) = SizeBits
  BY FS_Interval DEF LockFreeAssumption
<1>2. /\ IsFiniteSet(SUBSET (1..SizeBits))
      /\ Cardinality(SUBSET (1..SizeBits)) = 2^SizeBits
  BY <1>1, FS_SUBSET
<1>3. SUBSET (1..SizeBits) # {}
  OBVIOUS
<1> QED BY <1>2, <1>3, FS_CardinalityType, FS_EmptySet

\* A value that is not negative is read as itself or as something smaller.
LEMMA ReadsNoMore ==
  ASSUME NEW n \in Nat, NEW w \in Nat \ {0}
  PROVE  n % w <= n
<1>1. n % w \in Int /\ 0 <= n % w /\ n % w < w
  OBVIOUS
<1>2. CASE n < w
  <2>1. n % w = n
    BY <1>2
  <2> QED BY <2>1
<1>3. CASE n >= w
  BY <1>1, <1>3
<1> QED BY <1>2, <1>3

\* The producers whose message is queued are no more than the queue is long.
LEMMA QueuedAreFew ==
  ASSUME TypeOK, NEW S \in SUBSET Producers,
         \A p \in S : \E i \in 1..Len(queue) : queue[i] = <<p, pushes[p]>>
  PROVE  Cardinality(S) <= Len(queue)
<1> DEFINE place == [p \in S |-> CHOOSE i \in 1..Len(queue) : queue[i] = <<p, pushes[p]>>]
<1>1. \A p \in S : place[p] \in 1..Len(queue) /\ queue[place[p]] = <<p, pushes[p]>>
  OBVIOUS
<1> HIDE DEF place
<1>2. place \in [S -> 1..Len(queue)]
  BY <1>1 DEF place
<1>3. \A p, r \in S : place[p] = place[r] => p = r
  <2> SUFFICES ASSUME NEW p \in S, NEW r \in S, place[p] = place[r] PROVE p = r
    OBVIOUS
  <2>1. <<p, pushes[p]>> = <<r, pushes[r]>>
    BY <1>1
  <2> QED BY <2>1
<1>4. place \in Injection(S, 1..Len(queue))
  BY <1>2, <1>3 DEF Injection, IsInjective
<1>5. Len(queue) \in Nat
  BY LenProperties DEF TypeOK
<1>6. IsFiniteSet(1..Len(queue)) /\ Cardinality(1..Len(queue)) = Len(queue)
  <2>1. 1 \in Int /\ Len(queue) \in Int
    BY <1>5
  <2>2. /\ IsFiniteSet(1..Len(queue))
        /\ Cardinality(1..Len(queue)) = IF 1 > Len(queue) THEN 0 ELSE Len(queue) - 1 + 1
    BY <2>1, FS_Interval
  <2> QED BY <2>2, <1>5
<1> QED BY <1>4, <1>6, FS_Injection

LEMMA WrapIsBehindAPush == IInv => WrapsOnlyBehindAPush
<1> SUFFICES ASSUME IInv, approx_size > Len(queue) + BulkMax
             PROVE  \E p \in Pushing : \A i \in 1..Len(queue) : queue[i] # <<p, pushes[p]>>
  BY DEF WrapsOnlyBehindAPush
<1>1. /\ Len(queue) \in Nat /\ size_ \in Int /\ BulkMax \in Nat
      /\ count \in Nat /\ count <= BulkMax
      /\ size_ = Len(queue) + count - Cardinality(Pushing) /\ Cardinality(Pushing) \in Nat
  BY LenProperties, InFlightFinite DEF IInv, TypeOK, SizeTracksQueue, LockFreeAssumption
<1>2. size_ < 0
  <2>1. ASSUME size_ >= 0 PROVE FALSE
    <3>1. size_ % 2^SizeBits <= size_
      BY <2>1, <1>1, CounterWidth, ReadsNoMore
    <3>2. size_ <= Len(queue) + BulkMax
      BY <1>1
    <3>3. 2^SizeBits \in Nat \ {0}
      BY CounterWidth
    <3>4. size_ % 2^SizeBits \in Int
      BY <3>3, <1>1
    <3> QED BY <1>1, <3>1, <3>2, <3>4 DEF approx_size
  <2> QED BY <2>1, <1>1
<1>3. Cardinality(Pushing) > Len(queue)
  BY <1>1, <1>2
<1>4. Pushing \in SUBSET Producers
  BY DEF Pushing
<1>5. ASSUME \A p \in Pushing : \E i \in 1..Len(queue) : queue[i] = <<p, pushes[p]>>
      PROVE  FALSE
  <2>1. TypeOK
    BY DEF IInv
  <2>2. Cardinality(Pushing) <= Len(queue)
    BY <1>4, <1>5, <2>1, QueuedAreFew
  <2> QED BY <1>1, <1>3, <2>2
<1> QED BY <1>5

\* Whatever the width of the counter and the number of producers: a reading above
\* everything in flight shows a push that a consumer overtook
\* (message_queue.h:88-126).
THEOREM WrapCorrect == Spec => []WrapsOnlyBehindAPush
BY WrapIsBehindAPush, Invariance, PTL

-----------------------------------------------------------------------------
(* The history of the messages *)

Line == received \o queue

\* A message of a producer is one that it has pushed.
NumbersPushed == \A i \in 1..Len(Line) : Line[i][2] <= pushes[Line[i][1]]

LEMMA LineTyped ==
  ASSUME TypeOK
  PROVE  /\ Line \in Seq(Messages) /\ Len(Line) \in Nat
         /\ Len(Line) = Len(received) + Len(queue)
         /\ \A i \in 1..Len(Line) : Line[i][1] \in Producers /\ Line[i][2] \in 1..MaxPushes
<1>1. Line \in Seq(Messages) /\ Len(Line) = Len(received) + Len(queue)
  BY ConcatProperties DEF TypeOK, Line
<1>2. \A i \in 1..Len(Line) : Line[i] \in Messages
  BY <1>1, ElementOfSeq
<1> QED BY <1>1, <1>2, LenProperties DEF Messages

\* Popping moves the cut between received and queue and nothing else.
LEMMA PopKeepsLine ==
  ASSUME TypeOK, PopNode
  PROVE  Line' = Line
<1>1. received \in Seq(Messages) /\ queue \in Seq(Messages) /\ queue # <<>>
  BY DEF TypeOK, PopNode
<1>2. Head(queue) \in Messages /\ Tail(queue) \in Seq(Messages)
  BY <1>1, HeadTailProperties
<1>3. <<Head(queue)>> \in Seq(Messages)
  BY <1>2
<1>4. queue = <<Head(queue)>> \o Tail(queue)
  <2>1. Len(queue) \in Nat \ {0}
    BY <1>1, EmptySeq
  <2>2. 1 \in 1..Len(queue) /\ Len(queue) \in 1..Len(queue)
    BY <2>1
  <2>3. SubSeq(queue, 1, Len(queue)) = <<queue[1]>> \o SubSeq(queue, 1 + 1, Len(queue))
    BY <1>1, <2>2, SubSeqRecursiveFirst
  <2>4. SubSeq(queue, 2, Len(queue)) = Tail(queue) /\ SubSeq(queue, 1, Len(queue)) = queue
    BY <1>1, TailIsSubSeq, SubSeqFull
  <2> QED BY <2>3, <2>4
<1>5. Append(received, Head(queue)) = received \o <<Head(queue)>>
  BY <1>1, <1>2, AppendIsConcat
<1>6. (received \o <<Head(queue)>>) \o Tail(queue) = received \o (<<Head(queue)>> \o Tail(queue))
  BY <1>1, <1>2, <1>3, ConcatAssociative
<1> QED BY <1>4, <1>5, <1>6 DEF PopNode, Line

LEMMA PushExtendsLine ==
  ASSUME TypeOK, NEW p \in Producers, PushNode(p)
  PROVE  /\ Line' = Append(Line, <<p, pushes[p] + 1>>)
         /\ <<p, pushes[p] + 1>> \in Messages
<1>1. <<p, pushes[p] + 1>> \in Messages
  BY DEF PushNode, StartPush, Messages, TypeOK, LockFreeAssumption
<1>2. received \in Seq(Messages) /\ queue \in Seq(Messages)
  BY DEF TypeOK
<1> DEFINE m == <<p, pushes[p] + 1>>
<1> HIDE DEF m
<1>3. m \in Messages
  BY <1>1 DEF m
<1>4. <<m>> \in Seq(Messages)
  BY <1>3
<1>5. Append(queue, m) = queue \o <<m>> /\ received \o queue \in Seq(Messages)
  BY <1>2, <1>3, AppendIsConcat, ConcatProperties
<1>6. Append(received \o queue, m) = (received \o queue) \o <<m>>
  BY <1>3, <1>5, AppendIsConcat
<1>7. (received \o queue) \o <<m>> = received \o (queue \o <<m>>)
  BY <1>2, <1>4, ConcatAssociative
<1>8. queue' = Append(queue, m) /\ received' = received
  BY DEF PushNode, consumerVars, m
<1> QED BY <1>1, <1>5, <1>6, <1>7, <1>8 DEF Line, m

\* No step takes a push back.
LEMMA PushesGrow ==
  ASSUME TypeOK, [Next]_vars, NEW p \in Producers
  PROVE  pushes[p] \in Int /\ pushes'[p] \in Int /\ pushes[p] <= pushes'[p]
<1>1. \A r \in Producers : pushes[r] \in Int
  BY DEF TypeOK
<1>2. pushes' = pushes \/ \E r \in Producers, o \in {"pushed", "refused"} : StartPush(r, o)
  BY DEF Next, vars, PushNode, CountPush, RefuseNode, CountDrop, StartPop, PopNode,
         EndPopLoop, CountPop, producerVars
<1>3. CASE pushes' = pushes
  BY <1>1, <1>3
<1>4. ASSUME NEW r \in Producers, NEW o, StartPush(r, o)
      PROVE  pushes'[p] = pushes[p] \/ pushes'[p] = pushes[p] + 1
  BY <1>4 DEF StartPush, TypeOK
<1> QED BY <1>1, <1>2, <1>3, <1>4

\* Every other step leaves the line as it is.
LEMMA OtherStepsKeepLine ==
  ASSUME TypeOK, [Next]_vars, \A p \in Producers : ~ PushNode(p)
  PROVE  Line' = Line
<1>1. ASSUME NEW p \in Producers, CountPush(p) \/ RefuseNode(p) \/ CountDrop(p)
      PROVE  Line' = Line
  BY <1>1 DEF CountPush, RefuseNode, CountDrop, consumerVars, Line
<1>2. ASSUME \/ \E max_count \in 1..BulkMax : StartPop(max_count)
             \/ EndPopLoop \/ CountPop \/ UNCHANGED vars
      PROVE  Line' = Line
  BY <1>2 DEF StartPop, EndPopLoop, CountPop, vars, Line
<1> QED BY <1>1, <1>2, PopKeepsLine DEF Next

\* A new message is the last of its producer, so the line stays in order.
LEMMA StepKeepsOrder ==
  TypeOK /\ PerProducerOrder /\ NumbersPushed /\ [Next]_vars
    => (PerProducerOrder /\ NumbersPushed)'
<1> SUFFICES ASSUME TypeOK, PerProducerOrder, NumbersPushed, [Next]_vars
             PROVE  (PerProducerOrder /\ NumbersPushed)'
  OBVIOUS
<1>1. \A i, j \in 1..Len(Line) : i < j /\ Line[i][1] = Line[j][1] => Line[i][2] < Line[j][2]
  BY DEF PerProducerOrder, Line
<1>2. \A i \in 1..Len(Line) : /\ Line[i][1] \in Producers /\ Line[i][2] \in Int
                             /\ Line[i][2] <= pushes[Line[i][1]]
  BY LineTyped DEF NumbersPushed
<1>3. \A p \in Producers : pushes[p] <= pushes'[p] /\ pushes[p] \in Int /\ pushes'[p] \in Int
  BY PushesGrow
<1>4. CASE \A p \in Producers : ~ PushNode(p)
  <2>1. Line' = Line
    BY <1>4, OtherStepsKeepLine
  <2>2. PerProducerOrder'
    BY <1>1, <2>1 DEF PerProducerOrder, Line
  <2>3. NumbersPushed'
    BY <1>2, <1>3, <2>1 DEF NumbersPushed
  <2> QED BY <2>2, <2>3
<1>5. ASSUME NEW p \in Producers, PushNode(p)
      PROVE  (PerProducerOrder /\ NumbersPushed)'
  <2> DEFINE m == <<p, pushes[p] + 1>>
  <2>1. /\ Line' = Append(Line, m) /\ m[1] = p /\ m[2] = pushes[p] + 1
        /\ pushes'[p] = pushes[p] + 1
    BY <1>5, PushExtendsLine DEF PushNode, StartPush, TypeOK
  <2>2. m \in Messages
    BY <1>5, PushExtendsLine
  <2> HIDE DEF m
  <2>3. /\ Len(Line') = Len(Line) + 1 /\ Len(Line) \in Nat
        /\ \A i \in 1..Len(Line) : Line'[i] = Line[i]
        /\ Line'[Len(Line) + 1] = m
    BY <2>1, <2>2, LineTyped, AppendProperties
  <2>4. \A i \in 1..Len(Line') : i \in 1..Len(Line) \/ i = Len(Line) + 1
    BY <2>3
  <2>5. ASSUME NEW i \in 1..Len(Line'), NEW j \in 1..Len(Line'), i < j,
               Line'[i][1] = Line'[j][1]
        PROVE  Line'[i][2] < Line'[j][2]
    <3>1. i \in 1..Len(Line)
      BY <2>3, <2>5
    <3>2. CASE j \in 1..Len(Line)
      BY <1>1, <2>3, <2>5, <3>1, <3>2
    <3>3. CASE j = Len(Line) + 1
      BY <1>2, <1>3, <2>1, <2>3, <2>5, <3>1, <3>3
    <3> QED BY <2>4, <3>2, <3>3
  <2>6. PerProducerOrder'
    BY <2>5 DEF PerProducerOrder, Line
  <2>7. ASSUME NEW i \in 1..Len(Line') PROVE Line'[i][2] <= pushes'[Line'[i][1]]
    <3>1. CASE i \in 1..Len(Line)
      BY <1>2, <1>3, <2>3, <3>1
    <3>2. CASE i = Len(Line) + 1
      BY <1>3, <2>1, <2>3, <3>2
    <3> QED BY <2>4, <3>1, <3>2
  <2> QED BY <2>6, <2>7 DEF NumbersPushed
<1> QED BY <1>4, <1>5

\* What the consumer gets keeps, for each producer, the order of its pushes, and
\* nothing comes twice (message_queue.h:88-117).
THEOREM OrderCorrect == Spec => []PerProducerOrder
<1>1. Init => PerProducerOrder /\ NumbersPushed
  <2> SUFFICES ASSUME Init PROVE PerProducerOrder /\ NumbersPushed
    OBVIOUS
  <2>1. Line = <<>> /\ Len(Line) = 0
    BY ConcatEmptySeq, EmptySeq DEF Init, Line
  <2> QED BY <2>1 DEF PerProducerOrder, NumbersPushed, Line
<1> QED BY <1>1, StepKeepsOrder, TypeCorrect, PTL DEF Spec

-----------------------------------------------------------------------------
(* The count of the calls *)

LEMMA CallsFinite == IsFiniteSet(Calls) /\ Cardinality(Calls) \in Nat
<1>1. IsFiniteSet(1..MaxPushes)
  BY FS_Interval DEF LockFreeAssumption
<1>2. IsFiniteSet(Messages)
  BY <1>1, FS_Product DEF Messages, LockFreeAssumption
<1>3. Calls \in SUBSET Messages
  BY DEF Calls
<1> QED BY <1>2, <1>3, FS_Subset, FS_CardinalityType

LEMMA StartPushAddsACall ==
  ASSUME TypeOK, NEW p \in Producers, NEW outcome, StartPush(p, outcome)
  PROVE  Cardinality(Calls') = Cardinality(Calls) + 1
<1> DEFINE m == <<p, pushes[p] + 1>>
<1>1. \A r \in Producers : pushes[r] \in Nat
  BY DEF TypeOK
<1>2. /\ \A r \in Producers : pushes'[r] = IF r = p THEN pushes[p] + 1 ELSE pushes[r]
      /\ pushes[p] + 1 \in 1..MaxPushes
  BY <1>1 DEF StartPush, TypeOK, LockFreeAssumption
<1>3. m \in Messages /\ m \notin Calls
  BY <1>1, <1>2 DEF Messages, Calls
<1>4. Calls' = Calls \cup {m}
  <2>1. ASSUME NEW x \in Messages
        PROVE  x[2] <= pushes'[x[1]] <=> x[2] <= pushes[x[1]] \/ x = m
    <3>1. PICK r \in Producers, k \in 1..MaxPushes : x = <<r, k>>
      BY DEF Messages
    <3>2. x[1] = r /\ x[2] = k /\ k \in Int /\ (x = m <=> r = p /\ k = pushes[p] + 1)
      BY <3>1
    <3>3. CASE r = p
      BY <1>1, <1>2, <3>2, <3>3
    <3>4. CASE r # p
      BY <1>2, <3>2, <3>4
    <3> QED BY <3>3, <3>4
  <2> QED BY <1>3, <2>1 DEF Calls, Messages
<1> HIDE DEF m
<1> QED BY <1>3, <1>4, CallsFinite, FS_AddElement

\* No push() is lost without trace, for any number of producers and pushes
\* (message_queue.h:88-95, 119).
THEOREM AccountingCorrect == Spec => []EveryPushAccountedFor
<1>1. Init => EveryPushAccountedFor
  <2> SUFFICES ASSUME Init PROVE EveryPushAccountedFor
    OBVIOUS
  <2>1. Calls = {}
    BY DEF Init, Calls, Messages
  <2>2. Refusing = {}
    BY DEF Init, Refusing
  <2> QED BY <2>1, <2>2, FS_EmptySet, EmptySeq DEF Init, EveryPushAccountedFor
<1>2. TypeOK /\ EveryPushAccountedFor /\ [Next]_vars => EveryPushAccountedFor'
  <2> SUFFICES ASSUME TypeOK, EveryPushAccountedFor, [Next]_vars
               PROVE  EveryPushAccountedFor'
    OBVIOUS
  <2>1. /\ Len(received) \in Int /\ Len(queue) \in Int /\ dropped_ \in Int
        /\ Cardinality(Refusing) \in Int /\ Cardinality(Calls) \in Int
        /\ Cardinality(Calls) = Len(received) + Len(queue) + dropped_ + Cardinality(Refusing)
    BY LenProperties, InFlightFinite, CallsFinite DEF TypeOK, EveryPushAccountedFor
  <2>2. ASSUME NEW p \in Producers, PushNode(p) PROVE EveryPushAccountedFor'
    <3>1. Cardinality(Calls') = Cardinality(Calls) + 1
      BY <2>2, StartPushAddsACall DEF PushNode
    <3>2. Cardinality(Refusing') = Cardinality(Refusing)
      BY <2>2, StartPushCounts, <2>1 DEF PushNode
    <3>3. Len(queue') = Len(queue) + 1
      <4>1. queue \in Seq(Messages) /\ <<p, pushes[p] + 1>> \in Messages
        BY <2>2, PushExtendsLine DEF TypeOK
      <4> QED BY <2>2, <4>1, AppendProperties DEF PushNode
    <3>4. received' = received /\ dropped_' = dropped_
      BY <2>2 DEF PushNode, consumerVars
    <3> QED BY <2>1, <3>1, <3>2, <3>3, <3>4 DEF EveryPushAccountedFor
  <2>3. ASSUME NEW p \in Producers, RefuseNode(p) PROVE EveryPushAccountedFor'
    <3>1. Cardinality(Calls') = Cardinality(Calls) + 1
      BY <2>3, StartPushAddsACall DEF RefuseNode
    <3>2. Cardinality(Refusing') = Cardinality(Refusing) + 1
      BY <2>3, StartPushCounts DEF RefuseNode
    <3>3. queue' = queue /\ received' = received /\ dropped_' = dropped_
      BY <2>3 DEF RefuseNode, consumerVars
    <3> QED BY <2>1, <3>1, <3>2, <3>3 DEF EveryPushAccountedFor
  <2>4. ASSUME NEW p \in Producers, CountPush(p) \/ CountDrop(p)
        PROVE  EveryPushAccountedFor'
    <3>1. Calls' = Calls /\ queue' = queue /\ received' = received
      BY <2>4 DEF CountPush, CountDrop, Calls, consumerVars
    <3>2. dropped_' + Cardinality(Refusing') = dropped_ + Cardinality(Refusing)
      BY <2>4, <2>1, CountPushCounts, CountDropCounts DEF CountPush, CountDrop
    <3>3. dropped_' \in Int /\ Cardinality(Refusing') \in Int
      BY <2>4, <2>1, CountPushCounts, CountDropCounts DEF CountPush, CountDrop
    <3> QED BY <2>1, <3>1, <3>2, <3>3 DEF EveryPushAccountedFor
  <2>5. CASE \/ \E max_count \in 1..BulkMax : StartPop(max_count)
             \/ EndPopLoop \/ CountPop \/ UNCHANGED vars
    <3>1. /\ queue' = queue /\ received' = received /\ dropped_' = dropped_
          /\ Calls' = Calls /\ Refusing' = Refusing
      BY <2>5 DEF StartPop, EndPopLoop, CountPop, vars, producerVars, Calls, Refusing
    <3> QED BY <3>1 DEF EveryPushAccountedFor
  <2>6. CASE PopNode
    <3>1. /\ Len(queue') = Len(queue) - 1 /\ Len(received') = Len(received) + 1
          /\ dropped_' = dropped_ /\ Calls' = Calls /\ Refusing' = Refusing
      <4>1. Head(queue) \in Messages /\ Len(Tail(queue)) = Len(queue) - 1
        BY <2>6, HeadTailProperties DEF PopNode, TypeOK
      <4>2. Len(Append(received, Head(queue))) = Len(received) + 1
        BY <4>1, AppendProperties DEF TypeOK
      <4>3. Calls' = Calls /\ Refusing' = Refusing
        BY <2>6 DEF PopNode, producerVars, Calls, Refusing
      <4> QED BY <2>6, <4>1, <4>2, <4>3 DEF PopNode, producerVars
    <3> QED BY <2>1, <3>1 DEF EveryPushAccountedFor
  <2> QED BY <2>2, <2>3, <2>4, <2>5, <2>6 DEF Next
<1> QED BY <1>1, <1>2, TypeCorrect, PTL DEF Spec

-----------------------------------------------------------------------------
(* LockFreeQueue implements MessageQueue *)

LEMMA InitRefines == Init => MQ!Init
<1> SUFFICES ASSUME Init PROVE MQ!Init
  OBVIOUS
<1>1. Refusing = {}
  BY DEF Init, Refusing
<1> QED BY <1>1, FS_EmptySet DEF Init, MQ!Init

\* PushNode is Push, RefuseNode is Refuse (before dropped_ shows it), PopNode is
\* PopBulk(1), and the steps on the counters are invisible.
LEMMA NextRefines == IInv /\ [Next]_vars => [MQ!Next]_MQ!vars
<1> SUFFICES ASSUME IInv, [Next]_vars PROVE [MQ!Next]_MQ!vars
  OBVIOUS
<1> USE DEF IInv, TypeOK, consumerVars, producerVars
<1>1. ASSUME NEW p \in Producers, PushNode(p)
      PROVE  MQ!Push(<<p, pushes[p] + 1>>) /\ <<p, pushes[p] + 1>> \in Messages
  <2>1. Cardinality(Refusing') = Cardinality(Refusing)
    BY <1>1, StartPushCounts, InFlightFinite DEF PushNode
  <2>2. <<p, pushes[p] + 1>> \in Messages
    BY <1>1 DEF PushNode, StartPush, Messages, LockFreeAssumption
  <2> QED BY <1>1, <2>1, <2>2 DEF PushNode, MQ!Push, MayAccept, MQ!MayAccept
<1>2. ASSUME NEW p \in Producers, RefuseNode(p)
      PROVE  MQ!Refuse
  <2>1. Cardinality(Refusing') = Cardinality(Refusing) + 1
    BY <1>2, StartPushCounts DEF RefuseNode
  <2> QED BY <1>2, <2>1, InFlightFinite DEF RefuseNode, MQ!Refuse, MayRefuse, MQ!MayRefuse
<1>3. ASSUME NEW p \in Producers, CountPush(p) \/ CountDrop(p)
      PROVE  UNCHANGED MQ!vars
  <2>1. dropped_' + Cardinality(Refusing') = dropped_ + Cardinality(Refusing)
    BY <1>3, CountPushCounts, CountDropCounts, InFlightFinite DEF CountPush, CountDrop
  <2> QED BY <1>3, <2>1 DEF CountPush, CountDrop, MQ!vars
<1>4. ASSUME PopNode
      PROVE  MQ!PopBulk(1)
  <2>1. Refusing' = Refusing /\ dropped_' = dropped_
    BY <1>4, SameProducerSameCounts DEF PopNode
  <2>2. BulkOf(queue, 1) = <<Head(queue)>> /\ BulkRest(queue, 1) = Tail(queue)
    BY <1>4, PopIsBulkOfOne DEF PopNode
  <2>3. Head(queue) \in Messages
    BY <1>4, HeadTailProperties DEF PopNode
  <2>4. received' = received \o BulkOf(queue, 1)
    BY <1>4, <2>2, <2>3, AppendIsConcat DEF PopNode
  <2> QED BY <1>4, <2>1, <2>2, <2>4 DEF PopNode, MQ!PopBulk, BulkOf, BulkRest,
              BulkSize, MQ!BulkOf, MQ!BulkRest, MQ!BulkSize
<1>5. ASSUME \/ \E max_count \in 1..BulkMax : StartPop(max_count)
             \/ EndPopLoop \/ CountPop \/ UNCHANGED vars
      PROVE  UNCHANGED MQ!vars
  <2>1. producer' = producer
    BY <1>5 DEF StartPop, EndPopLoop, CountPop, vars
  <2>2. Refusing' = Refusing
    BY <2>1, SameProducerSameCounts
  <2>3. queue' = queue /\ received' = received /\ dropped_' = dropped_
    BY <1>5 DEF StartPop, EndPopLoop, CountPop, vars
  <2> QED BY <2>2, <2>3 DEF MQ!vars
<1>6. 1 \in 1..BulkMax
  BY DEF LockFreeAssumption
<1> QED BY <1>1, <1>2, <1>3, <1>4, <1>5, <1>6 DEF Next, MQ!Next

\* The lock-free queue keeps the promise of MessageQueue: FIFO, every message once,
\* refusals only when full and all counted (message_queue.h:77-126).
THEOREM Refinement == Spec => ImplementsMessageQueue
BY InitRefines, NextRefines, Invariance, PTL DEF Spec, ImplementsMessageQueue, MQ!Spec
=============================================================================
