---------------------------- MODULE LockFreeQueue ----------------------------
(***************************************************************************)
(* The lock-free build of MessageQueue<T>: a boost::lockfree::queue beside *)
(* two relaxed atomic counters.  An operation touches the queue first and  *)
(* a counter afterwards, in two steps, so a reader of approx_size() (the   *)
(* metrics tick of main.cpp) sees the counter lag behind the queue, and a  *)
(* consumer may subtract a message that its producer has not added yet:    *)
(* the unsigned counter then wraps.                                        *)
(*                                                                         *)
(* Any number of producers, and one consumer: every queue of main.cpp is   *)
(* drained by one thread only.                                             *)
(***************************************************************************)
EXTENDS QueueOps, FiniteSets

CONSTANTS Producers,   \* the threads that push
          Capacity,    \* nodes preallocated by the constructor
          BulkMax,     \* the largest max_count of pop_bulk
          MaxPushes,   \* bound: pushes per producer
          SizeBits     \* width of size_ (64 in the program)

ASSUME LockFreeAssumption ==
  /\ IsFiniteSet(Producers)
  /\ Capacity \in Nat
  /\ BulkMax \in Nat \ {0}
  /\ MaxPushes \in Nat
  /\ SizeBits \in Nat

VARIABLES queue,      \* queue_: the container of boost
          dropped_,
          size_,      \* as an integer: approx_size() reads it modulo 2^SizeBits
          producer,   \* [Producers -> "idle" | "pushed" | "refused"]
          pushes,     \* calls of push() begun by each producer
          consumer,   \* "idle" | "popping" | "popped"
          limit,      \* max_count of the running pop (1 for pop())
          count,      \* messages it has taken and not yet subtracted
          received    \* history: everything handed to the consumer

vars == <<queue, dropped_, size_, producer, pushes, consumer, limit, count, received>>
producerVars == <<dropped_, producer, pushes>>
consumerVars == <<consumer, limit, count, received>>

Messages == Producers \X (1..MaxPushes)

Init ==
  /\ queue = <<>>
  /\ dropped_ = 0
  /\ size_ = 0
  /\ producer = [p \in Producers |-> "idle"]
  /\ pushes = [p \in Producers |-> 0]
  /\ consumer = "idle"
  /\ limit = 1
  /\ count = 0
  /\ received = <<>>

-----------------------------------------------------------------------------
(* push() *)

StartPush(p, outcome) ==
  /\ producer[p] = "idle"
  /\ pushes[p] < MaxPushes
  /\ pushes' = [pushes EXCEPT ![p] = @ + 1]
  /\ producer' = [producer EXCEPT ![p] = outcome]

\* queue_.push(msg) succeeds; size_ does not know yet.
PushNode(p) ==
  /\ StartPush(p, "pushed")
  /\ MayAccept(queue, Capacity)
  /\ queue' = Append(queue, <<p, pushes[p] + 1>>)
  /\ UNCHANGED <<dropped_, size_, consumerVars>>

CountPush(p) ==
  /\ producer[p] = "pushed"
  /\ producer' = [producer EXCEPT ![p] = "idle"]
  /\ size_' = size_ + 1
  /\ UNCHANGED <<queue, dropped_, pushes, consumerVars>>

\* queue_.push(msg) fails; dropped_ does not know yet.
RefuseNode(p) ==
  /\ StartPush(p, "refused")
  /\ MayRefuse(queue, Capacity)
  /\ UNCHANGED <<queue, dropped_, size_, consumerVars>>

CountDrop_Silent(p) ==   \* faulty: the refusal is not counted
  /\ producer[p] = "refused"
  /\ producer' = [producer EXCEPT ![p] = "idle"]
  /\ UNCHANGED <<queue, size_, dropped_, pushes, consumerVars>>

CountDrop(p) ==
  /\ producer[p] = "refused"
  /\ producer' = [producer EXCEPT ![p] = "idle"]
  /\ dropped_' = dropped_ + 1
  /\ UNCHANGED <<queue, size_, pushes, consumerVars>>

-----------------------------------------------------------------------------
(* pop() and pop_bulk(): one queue_.pop per message, one fetch_sub at the end *)

StartPop(max_count) ==
  /\ consumer = "idle"
  /\ consumer' = "popping"
  /\ limit' = max_count
  /\ UNCHANGED <<queue, size_, count, received, producerVars>>

PopNode_Peek ==      \* faulty: hands the message over and leaves it queued
  /\ consumer = "popping" /\ count < limit /\ queue # <<>>
  /\ received' = Append(received, Head(queue))
  /\ count' = count + 1
  /\ UNCHANGED <<queue, size_, consumer, limit, producerVars>>

PopNode_Newest ==    \* faulty: a stack
  /\ consumer = "popping" /\ count < limit /\ queue # <<>>
  /\ received' = Append(received, queue[Len(queue)])
  /\ queue' = SubSeq(queue, 1, Len(queue) - 1)
  /\ count' = count + 1
  /\ UNCHANGED <<size_, consumer, limit, producerVars>>

PopNode ==
  /\ consumer = "popping"
  /\ count < limit
  /\ queue # <<>>
  /\ received' = Append(received, Head(queue))
  /\ queue' = Tail(queue)
  /\ count' = count + 1
  /\ UNCHANGED <<size_, consumer, limit, producerVars>>

\* The limit is reached or queue_.pop finds nothing: the loop ends.
EndPopLoop ==
  /\ consumer = "popping"
  /\ count = limit \/ queue = <<>>
  /\ consumer' = "popped"
  /\ UNCHANGED <<queue, size_, limit, count, received, producerVars>>

CountPop_Limit ==    \* faulty: subtracts max_count, not what was taken
  /\ consumer = "popped" /\ consumer' = "idle"
  /\ size_' = size_ - limit
  /\ count' = 0
  /\ UNCHANGED <<queue, limit, received, producerVars>>

CountPop_One ==      \* faulty: a bulk counts as one message
  /\ consumer = "popped" /\ consumer' = "idle"
  /\ size_' = size_ - (IF count > 0 THEN 1 ELSE 0)
  /\ count' = 0
  /\ UNCHANGED <<queue, limit, received, producerVars>>

CountPop ==
  /\ consumer = "popped"
  /\ consumer' = "idle"
  /\ size_' = size_ - count
  /\ count' = 0
  /\ UNCHANGED <<queue, limit, received, producerVars>>

Next ==
  \/ \E p \in Producers : PushNode(p) \/ CountPush(p) \/ RefuseNode(p) \/ CountDrop(p)
  \/ \E max_count \in 1..BulkMax : StartPop(max_count)
  \/ PopNode \/ EndPopLoop \/ CountPop

\* Each thread keeps running: a producer finishes the push it began, and the
\* workers poll their queues again and again.
Fairness ==
  /\ \A p \in Producers : WF_vars(CountPush(p)) /\ WF_vars(CountDrop(p))
  /\ WF_vars(StartPop(BulkMax))
  /\ WF_vars(PopNode)
  /\ WF_vars(EndPopLoop)
  /\ WF_vars(CountPop)

Spec == Init /\ [][Next]_vars /\ Fairness

-----------------------------------------------------------------------------
(* What other threads read *)

\* approx_size(): an unsigned SizeBits-bit integer.
approx_size == size_ % 2^SizeBits

Pushing == {p \in Producers : producer[p] = "pushed"}
Refusing == {p \in Producers : producer[p] = "refused"}

\* The calls of push() begun so far, each named by the message it was given.
Calls == {m \in Messages : m[2] <= pushes[m[1]]}

-----------------------------------------------------------------------------
(* Properties *)

TypeOK ==
  /\ queue \in Seq(Messages)
  /\ dropped_ \in Nat
  /\ size_ \in Int
  /\ producer \in [Producers -> {"idle", "pushed", "refused"}]
  /\ pushes \in [Producers -> 0..MaxPushes]
  /\ consumer \in {"idle", "popping", "popped"}
  /\ limit \in 1..BulkMax
  /\ count \in 0..limit
  /\ received \in Seq(Messages)

\* size_ is the length of the queue, but for the operations that touched the
\* queue and have not reached their counter: it lacks the messages being pushed
\* and still holds those being popped (message_queue.h:88-117).
SizeTracksQueue == size_ = Len(queue) + count - Cardinality(Pushing)

\* Only a consumer that overtakes a producer makes approx_size() absurd: a
\* reading above everything in flight means that a push is unfinished whose
\* message, and all those before it, are gone (message_queue.h:88-100, read by
\* main.cpp:196-197).
WrapsOnlyBehindAPush ==
  approx_size > Len(queue) + BulkMax =>
    \E p \in Pushing : \A i \in 1..Len(queue) : queue[i] # <<p, pushes[p]>> 

\* Each message accepted is handed over once and in the order of its producer:
\* what the consumer received, followed by what is queued, never repeats or
\* reorders the pushes of a producer (message_queue.h:88-117).
PerProducerOrder ==
  LET all == received \o queue IN
  \A i, j \in 1..Len(all) : i < j /\ all[i][1] = all[j][1] => all[i][2] < all[j][2]

\* No push() is lost without trace: every call ends as a message handed over, a
\* message queued, or a refusal that is counted or about to be
\* (message_queue.h:88-95, 119).
EveryPushAccountedFor ==
  Cardinality(Calls) =
    Len(received) + Len(queue) + dropped_ + Cardinality(Refusing)

\* The queue behind the two counters is a MessageQueue (message_queue.h:77-126):
\* a refusal happens when queue_.push fails, before dropped_ shows it.
MQ == INSTANCE MessageQueue WITH dropped <- dropped_ + Cardinality(Refusing)
ImplementsMessageQueue == MQ!Spec

\* The counters keep no error: once the producers pause (the bound MaxPushes makes
\* them), the consumer empties the queue and the gauge shows exactly that, for good
\* (message_queue.h:88-117).
GaugeSettles == <>[](queue = <<>> /\ approx_size = 0)
=============================================================================
