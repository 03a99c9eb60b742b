---------------------------- MODULE MessageQueue ----------------------------
(***************************************************************************)
(* The promise of MessageQueue<T>: a FIFO queue whose push either appends  *)
(* the message or, only when the queue is full, refuses and counts it, and *)
(* whose pop and pop_bulk hand messages over in the order of the pushes,   *)
(* each once.  The mutex fallback of message_queue.h implements every      *)
(* action in one critical section; LockFreeQueue is shown to implement     *)
(* this module too.                                                        *)
(***************************************************************************)
EXTENDS QueueOps

CONSTANTS Messages,   \* what is sent
          Capacity,   \* the constructor's argument
          BulkMax     \* the largest max_count a caller of pop_bulk passes

VARIABLES queue,      \* accepted and not yet handed over, oldest first
          dropped,    \* dropped_
          received    \* history: everything handed to the consumer

vars == <<queue, dropped, received>>

Init == queue = <<>> /\ dropped = 0 /\ received = <<>>

Push(msg) ==
  /\ MayAccept(queue, Capacity)
  /\ queue' = Append(queue, msg)
  /\ UNCHANGED <<dropped, received>>

Refuse ==
  /\ MayRefuse(queue, Capacity)
  /\ dropped' = dropped + 1
  /\ UNCHANGED <<queue, received>>

\* pop() is the case max_count = 1.
PopBulk(max_count) ==
  /\ queue # <<>>
  /\ received' = received \o BulkOf(queue, max_count)
  /\ queue' = BulkRest(queue, max_count)
  /\ UNCHANGED dropped

Next ==
  \/ \E msg \in Messages : Push(msg)
  \/ Refuse
  \/ \E max_count \in 1..BulkMax : PopBulk(max_count)

Spec == Init /\ [][Next]_vars
=============================================================================
