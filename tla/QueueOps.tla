------------------------------ MODULE QueueOps ------------------------------
(***************************************************************************)
(* What a user of MessageQueue<T> may assume of one push and one pop,      *)
(* whichever of the two implementations of message_queue.h is built.       *)
(*                                                                         *)
(* The fallback (a mutex around a std::queue) refuses a message exactly    *)
(* when it holds Capacity messages.  The lock-free build hands the message *)
(* to boost::lockfree::queue, which preallocates Capacity nodes and asks   *)
(* the allocator for another when they are all taken: it may still accept  *)
(* a message there (Growable) and refuses only if that allocation fails.   *)
(***************************************************************************)
EXTENDS BulkOps

CONSTANT Growable   \* TRUE: the lock-free build, FALSE: the mutex fallback

ASSUME GrowableAssumption == Growable \in BOOLEAN

\* push() appends the message ...
MayAccept(q, capacity) == Growable \/ Len(q) < capacity

\* ... or refuses it, and then counts it in dropped_.
MayRefuse(q, capacity) == Len(q) >= capacity
=============================================================================
