------------------------------ MODULE BulkOps ------------------------------
(***************************************************************************)
(* Taking several entries at once from the head of a queue: pop_bulk of    *)
(* message_queue.h, and the batches of the asynchronous ClickHouse writer. *)
(***************************************************************************)
EXTENDS Integers, Sequences

\* How many entries are taken when at most max_count are wanted, which they
\* are, and what is left behind.
BulkSize(q, max_count) == IF Len(q) < max_count THEN Len(q) ELSE max_count
BulkOf(q, max_count) == SubSeq(q, 1, BulkSize(q, max_count))
BulkRest(q, max_count) == SubSeq(q, BulkSize(q, max_count) + 1, Len(q))
=============================================================================
