----------------------------- MODULE AsyncWriter -----------------------------
(***************************************************************************)
(* The two clients that write in the background: ClickHouseClient, which   *)
(* inserts readings and alerts in batches, and MQTTClient, which publishes *)
(* one message at a time and has a second thread that reconnects.  Both    *)
(* are a monitor: callers push under queue_mutex_ and notify queue_cv_,    *)
(* the writer waits on it, and the stop call clears running_, notifies and *)
(* joins.  They differ in when the writer leaves, and in the second thread.*)
(*                                                                         *)
(* The stop call does not hold queue_mutex_, so it may come between the    *)
(* test of the predicate and the moment the writer sleeps ("block").       *)
(* One thread, the owner, calls start, stop, connect and disconnect; any   *)
(* number of callers insert.  Entries of a queue are numbered as accepted. *)
(***************************************************************************)
EXTENDS BulkOps

CONSTANTS Callers,
          Limit,        \* [Queues -> Nat \ {0}]: entries per batch
          MaxEntries,   \* bound: entries each queue accepts, [Queues -> Nat]
          MaxInsert,    \* bound: readings in one insert_sensor_data_batch
          MaxStarts     \* bound: calls of start

Queues == {"data", "alert", "message"}

ASSUME WriterAssumption ==
  /\ Limit \in [Queues -> Nat \ {0}]
  /\ MaxEntries \in [Queues -> Nat] /\ MaxInsert \in Nat /\ MaxStarts \in Nat

VARIABLES
  client,             \* which of the two it is; never changes
  connected, running, \* connected_, running_
  should_reconnect,
  queue,              \* data_queue_, alert_queue_, publish_queue_
  accepted,           \* entries accepted so far: the number of the last one
  batch,              \* what the writer took and has not written
  written,            \* history: what it wrote
  caller,             \* where each caller is
  owner, writer, reconnector,
  starts,
  missed              \* history: the stop call notified a writer about to sleep

sharedVars == <<connected, running, should_reconnect>>
entryVars == <<queue, accepted, batch, written>>
threadVars == <<caller, owner, writer, reconnector>>
historyVars == <<starts, missed>>
vars == <<client, sharedVars, entryVars, threadVars, historyVars>>

QueuesOf(c) == IF c = "clickhouse" THEN {"data", "alert"} ELSE {"message"}

\* Sensor data of a batch is written before its alerts.
WrittenBefore(k) == IF k = "alert" THEN {"data"} ELSE {}

Init ==
  /\ client \in {"clickhouse", "mqtt"}
  /\ connected = FALSE /\ running = FALSE /\ should_reconnect = TRUE
  /\ accepted = [k \in Queues |-> 0]
  /\ queue = [k \in Queues |-> <<>>] /\ batch = queue /\ written = queue
  /\ caller = [c \in Callers |-> "idle"]
  /\ owner = "idle" /\ writer = "none" /\ reconnector = "none"
  /\ starts = 0 /\ missed = FALSE

-----------------------------------------------------------------------------
(* The callers: insert_sensor_data, insert_sensor_data_batch, insert_alert,  *)
(* publish                                                                   *)

\* connected_ is read without the mutex, and not again; if it is false the call
\* returns false and nothing happens.
BeginInsert(c) ==
  /\ caller[c] = "idle"
  /\ connected
  /\ caller' = [caller EXCEPT ![c] = "push"]
  /\ UNCHANGED <<client, sharedVars, entryVars, owner, writer, reconnector, historyVars>>

\* The call that appends n entries to queue k; only readings come in batches.
InsertSizes(k) == IF k = "data" THEN 0..MaxInsert ELSE {1}

NumbersFrom(a, n) == [i \in 1..n |-> a + i]

\* Under the mutex, which the writer holds while it is about to sleep.
Push(c, k, n) ==
  /\ caller[c] = "push"
  /\ writer # "block"
  /\ accepted[k] + n <= MaxEntries[k]
  /\ queue' = [queue EXCEPT ![k] = @ \o NumbersFrom(accepted[k], n)]
  /\ accepted' = [accepted EXCEPT ![k] = @ + n]
  /\ caller' = [caller EXCEPT ![c] = "notify"]
  /\ UNCHANGED <<client, sharedVars, batch, written, owner, writer, reconnector, historyVars>>

\* A notification wakes the writer if it sleeps, and is forgotten otherwise.
Woken == IF writer = "asleep" THEN "check" ELSE writer

NotifyOne_Early(c) ==   \* faulty: notifies only when entries wait already
  /\ caller[c] = "notify"
  /\ writer' = IF \E k \in QueuesOf(client) : Len(queue[k]) > 1 THEN Woken ELSE writer
  /\ caller' = [caller EXCEPT ![c] = "idle"]
  /\ UNCHANGED <<client, sharedVars, entryVars, owner, reconnector, historyVars>>

NotifyOne(c) ==
  /\ caller[c] = "notify"
  /\ writer' = Woken
  /\ caller' = [caller EXCEPT ![c] = "idle"]
  /\ UNCHANGED <<client, sharedVars, entryVars, owner, reconnector, historyVars>>

-----------------------------------------------------------------------------
(* The writer: async_worker, worker_thread *)

TestRunning ==
  /\ writer = "test"
  /\ writer' = IF running THEN "check" ELSE "exited"
  /\ UNCHANGED <<client, sharedVars, entryVars, caller, owner, reconnector, historyVars>>

NothingQueued == \A k \in QueuesOf(client) : queue[k] = <<>>

\* The predicate is false: the writer, holding the mutex, is about to sleep.
DecideToWait ==
  /\ writer = "check"
  /\ NothingQueued /\ running
  /\ writer' = "block"
  /\ UNCHANGED <<client, sharedVars, entryVars, caller, owner, reconnector, historyVars>>

\* It sleeps and releases the mutex at once.
Sleep ==
  /\ writer = "block"
  /\ writer' = "asleep"
  /\ UNCHANGED <<client, sharedVars, entryVars, caller, owner, reconnector, historyVars>>

\* A condition variable may return without a notification.
SpuriousWake ==
  /\ writer = "asleep"
  /\ writer' = "check"
  /\ UNCHANGED <<client, sharedVars, entryVars, caller, owner, reconnector, historyVars>>

\* Once told to stop, MQTTClient leaves whatever is queued, ClickHouseClient
\* only when it finds both queues empty.
Leaves == ~ running /\ (client = "mqtt" \/ NothingQueued)

Leave ==
  /\ writer = "check"
  /\ Leaves
  /\ writer' = "exited"
  /\ UNCHANGED <<client, sharedVars, entryVars, caller, owner, reconnector, historyVars>>

TakeBatch_Newest ==   \* faulty: takes the newest entries
  /\ writer = "check" /\ ~ NothingQueued /\ ~ Leaves
  /\ LET rest(k) == Len(queue[k]) - BulkSize(queue[k], Limit[k]) IN
     /\ batch' = [k \in Queues |-> SubSeq(queue[k], rest(k) + 1, Len(queue[k]))]
     /\ queue' = [k \in Queues |-> SubSeq(queue[k], 1, rest(k))]
  /\ writer' = "write"
  /\ UNCHANGED <<client, sharedVars, accepted, written, caller, owner, reconnector, historyVars>>

\* The queues of the other client are empty.
TakeBatch ==
  /\ writer = "check"
  /\ ~ NothingQueued
  /\ ~ Leaves
  /\ batch' = [k \in Queues |-> BulkOf(queue[k], Limit[k])]
  /\ queue' = [k \in Queues |-> BulkRest(queue[k], Limit[k])]
  /\ writer' = "write"
  /\ UNCHANGED <<client, sharedVars, accepted, written, caller, owner, reconnector, historyVars>>

Write(k) ==
  /\ writer = "write"
  /\ batch[k] # <<>>
  /\ \A j \in WrittenBefore(k) : batch[j] = <<>>
  /\ written' = [written EXCEPT ![k] = Append(@, Head(batch[k]))]
  /\ batch' = [batch EXCEPT ![k] = Tail(@)]
  /\ UNCHANGED <<client, sharedVars, queue, accepted, threadVars, historyVars>>

EndBatch ==
  /\ writer = "write"
  /\ \A k \in Queues : batch[k] = <<>>
  /\ writer' = "test"
  /\ UNCHANGED <<client, sharedVars, entryVars, caller, owner, reconnector, historyVars>>

WriterStep ==
  \/ TestRunning \/ DecideToWait \/ Sleep \/ Leave \/ TakeBatch \/ EndBatch
  \/ \E k \in Queues : Write(k)

-----------------------------------------------------------------------------
(* The second thread of MQTTClient *)

ReconnectorTest ==
  /\ reconnector = "test"
  /\ reconnector' = IF running THEN "look" ELSE "exited"
  /\ UNCHANGED <<client, sharedVars, entryVars, caller, owner, writer, historyVars>>

\* connected_ and should_reconnect are read here; connect() comes 5 s later.
ReconnectorLook ==
  /\ reconnector = "look"
  /\ reconnector' = IF ~ connected /\ should_reconnect THEN "wait" ELSE "pause"
  /\ UNCHANGED <<client, sharedVars, entryVars, caller, owner, writer, historyVars>>

Reconnect ==
  /\ reconnector = "wait"
  /\ connected' = TRUE
  /\ reconnector' = "pause"
  /\ UNCHANGED <<client, running, should_reconnect, entryVars, caller, owner, writer, historyVars>>

ReconnectorPause ==
  /\ reconnector = "pause"
  /\ reconnector' = "test"
  /\ UNCHANGED <<client, sharedVars, entryVars, caller, owner, writer, historyVars>>

ReconnectorStep == ReconnectorTest \/ ReconnectorLook \/ Reconnect \/ ReconnectorPause

-----------------------------------------------------------------------------
(* The owner.  "stopped" is "idle" right after a stop call has returned.     *)

OwnerFree == owner \in {"idle", "stopped"}

Connect ==
  /\ OwnerFree
  /\ connected' = TRUE
  /\ owner' = "idle"
  /\ UNCHANGED <<client, running, should_reconnect, entryVars, caller, writer, reconnector, historyVars>>

Disconnect ==
  /\ OwnerFree
  /\ connected' = FALSE
  /\ UNCHANGED <<client, running, should_reconnect, entryVars, threadVars, historyVars>>

\* start_async_writer, start.  Assigning to a std::thread that is not joined ends
\* the process, so the owner stops before it starts again.
Start ==
  /\ OwnerFree
  /\ starts < MaxStarts
  /\ writer = "none" /\ reconnector = "none"
  /\ running' = TRUE
  /\ writer' = "test"
  /\ reconnector' = IF client = "mqtt" THEN "test" ELSE "none"
  /\ owner' = "idle"
  /\ starts' = starts + 1
  /\ UNCHANGED <<client, connected, should_reconnect, entryVars, caller, missed>>

\* stop_async_writer and stop begin alike; the destructors call them too.
Stop ==
  /\ OwnerFree
  /\ running' = FALSE
  /\ owner' = IF client = "mqtt" THEN "forbid" ELSE "notify"
  /\ UNCHANGED <<client, connected, should_reconnect, entryVars, caller, writer, reconnector, historyVars>>

ForbidReconnect ==
  /\ owner = "forbid"
  /\ should_reconnect' = FALSE
  /\ owner' = "notify"
  /\ UNCHANGED <<client, connected, running, entryVars, caller, writer, reconnector, historyVars>>

NotifyAll_None ==   \* faulty: the flag is cleared and nobody told
  /\ owner = "notify"
  /\ missed' = (writer = "block")
  /\ owner' = "join"
  /\ UNCHANGED <<client, sharedVars, entryVars, caller, writer, reconnector, starts>>

NotifyAll ==
  /\ owner = "notify"
  /\ writer' = Woken
  /\ missed' = (writer = "block")
  /\ owner' = "join"
  /\ UNCHANGED <<client, sharedVars, entryVars, caller, reconnector, starts>>

JoinWriter ==
  /\ owner = "join"
  /\ writer \in {"none", "exited"}
  /\ writer' = "none"
  /\ owner' = IF client = "mqtt" THEN "join reconnector" ELSE "stopped"
  /\ missed' = FALSE
  /\ UNCHANGED <<client, sharedVars, entryVars, caller, reconnector, starts>>

JoinReconnector_Detached ==   \* faulty: disconnects without waiting for the thread
  /\ owner = "join reconnector"
  /\ connected' = FALSE
  /\ owner' = "stopped"
  /\ UNCHANGED <<client, running, should_reconnect, entryVars, caller, writer, reconnector, historyVars>>

\* stop() of MQTTClient ends with disconnect(), after both threads.
JoinReconnector ==
  /\ owner = "join reconnector"
  /\ reconnector \in {"none", "exited"}
  /\ reconnector' = "none"
  /\ connected' = FALSE
  /\ owner' = "stopped"
  /\ UNCHANGED <<client, running, should_reconnect, entryVars, caller, writer, historyVars>>

Stopping == ~ OwnerFree
OwnerStep == ForbidReconnect \/ NotifyAll \/ JoinWriter \/ JoinReconnector

-----------------------------------------------------------------------------

CallerStep(c) ==
  \/ BeginInsert(c)
  \/ \E k \in QueuesOf(client) : \E n \in InsertSizes(k) : Push(c, k, n)
  \/ NotifyOne(c)

Next ==
  \/ \E c \in Callers : CallerStep(c)
  \/ WriterStep \/ SpuriousWake \/ ReconnectorStep
  \/ Connect \/ Disconnect \/ Start \/ Stop \/ OwnerStep

\* The threads keep running, a caller inside a call comes out of it, and a stop
\* call that has begun goes on; nobody has to insert, start or stop.
Fairness ==
  /\ WF_vars(WriterStep) /\ WF_vars(ReconnectorStep) /\ WF_vars(OwnerStep)
  /\ \A c \in Callers : WF_vars(NotifyOne(c))

Spec == Init /\ [][Next]_vars /\ Fairness

-----------------------------------------------------------------------------
(* Properties *)

TypeOK ==
  /\ client \in {"clickhouse", "mqtt"}
  /\ connected \in BOOLEAN /\ running \in BOOLEAN /\ should_reconnect \in BOOLEAN
  /\ queue \in [Queues -> Seq(Nat)] /\ batch \in [Queues -> Seq(Nat)]
  /\ written \in [Queues -> Seq(Nat)]
  /\ accepted \in [Queues -> Nat]
  /\ caller \in [Callers -> {"idle", "push", "notify"}]
  /\ owner \in {"idle", "stopped", "forbid", "notify", "join", "join reconnector"}
  /\ writer \in {"none", "test", "check", "block", "asleep", "write", "exited"}
  /\ reconnector \in {"none", "test", "look", "wait", "pause", "exited"}
  /\ starts \in Nat /\ missed \in BOOLEAN

\* What a queue has accepted, as far as it got, oldest first.
Line(w, b, q) == w \o b \o q

\* What is written, held by the writer and queued is what was accepted, in that
\* order, each once: across batches of any size, stops and restarts
\* (clickhouse_client.cpp:174-194, mqtt_client.cpp:88-95).
EntriesInOrder ==
  \A k \in Queues : Line(written[k], batch[k], queue[k]) = NumbersFrom(0, accepted[k])

\* When a stop call has returned no thread is left, nothing was taken and not
\* written, and MQTTClient is disconnected for good: no connect() that its second
\* thread had begun comes after (clickhouse_client.cpp:156-160, mqtt_client.cpp:74-81).
StoppedMeansSilent ==
  owner = "stopped" =>
    /\ writer = "none" /\ reconnector = "none"
    /\ \A k \in Queues : batch[k] = <<>>
    /\ client = "mqtt" => ~ connected

\* An accepted entry is written unless a stop call comes: no notification is lost
\* between two callers and the writer (clickhouse_client.cpp:35-64, 170-172).
EntriesWritten ==
  \A k \in Queues : \A n \in 1..MaxEntries[k] :
    accepted[k] >= n ~> Len(written[k]) >= n \/ ~ running

\* The writer sleeps, and the notification of the stop call came before.
StopMissed == owner = "join" /\ writer = "asleep" /\ missed

\* A stop call returns, or waits for ever for a writer that tested the flag before
\* it was cleared and slept after the notification; nothing else can hold it up
\* (clickhouse_client.cpp:156-160, mqtt_client.cpp:74-81).
StopReturnsUnlessMissed == Stopping ~> (OwnerFree \/ []StopMissed)
=============================================================================
