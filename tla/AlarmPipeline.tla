---------------------------- MODULE AlarmPipeline ----------------------------
(***************************************************************************)
(* From the sensor to the operator: main() injects readings through        *)
(* MqttReceiver into the sensor queue, the thread of AlarmMqtt takes them  *)
(* in batches, runs AlertSystem on each valid one and pushes the alerts    *)
(* into the alert queue, which main() drains once, in its smoke test.      *)
(* main() then ticks, exporting the drop counters of the queues, until a   *)
(* signal stops the service.                                               *)
(*                                                                         *)
(* Both queues are MessageQueues (each push and pop atomic, as in the      *)
(* mutex build; LockFreeQueue is shown to behave alike).  An alert in a    *)
(* queue is represented by its id.                                         *)
(***************************************************************************)
EXTENDS AlertSystem, QueueOps

CONSTANTS SensorCapacity, AlertCapacity,
          BatchMax,        \* 32
          NumInjected,     \* messages of the smoke test (3)
          SmokeMill,       \* the mill it injects for
          MaxReports       \* bound: reporting ticks of main

ASSUME PipelineAssumption ==
  /\ SensorCapacity \in Nat /\ AlertCapacity \in Nat
  /\ BatchMax \in Nat \ {0}
  /\ NumInjected \in Nat /\ MaxReports \in Nat
  /\ SmokeMill \in Mills

VARIABLES
  sensor_q, alert_q,
  sensor_dropped, alert_dropped,  \* dropped() of the two queues
  running,                        \* running_ of AlarmMqtt
  worker,                         \* where its thread is
  batch,                          \* readings popped and not finished
  check,                          \* the check of check_all it is at, 1..4
  out,                            \* alerts check_all returned, not pushed yet
  pushed_any,                     \* total_alerts > 0 in this batch
  active_per_mill,
  main,                           \* where main() is
  injected,
  drained,                        \* history: alerts main() popped
  reports,
  read_dropped,                   \* s_dropped, a_dropped: read and not added yet
  reported,                       \* history: all that reports read, by queue
  g_shutdown,
  dropped_metric,                 \* stonemill_queue_dropped_total{queue}
  active_metric                   \* stonemill_alerts_active{mill_id}

queueVars == <<sensor_q, alert_q, sensor_dropped, alert_dropped>>
workerVars == <<worker, batch, check, out, pushed_any, active_per_mill>>
reportVars == <<reports, read_dropped, reported>>
mainVars == <<main, injected, drained, reportVars, running>>
metricVars == <<dropped_metric, active_metric>>
vars == <<alertVars, queueVars, workerVars, mainVars, metricVars, g_shutdown>>

Queues == {"sensor", "alert"}

\* dropped() of a queue.
DroppedOf(q) == IF q = "sensor" THEN sensor_dropped ELSE alert_dropped

Init ==
  /\ AlertInit
  /\ sensor_q = <<>> /\ alert_q = <<>>
  /\ sensor_dropped = 0 /\ alert_dropped = 0
  /\ running = TRUE
  /\ worker = "test"
  /\ batch = <<>>
  /\ check = 1
  /\ out = <<>>
  /\ pushed_any = FALSE
  /\ active_per_mill = [m \in Mills |-> 0]
  /\ main = "start"
  /\ injected = 0
  /\ drained = <<>>
  /\ reports = 0
  /\ read_dropped = [q \in Queues |-> 0]
  /\ reported = [q \in Queues |-> 0]
  /\ g_shutdown = FALSE
  /\ dropped_metric = [q \in Queues |-> 0]
  /\ active_metric = [m \in Mills |-> 0]

-----------------------------------------------------------------------------
(* main(): the smoke test, the ticks, the shutdown *)

\* while (!g_shutdown): the first turn runs the smoke test, unless the signal was
\* even faster.  Later turns only sleep, but for every 200th.
TestShutdown ==
  /\ main \in {"start", "loop"}
  /\ g_shutdown \/ main = "start" \/ reports < MaxReports
  /\ main' = IF g_shutdown THEN "stop" ELSE IF main = "start" THEN "inject" ELSE "tick"
  /\ reports' = IF main' = "tick" THEN reports + 1 ELSE reports
  /\ UNCHANGED <<alertVars, queueVars, workerVars, metricVars,
                 injected, drained, read_dropped, reported, running, g_shutdown>>

\* inject_test_message: a reading that fails validate() is marked and pushed all
\* the same.
inject_test_message(r) ==
  /\ main = "inject"
  /\ injected < NumInjected
  /\ injected' = injected + 1
  /\ \/ /\ MayAccept(sensor_q, SensorCapacity)
        /\ sensor_q' = Append(sensor_q, r)
        /\ UNCHANGED <<sensor_dropped, main>>
     \/ /\ MayRefuse(sensor_q, SensorCapacity)
        /\ sensor_dropped' = sensor_dropped + 1
        /\ main' = "refused"
        /\ UNCHANGED sensor_q
  /\ UNCHANGED <<alertVars, alert_q, alert_dropped, workerVars, metricVars,
                 drained, reportVars, running, g_shutdown>>

\* The queue has counted the refusal; the metric counts it next.
CountRefusal ==
  /\ main = "refused"
  /\ dropped_metric' = [dropped_metric EXCEPT !["sensor"] = @ + 1]
  /\ main' = "inject"
  /\ UNCHANGED <<alertVars, queueVars, workerVars, active_metric,
                 injected, drained, reportVars, running, g_shutdown>>

\* The half second main() then sleeps bounds nothing the worker does.
StartDrain ==
  /\ main = "inject"
  /\ injected = NumInjected
  /\ main' = "drain"
  /\ UNCHANGED <<alertVars, queueVars, workerVars, metricVars,
                 injected, drained, reportVars, running, g_shutdown>>

DrainAlert_Peek ==    \* faulty: reads the front and leaves it
  /\ main = "drain" /\ alert_q # <<>>
  /\ drained' = Append(drained, Head(alert_q))
  /\ UNCHANGED <<alertVars, queueVars, workerVars, metricVars,
                 main, injected, reportVars, running, g_shutdown>>

DrainAlert ==
  /\ main = "drain"
  /\ alert_q # <<>>
  /\ drained' = Append(drained, Head(alert_q))
  /\ alert_q' = Tail(alert_q)
  /\ UNCHANGED <<alertVars, sensor_q, sensor_dropped, alert_dropped, workerVars, metricVars,
                 main, injected, reportVars, running, g_shutdown>>

\* The queue is seen empty; the gauge is set from the count later.
EndDrain ==
  /\ main = "drain"
  /\ alert_q = <<>>
  /\ main' = "gauge"
  /\ UNCHANGED <<alertVars, queueVars, workerVars, metricVars,
                 injected, drained, reportVars, running, g_shutdown>>

SetSmokeGauge ==
  /\ main = "gauge"
  /\ active_metric' = [active_metric EXCEPT ![SmokeMill] = Len(drained)]
  /\ main' = "loop"
  /\ UNCHANGED <<alertVars, queueVars, workerVars, dropped_metric,
                 injected, drained, reportVars, running, g_shutdown>>

\* The 200th tick reads the drop counters of both queues, one after the other ...
ReadDropped(q, here, next) ==
  /\ main = here
  /\ read_dropped' = [read_dropped EXCEPT ![q] = DroppedOf(q)]
  /\ reported' = [reported EXCEPT ![q] = @ + DroppedOf(q)]
  /\ main' = next
  /\ UNCHANGED <<alertVars, queueVars, workerVars, metricVars,
                 injected, drained, reports, running, g_shutdown>>

AddDropped_Again(q, here, next) ==   \* faulty: asks dropped() again for the metric
  /\ main = here /\ main' = next
  /\ dropped_metric' = [dropped_metric EXCEPT ![q] = @ + DroppedOf(q)]
  /\ read_dropped' = [read_dropped EXCEPT ![q] = 0]
  /\ UNCHANGED <<alertVars, queueVars, workerVars, active_metric,
                 injected, drained, reports, reported, running, g_shutdown>>

\* ... and then adds what it read, the total since the start, to the metric (nothing,
\* if it read 0).
AddDropped(q, here, next) ==
  /\ main = here
  /\ dropped_metric' = [dropped_metric EXCEPT ![q] = @ + read_dropped[q]]
  /\ read_dropped' = [read_dropped EXCEPT ![q] = 0]
  /\ main' = next
  /\ UNCHANGED <<alertVars, queueVars, workerVars, active_metric,
                 injected, drained, reports, reported, running, g_shutdown>>

Report ==
  \/ ReadDropped("sensor", "tick", "read")
  \/ ReadDropped("alert", "read", "add")
  \/ AddDropped("sensor", "add", "added")
  \/ AddDropped("alert", "added", "loop")

sigint_handler ==
  /\ ~ g_shutdown
  /\ g_shutdown' = TRUE
  /\ UNCHANGED <<alertVars, queueVars, workerVars, mainVars, metricVars>>

StopAlarm_NoFlag ==   \* faulty: joins without clearing running_
  /\ main = "stop" /\ main' = "join"
  /\ UNCHANGED <<alertVars, queueVars, workerVars, metricVars,
                 injected, drained, reportVars, running, g_shutdown>>

\* AlarmMqtt::stop(): clear the flag, then join the thread.
StopAlarm ==
  /\ main = "stop"
  /\ running' = FALSE
  /\ main' = "join"
  /\ UNCHANGED <<alertVars, queueVars, workerVars, metricVars,
                 injected, drained, reportVars, g_shutdown>>

JoinAlarm ==
  /\ main = "join"
  /\ worker = "exited"
  /\ main' = "done"
  /\ UNCHANGED <<alertVars, queueVars, workerVars, metricVars,
                 injected, drained, reportVars, running, g_shutdown>>

-----------------------------------------------------------------------------
(* AlarmMqtt::worker *)

\* while (running_): stop() is noticed here only.
TestRunning ==
  /\ worker = "test"
  /\ worker' = IF running THEN "pop" ELSE "exited"
  /\ UNCHANGED <<alertVars, queueVars, batch, check, out, pushed_any, active_per_mill,
                 mainVars, metricVars, g_shutdown>>

\* pop_bulk; when it returns nothing the thread sleeps and tests again.
PopBatch ==
  /\ worker = "pop"
  /\ batch' = BulkOf(sensor_q, BatchMax)
  /\ sensor_q' = BulkRest(sensor_q, BatchMax)
  /\ worker' = IF sensor_q = <<>> THEN "test" ELSE "next"
  /\ UNCHANGED <<alertVars, alert_q, sensor_dropped, alert_dropped, check, out,
                 pushed_any, active_per_mill, mainVars, metricVars, g_shutdown>>

NextReading_Stop ==   \* faulty: running_ ends the batch too
  /\ worker = "next" /\ batch # <<>>
  /\ worker' = IF running THEN "check" ELSE "exited"
  /\ UNCHANGED <<alertVars, queueVars, batch, check, out, pushed_any, active_per_mill,
                 mainVars, metricVars, g_shutdown>>

NextReading_Stuck ==  \* faulty: `continue` without going on to the next reading
  /\ worker = "next" /\ batch # <<>>
  /\ worker' = IF Head(batch).valid THEN "check" ELSE "next"
  /\ UNCHANGED <<alertVars, queueVars, batch, check, out, pushed_any, active_per_mill,
                 mainVars, metricVars, g_shutdown>>

\* The next reading of the batch; one that failed validation is skipped.
NextReading ==
  /\ worker = "next"
  /\ batch # <<>>
  /\ IF Head(batch).valid
     THEN worker' = "check" /\ UNCHANGED batch
     ELSE batch' = Tail(batch) /\ UNCHANGED worker
  /\ UNCHANGED <<alertVars, queueVars, check, out, pushed_any, active_per_mill,
                 mainVars, metricVars, g_shutdown>>

\* check_all goes on to its next check, or returns.
AfterCheck ==
  IF check < Len(CheckOrder)
  THEN check' = check + 1 /\ worker' = "check"
  ELSE check' = 1 /\ worker' = "push"

RunCheck ==
  /\ worker = "check"
  /\ LET r == Head(batch)
         type == CheckOrder[check] IN
     \/ CheckPasses(r, type) /\ AfterCheck
     \/ CheckRaises(r, type) /\ worker' = "create" /\ UNCHANGED check
  /\ UNCHANGED <<queueVars, batch, out, pushed_any, active_per_mill,
                 mainVars, metricVars, g_shutdown>>

CreateAlert ==
  /\ worker = "create"
  /\ create_alert(Head(batch), CheckOrder[check])
  /\ out' = Append(out, Len(active_alerts) + 1)
  /\ AfterCheck
  /\ UNCHANGED <<queueVars, batch, pushed_any, active_per_mill,
                 mainVars, metricVars, g_shutdown>>

\* One alert of check_all goes to the alert queue, or is dropped; active_per_mill
\* counts it either way.
PushAlert ==
  /\ worker = "push"
  /\ out # <<>>
  /\ \/ /\ MayAccept(alert_q, AlertCapacity)
        /\ alert_q' = Append(alert_q, Head(out))
        /\ pushed_any' = TRUE
        /\ UNCHANGED <<alert_dropped, worker>>
     \/ /\ MayRefuse(alert_q, AlertCapacity)
        /\ alert_dropped' = alert_dropped + 1
        /\ worker' = "count"
        /\ UNCHANGED <<alert_q, pushed_any>>
  /\ active_per_mill' = [active_per_mill EXCEPT ![active_alerts[Head(out)].mill] = @ + 1]
  /\ out' = Tail(out)
  /\ UNCHANGED <<alertVars, sensor_q, sensor_dropped, batch, check,
                 mainVars, metricVars, g_shutdown>>

ExportDrop_Silent ==   \* faulty: the drop never reaches the metric
  /\ worker = "count" /\ worker' = "push"
  /\ UNCHANGED <<alertVars, queueVars, batch, check, out, pushed_any, active_per_mill,
                 mainVars, metricVars, g_shutdown>>

\* The queue has counted the drop; the metric counts it next.
ExportDrop ==
  /\ worker = "count"
  /\ dropped_metric' = [dropped_metric EXCEPT !["alert"] = @ + 1]
  /\ worker' = "push"
  /\ UNCHANGED <<alertVars, queueVars, batch, check, out, pushed_any, active_per_mill,
                 mainVars, active_metric, g_shutdown>>

EndReading_Early ==   \* faulty: gives the other alerts up after a refusal
  /\ worker = "push"
  /\ out' = <<>>
  /\ batch' = Tail(batch)
  /\ worker' = "next"
  /\ UNCHANGED <<alertVars, queueVars, check, pushed_any, active_per_mill,
                 mainVars, metricVars, g_shutdown>>

EndReading ==
  /\ worker = "push"
  /\ out = <<>>
  /\ batch' = Tail(batch)
  /\ worker' = "next"
  /\ UNCHANGED <<alertVars, queueVars, check, out, pushed_any, active_per_mill,
                 mainVars, metricVars, g_shutdown>>

\* The gauges are refreshed only after a batch that pushed an alert.
EndBatch ==
  /\ worker = "next"
  /\ batch = <<>>
  /\ active_metric' = IF pushed_any
                      THEN [m \in Mills |-> IF active_per_mill[m] > 0
                                            THEN active_per_mill[m] ELSE active_metric[m]]
                      ELSE active_metric
  /\ pushed_any' = FALSE
  /\ worker' = "test"
  /\ UNCHANGED <<alertVars, queueVars, batch, check, out, active_per_mill,
                 mainVars, dropped_metric, g_shutdown>>

-----------------------------------------------------------------------------

Clock == ClockStep /\ UNCHANGED <<queueVars, workerVars, mainVars, metricVars, g_shutdown>>

MainStep ==
  \/ \E r \in Readings : inject_test_message(r)
  \/ CountRefusal \/ StartDrain \/ DrainAlert \/ EndDrain \/ SetSmokeGauge
  \/ TestShutdown \/ Report \/ StopAlarm \/ JoinAlarm

WorkerStep ==
  \/ TestRunning \/ PopBatch \/ NextReading \/ RunCheck \/ CreateAlert
  \/ PushAlert \/ ExportDrop \/ EndReading \/ EndBatch

Next == MainStep \/ WorkerStep \/ Clock \/ sigint_handler

\* The operating system schedules both threads; no signal is ever promised.
Fairness == WF_vars(MainStep) /\ WF_vars(WorkerStep)

Spec == Init /\ [][Next]_vars /\ Fairness

-----------------------------------------------------------------------------
(* Properties *)

TypeOK ==
  /\ AlertTypeOK
  /\ sensor_q \in Seq(Readings) /\ batch \in Seq(Readings)
  /\ alert_q \in Seq(1..Len(active_alerts)) /\ out \in Seq(1..Len(active_alerts))
  /\ drained \in Seq(1..Len(active_alerts))
  /\ sensor_dropped \in Nat /\ alert_dropped \in Nat
  /\ running \in BOOLEAN /\ g_shutdown \in BOOLEAN /\ pushed_any \in BOOLEAN
  /\ worker \in {"test", "pop", "next", "check", "create", "push", "count", "exited"}
  /\ check \in 1..Len(CheckOrder)
  /\ active_per_mill \in [Mills -> Nat] /\ active_metric \in [Mills -> Nat]
  /\ main \in {"start", "inject", "refused", "drain", "gauge", "loop",
               "tick", "read", "add", "added", "stop", "join", "done"}
  /\ injected \in 0..NumInjected /\ reports \in 0..MaxReports
  /\ read_dropped \in [Queues -> Nat] /\ reported \in [Queues -> Nat]
  /\ dropped_metric \in [Queues -> Nat]

\* A running suppression timer was started by an alert that exists (or is the one
\* being created): a mill never goes silent over an alert nobody has
\* (alert_system.cpp:44, 48-70).
TimerHasAlert ==
  \A m \in Mills, t \in AlertTypes :
    last_alert_times[m][t] # Never =>
      \/ \E i \in 1..Len(active_alerts) :
           /\ active_alerts[i].mill = m
           /\ active_alerts[i].type = t
           /\ active_alerts[i].raised = last_alert_times[m][t]
      \/ worker = "create" /\ Head(batch).mill = m /\ CheckOrder[check] = t

\* Every alert AlertSystem created is with main(), in the alert queue, in the hands
\* of the worker, or counted as dropped by the queue (alarm_mqtt.cpp:75-104).
AlertsAccountedFor ==
  Len(active_alerts) = Len(drained) + Len(alert_q) + Len(out) + alert_dropped

Rising(s) == \A i, j \in 1..Len(s) : i < j => s[i] < s[j]
Before(s, t) == \A i \in 1..Len(s), j \in 1..Len(t) : s[i] < t[j]

\* main() sees the alerts in the order of their ids, none twice, whatever was
\* dropped in between (alarm_mqtt.cpp:76-104, main.cpp:57).
AlertsInOrder ==
  /\ Rising(drained) /\ Rising(alert_q) /\ Rising(out)
  /\ Before(drained, alert_q) /\ Before(drained, out) /\ Before(alert_q, out)

\* A drop its queue has counted and the metric has not: the refused reading of
\* main(), or the refused alert of the worker.
BeingCounted(q) ==
  IF q = "sensor" THEN IF main = "refused" THEN 1 ELSE 0
                  ELSE IF worker = "count" THEN 1 ELSE 0

\* stonemill_queue_dropped_total is not the number of drops: it is that number plus,
\* for every report so far, all that had been dropped before that report.  Nothing
\* else is missing or too much, but the drop being counted and the report being
\* added, whichever thread is where (alarm_mqtt.cpp:89-92, mqtt_receiver.cpp:78-80,
\* main.cpp:193-199).
DropsCountedAgain ==
  \A q \in Queues :
    dropped_metric[q] + BeingCounted(q) + read_dropped[q] = DroppedOf(q) + reported[q]

\* The thread never exits with work in its hands: every reading it popped has been
\* checked and every alert it created offered to the queue (alarm_mqtt.cpp:65-112).
ExitWithEmptyHands == worker = "exited" => batch = <<>> /\ out = <<>>

\* Once main() set its gauge no stop() can hang: a signal leads to the end of the
\* process (main.cpp:178-212, alarm_mqtt.cpp:29-34).
ShutdownCompletes == g_shutdown ~> main = "done"

\* While the service runs, every reading in the sensor queue is taken.
ReadingsTaken == sensor_q # <<>> ~> sensor_q = <<>> \/ ~ running

-----------------------------------------------------------------------------
(* What the descriptions of the metrics say *)

AtRest ==
  /\ main \in {"loop", "tick", "read", "add", "added", "stop", "join", "done"}
  /\ worker \in {"test", "pop", "exited"}
  /\ sensor_q = <<>>

\* "Currently active alerts" (metrics.cpp:42): no alert is resolved here, so all are.
ActiveMetricCurrent ==
  AtRest => \A m \in Mills :
    active_metric[m] = Len(SelectSeq(active_alerts, LAMBDA a : a.mill = m))
=============================================================================
