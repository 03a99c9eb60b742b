------------------------- MODULE AlarmPipelineProofs -------------------------
(***************************************************************************)
(* For any mills, readings, capacities, batch size and suppression period: *)
(* the types, the bookkeeping of the alerts, the spacing of the alerts of  *)
(* one mill and type, and that the alert queue implements MessageQueue.    *)
(***************************************************************************)
EXTENDS AlarmPipeline, BulkOpsProofs

USE PipelineAssumption

\* What the thread holds where: a reading while it checks it, no alert unless it
\* is about to push it.
Hands ==
  /\ worker \in {"check", "create", "push", "count"} => batch # <<>>
  /\ worker \in {"test", "pop", "exited"} => batch = <<>>
  /\ worker \in {"test", "pop", "next", "exited"} => out = <<>>

TypeInv == TypeOK /\ Hands

LEMMA CheckOrderTypes ==
  /\ Len(CheckOrder) = 4
  /\ \A i \in 1..4 : CheckOrder[i] \in AlertTypes
BY DEF CheckOrder, AlertTypes

LEMMA AlertFields ==
  ASSUME TypeOK, NEW i \in 1..Len(active_alerts)
  PROVE  /\ active_alerts[i].mill \in Mills
         /\ active_alerts[i].type \in AlertTypes
         /\ active_alerts[i].raised \in (0..MaxClock) \cup {Never}
<1> DEFINE A == [mill : Mills, type : AlertTypes, severity : Severities \cup {"none"},
                 raised : (0..MaxClock) \cup {Never}]
<1>1. active_alerts \in Seq(A)
  BY DEF TypeOK, AlertTypeOK
<1>2. active_alerts[i] \in A
  BY <1>1, ElementOfSeq
<1> QED BY <1>2

LEMMA InitTypeInv == Init => TypeInv
<1> SUFFICES ASSUME Init PROVE TypeInv
  OBVIOUS
<1>1. TypeOK
  <2>1. AlertTypeOK
    BY EmptySeq, AlertAssumption DEF Init, AlertInit, AlertTypeOK
  <2>2. /\ alert_q \in Seq(1..Len(active_alerts)) /\ out \in Seq(1..Len(active_alerts))
        /\ drained \in Seq(1..Len(active_alerts))
    BY EmptySeq DEF Init, AlertInit
  <2>3. /\ dropped_metric \in [Queues -> Nat]
        /\ read_dropped \in [Queues -> Nat] /\ reported \in [Queues -> Nat]
    BY DEF Init
  <2>4. sensor_q \in Seq(Readings) /\ batch \in Seq(Readings)
    BY EmptySeq DEF Init
  <2>5. check \in 1..Len(CheckOrder)
    BY CheckOrderTypes DEF Init
  <2>6. running \in BOOLEAN /\ g_shutdown \in BOOLEAN /\ pushed_any \in BOOLEAN
    BY DEF Init
  <2>7. active_per_mill \in [Mills -> Nat] /\ active_metric \in [Mills -> Nat]
    BY DEF Init
  <2>8. injected \in 0..NumInjected /\ reports \in 0..MaxReports
    BY DEF Init
  <2> QED BY <2>1, <2>2, <2>3, <2>4, <2>5, <2>6, <2>7, <2>8 DEF Init, TypeOK
<1>2. Hands
  BY DEF Init, Hands
<1> QED BY <1>1, <1>2 DEF TypeInv

-----------------------------------------------------------------------------

LEMMA MainTypes ==
  ASSUME TypeInv, MainStep \/ sigint_handler \/ Clock
  PROVE  TypeInv'
<1>q. /\ sensor_q \in Seq(Readings) /\ sensor_dropped \in Nat
      /\ alert_q \in Seq(1..Len(active_alerts)) /\ alert_dropped \in Nat
  BY DEF TypeInv, TypeOK
<1>m. dropped_metric \in [Queues -> Nat] /\ active_metric \in [Mills -> Nat]
  BY DEF TypeInv, TypeOK
<1>a. /\ clock \in 0..MaxClock
      /\ last_alert_times \in [Mills -> [AlertTypes -> (0..MaxClock) \cup {Never}]]
      /\ active_per_mill \in [Mills -> Nat]
  BY DEF TypeInv, TypeOK, AlertTypeOK
<1>b. /\ batch \in Seq(Readings) /\ check \in 1..Len(CheckOrder) /\ pushed_any \in BOOLEAN
      /\ out \in Seq(1..Len(active_alerts))
      /\ worker \in {"check", "create", "push", "count"} => batch # <<>>
  BY DEF TypeInv, TypeOK, Hands
<1>d. drained \in Seq(1..Len(active_alerts))
  BY DEF TypeInv, TypeOK
<1> USE DEF queueVars, workerVars, mainVars, reportVars, metricVars, alertVars
<1>1. ASSUME NEW r \in Readings, inject_test_message(r) PROVE TypeInv'
  <2>0. sensor_q' = sensor_q \/ sensor_q' = Append(sensor_q, r)
    BY <1>1 DEF inject_test_message
  <2>1. sensor_q' \in Seq(Readings)
    BY <2>0, <1>q, AppendProperties
  <2>2. sensor_dropped' \in Nat /\ main' \in {"inject", "refused"}
    BY <1>1, <1>q DEF inject_test_message
  <2>3. injected' \in 0..NumInjected
    BY <1>1 DEF inject_test_message, TypeInv, TypeOK
  <2>4. UNCHANGED <<alertVars, alert_q, alert_dropped, workerVars, metricVars,
                    drained, reportVars, running, g_shutdown>>
    BY <1>1 DEF inject_test_message
  <2> QED BY <2>1, <2>2, <2>3, <2>4 DEF TypeInv, TypeOK, AlertTypeOK, Hands
<1>12. CASE CountRefusal
  <2>1. dropped_metric' \in [Queues -> Nat]
    BY <1>12, <1>m DEF CountRefusal, Queues
  <2> QED BY <1>12, <2>1 DEF CountRefusal, TypeInv, TypeOK, AlertTypeOK, Hands
<1>2. CASE StartDrain
  BY <1>2 DEF StartDrain, TypeInv, TypeOK, AlertTypeOK, Hands
<1>3. CASE DrainAlert
  <2>1. alert_q' \in Seq(1..Len(active_alerts)) /\ drained' \in Seq(1..Len(active_alerts))
    BY <1>3, <1>q, <1>d, HeadTailProperties, AppendProperties DEF DrainAlert
  <2> QED BY <1>3, <2>1 DEF DrainAlert, TypeInv, TypeOK, AlertTypeOK, Hands
<1>4. CASE EndDrain
  BY <1>4 DEF EndDrain, TypeInv, TypeOK, AlertTypeOK, Hands
<1>5. CASE SetSmokeGauge
  <2>1. Len(drained) \in Nat
    BY <1>d, LenProperties
  <2>2. active_metric' \in [Mills -> Nat]
    BY <1>5, <1>m, <2>1 DEF SetSmokeGauge
  <2> QED BY <1>5, <2>2 DEF SetSmokeGauge, TypeInv, TypeOK, AlertTypeOK, Hands
<1>6. CASE Report
  <2>0. /\ read_dropped \in [Queues -> Nat] /\ reported \in [Queues -> Nat]
        /\ \A q \in Queues : DroppedOf(q) \in Nat
    BY <1>q DEF TypeInv, TypeOK, DroppedOf
  <2>1. ASSUME NEW q \in Queues, NEW here, NEW next \in {"read", "add"},
               ReadDropped(q, here, next)
        PROVE  TypeInv'
    <3>1. read_dropped' \in [Queues -> Nat] /\ reported' \in [Queues -> Nat]
      BY <2>0, <2>1 DEF ReadDropped
    <3> QED BY <2>1, <3>1 DEF ReadDropped, TypeInv, TypeOK, AlertTypeOK, Hands
  <2>2. ASSUME NEW q \in Queues, NEW here, NEW next \in {"added", "loop"},
               AddDropped(q, here, next)
        PROVE  TypeInv'
    <3>1. read_dropped' \in [Queues -> Nat] /\ dropped_metric' \in [Queues -> Nat]
      BY <2>0, <2>2, <1>m DEF AddDropped
    <3> QED BY <2>2, <3>1 DEF AddDropped, TypeInv, TypeOK, AlertTypeOK, Hands
  <2> QED BY <1>6, <2>1, <2>2 DEF Report, Queues
<1>7. CASE StopAlarm
  BY <1>7 DEF StopAlarm, TypeInv, TypeOK, AlertTypeOK, Hands
<1>8. CASE JoinAlarm
  BY <1>8 DEF JoinAlarm, TypeInv, TypeOK, AlertTypeOK, Hands
<1>9. CASE sigint_handler
  BY <1>9 DEF sigint_handler, TypeInv, TypeOK, AlertTypeOK, Hands
<1>10. CASE Clock
  <2>1. AlertTypeOK'
    BY <1>10, <1>a DEF Clock, ClockStep, TypeInv, TypeOK, AlertTypeOK
  <2>2. UNCHANGED <<active_alerts, queueVars, workerVars, mainVars, metricVars, g_shutdown>>
    BY <1>10 DEF Clock, ClockStep
  <2> QED BY <2>1, <2>2 DEF TypeInv, TypeOK, Hands
<1>11. CASE TestShutdown
  <2>1. reports \in 0..MaxReports /\ MaxReports \in Nat /\ main \in {"start", "loop"}
    BY <1>11 DEF TestShutdown, TypeInv, TypeOK
  <2>2. main' = "tick" => reports < MaxReports
    BY <1>11 DEF TestShutdown
  <2>3. reports' \in 0..MaxReports
    BY <1>11, <2>1, <2>2 DEF TestShutdown
  <2>4. main' \in {"stop", "inject", "tick"}
    BY <1>11 DEF TestShutdown
  <2> QED BY <1>11, <2>3, <2>4 DEF TestShutdown, TypeInv, TypeOK, AlertTypeOK, Hands
<1> QED BY <1>1, <1>2, <1>3, <1>4, <1>5, <1>6, <1>7, <1>8, <1>9, <1>10, <1>11, <1>12 DEF MainStep

LEMMA WorkerTypes ==
  ASSUME TypeInv, WorkerStep
  PROVE  TypeInv'
<1>q. /\ sensor_q \in Seq(Readings) /\ sensor_dropped \in Nat
      /\ alert_q \in Seq(1..Len(active_alerts)) /\ alert_dropped \in Nat
  BY DEF TypeInv, TypeOK
<1>m. dropped_metric \in [Queues -> Nat] /\ active_metric \in [Mills -> Nat]
  BY DEF TypeInv, TypeOK
<1>a. /\ clock \in 0..MaxClock
      /\ last_alert_times \in [Mills -> [AlertTypes -> (0..MaxClock) \cup {Never}]]
      /\ active_per_mill \in [Mills -> Nat]
  BY DEF TypeInv, TypeOK, AlertTypeOK
<1>b. /\ batch \in Seq(Readings) /\ check \in 1..Len(CheckOrder) /\ pushed_any \in BOOLEAN
      /\ out \in Seq(1..Len(active_alerts))
      /\ worker \in {"check", "create", "push", "count"} => batch # <<>>
  BY DEF TypeInv, TypeOK, Hands
<1>d. drained \in Seq(1..Len(active_alerts))
  BY DEF TypeInv, TypeOK
<1> USE DEF queueVars, workerVars, mainVars, reportVars, metricVars, alertVars
<1>1. CASE TestRunning
  BY <1>1 DEF TestRunning, TypeInv, TypeOK, AlertTypeOK, Hands
<1>2. CASE PopBatch
  <2>1. BatchMax \in Nat \ {0}
    OBVIOUS
  <2>2. BulkOf(sensor_q, BatchMax) \in Seq(Readings) /\ BulkRest(sensor_q, BatchMax) \in Seq(Readings)
    BY <2>1, <1>q, BulkSplits
  <2>3. sensor_q = <<>> <=> BulkOf(sensor_q, BatchMax) = <<>>
    BY <2>1, <1>q, BulkOfEmpty
  <2> QED BY <1>2, <2>2, <2>3 DEF PopBatch, TypeInv, TypeOK, AlertTypeOK, Hands
<1>3. CASE NextReading
  <2>1. Tail(batch) \in Seq(Readings)
    BY <1>3, <1>b, HeadTailProperties DEF NextReading
  <2> QED BY <1>3, <2>1 DEF NextReading, TypeInv, TypeOK, AlertTypeOK, Hands
<1>4. CASE RunCheck
  <2>1. Head(batch) \in Readings /\ CheckOrder[check] \in AlertTypes
    BY <1>4, <1>b, HeadTailProperties, CheckOrderTypes DEF RunCheck
  <2>2. clock' \in 0..MaxClock /\ active_alerts' = active_alerts
    BY <1>4, <1>a DEF RunCheck, CheckPasses, CheckRaises
  <2>3. last_alert_times' \in [Mills -> [AlertTypes -> (0..MaxClock) \cup {Never}]]
    <3>1. Head(batch).mill \in Mills
      BY <2>1, AlertAssumption
    <3> QED BY <1>4, <1>a, <2>1, <3>1 DEF RunCheck, CheckPasses, CheckRaises
  <2>4. check' \in 1..Len(CheckOrder) /\ worker' \in {"check", "create", "push"}
    BY <1>4, <1>b, CheckOrderTypes DEF RunCheck, AfterCheck
  <2> QED BY <1>4, <2>2, <2>3, <2>4 DEF RunCheck, TypeInv, TypeOK, AlertTypeOK, Hands
<1>5. CASE CreateAlert
  <2> DEFINE r == Head(batch)
             type == CheckOrder[check]
             alert == [mill |-> r.mill, type |-> type, severity |-> r.level[type],
                       raised |-> last_alert_times[r.mill][type]]
             A == [mill : Mills, type : AlertTypes, severity : Severities \cup {"none"},
                   raised : (0..MaxClock) \cup {Never}]
  <2>1. r \in Readings /\ type \in AlertTypes
    BY <1>5, <1>b, HeadTailProperties, CheckOrderTypes DEF CreateAlert
  <2>2. r.mill \in Mills /\ r.level[type] \in Severities \cup {"none"}
    BY <2>1, AlertAssumption
  <2>3. alert \in A
    BY <1>a, <2>1, <2>2
  <2>4. active_alerts' = Append(active_alerts, alert)
    BY <1>5 DEF CreateAlert, create_alert
  <2> HIDE DEF r, type, alert, A
  <2>5. active_alerts \in Seq(A)
    BY DEF A, TypeInv, TypeOK, AlertTypeOK
  <2>6. active_alerts' \in Seq(A) /\ Len(active_alerts') = Len(active_alerts) + 1
    BY <2>3, <2>4, <2>5, AppendProperties
  <2>7. Len(active_alerts) \in Nat
    BY <2>5, LenProperties
  <2>8. /\ alert_q \in Seq(1..Len(active_alerts')) /\ out \in Seq(1..Len(active_alerts'))
        /\ drained \in Seq(1..Len(active_alerts'))
    <3>1. 1..Len(active_alerts) \subseteq 1..Len(active_alerts')
      BY <2>6, <2>7
    <3> QED BY <3>1, <1>q, <1>b, <1>d, SeqMonotonic
  <2>9. out' \in Seq(1..Len(active_alerts'))
    <3>1. Len(active_alerts) + 1 \in 1..Len(active_alerts')
      BY <2>6, <2>7
    <3> QED BY <1>5, <3>1, <2>8, AppendProperties DEF CreateAlert
  <2>10. check' \in 1..Len(CheckOrder) /\ worker' \in {"check", "push"}
    BY <1>5, <1>b, CheckOrderTypes DEF CreateAlert, AfterCheck
  <2>11. AlertTypeOK'
    BY <1>5, <1>a, <2>6 DEF CreateAlert, create_alert, A, AlertTypeOK
  <2>12. TypeOK'
    BY <1>5, <2>8, <2>9, <2>10, <2>11 DEF CreateAlert, create_alert, TypeInv, TypeOK
  <2>13. Hands'
    BY <1>5, <1>b, <2>10 DEF CreateAlert, Hands
  <2> QED BY <2>12, <2>13 DEF TypeInv
<1>6. CASE PushAlert
  <2>1. Head(out) \in 1..Len(active_alerts) /\ Tail(out) \in Seq(1..Len(active_alerts))
    BY <1>6, <1>b, HeadTailProperties DEF PushAlert
  <2>2. active_alerts[Head(out)].mill \in Mills
    BY <2>1, AlertFields DEF TypeInv
  <2>3. active_per_mill' \in [Mills -> Nat]
    BY <1>6, <1>a, <2>2 DEF PushAlert
  <2>0. alert_q' = alert_q \/ alert_q' = Append(alert_q, Head(out))
    BY <1>6 DEF PushAlert
  <2>4. alert_q' \in Seq(1..Len(active_alerts))
    <3>1. Append(alert_q, Head(out)) \in Seq(1..Len(active_alerts))
      BY <1>q, <2>1, AppendProperties
    <3> QED BY <2>0, <3>1, <1>q
  <2>5. worker' \in {"push", "count"} /\ alert_dropped' \in Nat
    BY <1>6, <1>q DEF PushAlert
  <2>6. pushed_any' \in BOOLEAN
    BY <1>6, <1>b DEF PushAlert
  <2> QED BY <1>6, <2>1, <2>3, <2>4, <2>5, <2>6 DEF PushAlert, TypeInv, TypeOK, AlertTypeOK, Hands
<1>7. CASE ExportDrop
  <2>1. dropped_metric' \in [Queues -> Nat]
    BY <1>7, <1>m DEF ExportDrop, Queues
  <2> QED BY <1>7, <2>1 DEF ExportDrop, TypeInv, TypeOK, AlertTypeOK, Hands
<1>8. CASE EndReading
  BY <1>8 DEF EndReading, TypeInv, TypeOK, AlertTypeOK, Hands
<1>9. CASE EndBatch
  BY <1>9 DEF EndBatch, TypeInv, TypeOK, AlertTypeOK, Hands
<1> QED BY <1>1, <1>2, <1>3, <1>4, <1>5, <1>6, <1>7, <1>8, <1>9 DEF WorkerStep

LEMMA StutterTypes ==
  ASSUME TypeInv, UNCHANGED vars
  PROVE  TypeInv'
<1>1. UNCHANGED <<alertVars, queueVars, workerVars, mainVars, metricVars, g_shutdown>>
  BY DEF vars
<1>2. AlertTypeOK'
  BY <1>1 DEF TypeInv, TypeOK, AlertTypeOK, alertVars
<1>3. TypeOK'
  BY <1>1, <1>2 DEF TypeInv, TypeOK, alertVars, queueVars, workerVars, mainVars, reportVars, metricVars
<1>4. Hands'
  BY <1>1 DEF TypeInv, Hands, workerVars
<1> QED BY <1>3, <1>4 DEF TypeInv

\* Every state has its type, and the thread holds readings and alerts only where it
\* works on them: stop() finds it with empty hands (alarm_mqtt.cpp:60-113).
THEOREM TypeCorrect == Spec => []TypeInv
<1>1. Init => TypeInv
  BY InitTypeInv
<1>2. TypeInv /\ [Next]_vars => TypeInv'
  BY MainTypes, WorkerTypes, StutterTypes DEF Next
<1> QED BY <1>1, <1>2, PTL DEF Spec

\* The two parts of it that the runs check.
THEOREM TypesAndHands == Spec => [](TypeOK /\ ExitWithEmptyHands)
<1>1. TypeInv => TypeOK /\ ExitWithEmptyHands
  BY DEF TypeInv, Hands, ExitWithEmptyHands
<1> QED BY <1>1, TypeCorrect, PTL

-----------------------------------------------------------------------------
(* The suppression of alerts *)

\* Only two steps touch AlertSystem: a check that raises, and create_alert.
AlertFrame ==
  /\ UNCHANGED <<last_alert_times, active_alerts>>
  /\ worker' = "create" => worker = "create" /\ UNCHANGED <<batch, check>>

LEMMA OtherStepsKeepAlerts ==
  ASSUME TypeInv, [Next]_vars, ~ RunCheck, ~ CreateAlert
  PROVE  AlertFrame
<1> USE DEF AlertFrame, queueVars, workerVars, mainVars, reportVars, metricVars, alertVars
<1>1. ASSUME NEW r \in Readings, inject_test_message(r) PROVE AlertFrame
  BY <1>1 DEF inject_test_message
<1>2. CASE MainStep
  BY <1>1, <1>2 DEF MainStep, CountRefusal, TestShutdown, StartDrain, DrainAlert, EndDrain,
     SetSmokeGauge, Report, ReadDropped, AddDropped, StopAlarm, JoinAlarm
<1>3. CASE WorkerStep
  BY <1>3 DEF WorkerStep, TestRunning, PopBatch, NextReading, PushAlert, ExportDrop,
     EndReading, EndBatch
<1>4. CASE Clock \/ sigint_handler
  BY <1>4 DEF Clock, ClockStep, sigint_handler
<1>5. CASE UNCHANGED vars
  BY <1>5 DEF vars
<1> QED BY <1>2, <1>3, <1>4, <1>5 DEF Next

\* A timer is never behind an alert it belongs to ...
TimersCover ==
  \A i \in 1..Len(active_alerts) :
    LET a == active_alerts[i] IN
    /\ a.raised \in Int
    /\ last_alert_times[a.mill][a.type] \in Int
    /\ a.raised <= last_alert_times[a.mill][a.type]

\* ... and at least a period ahead of all of them while the next one is created.
CreatingIsDue ==
  worker = "create" =>
    LET m == Head(batch).mill
        t == CheckOrder[check] IN
    /\ last_alert_times[m][t] \in Int
    /\ \A i \in 1..Len(active_alerts) :
         active_alerts[i].mill = m /\ active_alerts[i].type = t =>
           active_alerts[i].raised + Period <= last_alert_times[m][t]

SpacingInv == TimersCover /\ CreatingIsDue /\ SuppressionSpacing

\* What a raising check does to the timers.
LEMMA RaiseRestartsTimer ==
  ASSUME TypeInv, RunCheck, worker' = "create"
  PROVE  LET m == Head(batch).mill
             t == CheckOrder[check] IN
         /\ m \in Mills /\ t \in AlertTypes
         /\ UNCHANGED <<active_alerts, batch, check>>
         /\ clock \in Int
         /\ last_alert_times[m][t] # Never => last_alert_times[m][t] + Period <= clock
         /\ last_alert_times'[m][t] = clock
         /\ \A n \in Mills, u \in AlertTypes :
              n # m \/ u # t => last_alert_times'[n][u] = last_alert_times[n][u]
<1> DEFINE m == Head(batch).mill
           t == CheckOrder[check]
<1>1. batch \in Seq(Readings) /\ batch # <<>> /\ check \in 1..4
  BY CheckOrderTypes DEF TypeInv, TypeOK, Hands, RunCheck
<1>2. m \in Mills /\ t \in AlertTypes
  BY <1>1, HeadTailProperties, CheckOrderTypes, AlertAssumption
<1>3. CheckRaises(Head(batch), t) /\ UNCHANGED check
  BY DEF RunCheck, AfterCheck
<1>4. last_alert_times' = [last_alert_times EXCEPT ![m][t] = clock]
  BY <1>3 DEF CheckRaises
<1>5. last_alert_times \in [Mills -> [AlertTypes -> (0..MaxClock) \cup {Never}]]
      /\ clock \in 0..MaxClock
  BY DEF TypeInv, TypeOK, AlertTypeOK
<1>6. ASSUME last_alert_times[m][t] # Never
      PROVE  last_alert_times[m][t] + Period <= clock
  <2>1. ~ (clock - last_alert_times[m][t] < Period)
    BY <1>3, <1>6 DEF CheckRaises, should_suppress_alert
  <2>2. last_alert_times[m][t] \in Int /\ clock \in Int /\ Period \in Int
    BY <1>2, <1>5, <1>6, AlertAssumption
  <2> QED BY <2>1, <2>2
<1>7. UNCHANGED <<active_alerts, batch>>
  BY <1>3 DEF CheckRaises, RunCheck
<1>8. last_alert_times'[m][t] = clock
  BY <1>2, <1>4, <1>5
<1>9. \A n \in Mills, u \in AlertTypes :
        n # m \/ u # t => last_alert_times'[n][u] = last_alert_times[n][u]
  BY <1>2, <1>4, <1>5
<1> QED BY <1>2, <1>3, <1>5, <1>6, <1>7, <1>8, <1>9

\* A check that does not raise changes nothing of AlertSystem.
LEMMA PassKeepsAlerts ==
  ASSUME RunCheck, worker' # "create"
  PROVE  AlertFrame
BY DEF RunCheck, CheckPasses, CheckRaises, AlertFrame, alertVars

LEMMA FrameKeepsSpacing ==
  ASSUME SpacingInv, AlertFrame
  PROVE  SpacingInv'
BY DEF SpacingInv, TimersCover, CreatingIsDue, SuppressionSpacing, SameKey, AlertFrame

LEMMA RaiseKeepsSpacing ==
  ASSUME TypeInv, SpacingInv, RunCheck, worker' = "create"
  PROVE  SpacingInv'
<1> DEFINE m == Head(batch).mill
           t == CheckOrder[check]
<1>1. /\ m \in Mills /\ t \in AlertTypes /\ clock \in Int
      /\ UNCHANGED <<active_alerts, batch, check>>
      /\ last_alert_times[m][t] # Never => last_alert_times[m][t] + Period <= clock
      /\ last_alert_times'[m][t] = clock
      /\ \A n \in Mills, u \in AlertTypes :
           n # m \/ u # t => last_alert_times'[n][u] = last_alert_times[n][u]
  BY RaiseRestartsTimer
<1> HIDE DEF m, t
<1>2. \A i \in 1..Len(active_alerts) :
        active_alerts[i].mill \in Mills /\ active_alerts[i].type \in AlertTypes
  BY AlertFields DEF TypeInv
<1>3. ASSUME NEW i \in 1..Len(active_alerts),
             active_alerts[i].mill = m, active_alerts[i].type = t
      PROVE  active_alerts[i].raised + Period <= clock /\ active_alerts[i].raised <= clock
  <2>1. /\ active_alerts[i].raised \in Int /\ last_alert_times[m][t] \in Int
        /\ active_alerts[i].raised <= last_alert_times[m][t]
    BY <1>3 DEF SpacingInv, TimersCover
  <2>2. last_alert_times[m][t] + Period <= clock /\ Period \in Nat
    BY <1>1, <2>1, AlertAssumption
  <2> QED BY <1>1, <2>1, <2>2
<1>4. TimersCover'
  <2> SUFFICES ASSUME NEW i \in 1..Len(active_alerts)
               PROVE  LET a == active_alerts[i] IN
                      /\ a.raised \in Int
                      /\ last_alert_times'[a.mill][a.type] \in Int
                      /\ a.raised <= last_alert_times'[a.mill][a.type]
    BY <1>1 DEF TimersCover
  <2>1. CASE active_alerts[i].mill = m /\ active_alerts[i].type = t
    BY <1>1, <1>3, <2>1 DEF SpacingInv, TimersCover
  <2>2. CASE ~ (active_alerts[i].mill = m /\ active_alerts[i].type = t)
    BY <1>1, <1>2, <2>2 DEF SpacingInv, TimersCover
  <2> QED BY <2>1, <2>2
<1>5. CreatingIsDue'
  BY <1>1, <1>3 DEF CreatingIsDue, m, t
<1>6. SuppressionSpacing'
  BY <1>1 DEF SpacingInv, SuppressionSpacing, SameKey
<1> QED BY <1>4, <1>5, <1>6 DEF SpacingInv

\* What create_alert adds.
LEMMA CreateAppends ==
  ASSUME TypeInv, CreateAlert
  PROVE  LET m == Head(batch).mill
             t == CheckOrder[check]
             n == Len(active_alerts) IN
         /\ n \in Nat /\ Len(active_alerts') = n + 1
         /\ \A i \in 1..n : active_alerts'[i] = active_alerts[i]
         /\ active_alerts'[n + 1].mill = m /\ active_alerts'[n + 1].type = t
         /\ active_alerts'[n + 1].raised = last_alert_times[m][t]
         /\ UNCHANGED last_alert_times
         /\ worker = "create" /\ worker' # "create"
<1> DEFINE m == Head(batch).mill
           t == CheckOrder[check]
           alert == [mill |-> m, type |-> t, severity |-> Head(batch).level[t],
                     raised |-> last_alert_times[m][t]]
           A == [mill : Mills, type : AlertTypes, severity : Severities \cup {"none"},
                 raised : (0..MaxClock) \cup {Never}]
<1>1. active_alerts \in Seq(A)
  BY DEF TypeInv, TypeOK, AlertTypeOK
<1>2. active_alerts' = Append(active_alerts, alert)
  BY DEF CreateAlert, create_alert
<1>3. alert.mill = m /\ alert.type = t /\ alert.raised = last_alert_times[m][t]
  OBVIOUS
<1>4. UNCHANGED last_alert_times /\ worker = "create" /\ worker' # "create"
  BY DEF CreateAlert, create_alert, AfterCheck
<1> HIDE DEF m, t, alert, A
<1>5. Len(active_alerts) \in Nat
  BY <1>1, LenProperties
<1>6. /\ Len(active_alerts') = Len(active_alerts) + 1
      /\ \A i \in 1..Len(active_alerts) : active_alerts'[i] = active_alerts[i]
      /\ active_alerts'[Len(active_alerts) + 1] = alert
  BY <1>1, <1>2, <1>5
<1> QED BY <1>3, <1>4, <1>5, <1>6 DEF m, t

LEMMA CreateKeepsSpacing ==
  ASSUME TypeInv, SpacingInv, CreateAlert
  PROVE  SpacingInv'
<1> DEFINE m == Head(batch).mill
           t == CheckOrder[check]
           n == Len(active_alerts)
<1>1. /\ n \in Nat /\ Len(active_alerts') = n + 1
      /\ \A i \in 1..n : active_alerts'[i] = active_alerts[i]
      /\ active_alerts'[n + 1].mill = m /\ active_alerts'[n + 1].type = t
      /\ active_alerts'[n + 1].raised = last_alert_times[m][t]
      /\ UNCHANGED last_alert_times
      /\ worker = "create" /\ worker' # "create"
  BY CreateAppends
<1>2. /\ last_alert_times[m][t] \in Int
      /\ \A i \in 1..n :
           active_alerts[i].mill = m /\ active_alerts[i].type = t =>
             active_alerts[i].raised + Period <= last_alert_times[m][t]
  BY <1>1 DEF SpacingInv, CreatingIsDue
<1> HIDE DEF m, t
<1>3. \A i \in 1..Len(active_alerts') : i \in 1..n \/ i = n + 1
  BY <1>1
<1>4. TimersCover'
  <2> SUFFICES ASSUME NEW i \in 1..Len(active_alerts')
               PROVE  LET a == active_alerts'[i] IN
                      /\ a.raised \in Int
                      /\ last_alert_times'[a.mill][a.type] \in Int
                      /\ a.raised <= last_alert_times'[a.mill][a.type]
    BY DEF TimersCover
  <2>1. CASE i \in 1..n
    BY <1>1, <2>1 DEF SpacingInv, TimersCover
  <2>2. CASE i = n + 1
    BY <1>1, <1>2, <2>2
  <2> QED BY <1>3, <2>1, <2>2
<1>5. CreatingIsDue'
  BY <1>1 DEF CreatingIsDue
<1>6. SuppressionSpacing'
  <2> SUFFICES ASSUME NEW i \in 1..Len(active_alerts'), NEW j \in 1..Len(active_alerts'),
                      i < j, SameKey(active_alerts'[i], active_alerts'[j])
               PROVE  active_alerts'[j].raised >= active_alerts'[i].raised + Period
    BY DEF SuppressionSpacing, SameKey
  <2>1. i \in 1..n
    BY <1>1
  <2>2. CASE j \in 1..n
    BY <1>1, <2>1, <2>2 DEF SpacingInv, SuppressionSpacing, SameKey
  <2>3. CASE j = n + 1
    <3>1. active_alerts[i].mill = m /\ active_alerts[i].type = t
      BY <1>1, <2>1, <2>3 DEF SameKey
    <3>2. active_alerts[i].raised + Period <= last_alert_times[m][t]
      BY <1>2, <2>1, <3>1
    <3>3. /\ active_alerts[i].raised \in Int /\ Period \in Int
          /\ last_alert_times[m][t] \in Int
      BY <1>2, <2>1, AlertAssumption DEF SpacingInv, TimersCover
    <3> QED BY <1>1, <2>1, <2>3, <3>2, <3>3
  <2> QED BY <1>3, <2>2, <2>3
<1> QED BY <1>4, <1>5, <1>6 DEF SpacingInv

\* Alerts of one mill and type are decided at least a suppression period apart, for
\* any period, any mills and readings, and however the clock is set
\* (alert_system.cpp:31-46, 72-153).
THEOREM SpacingCorrect == Spec => []SuppressionSpacing
<1>1. Init => SpacingInv
  BY EmptySeq DEF Init, AlertInit, SpacingInv, TimersCover, CreatingIsDue, SuppressionSpacing
<1>2. TypeInv /\ SpacingInv /\ [Next]_vars => SpacingInv'
  <2> SUFFICES ASSUME TypeInv, SpacingInv, [Next]_vars PROVE SpacingInv'
    OBVIOUS
  <2>1. CASE RunCheck /\ worker' = "create"
    BY <2>1, RaiseKeepsSpacing
  <2>2. CASE RunCheck /\ worker' # "create"
    BY <2>2, PassKeepsAlerts, FrameKeepsSpacing
  <2>3. CASE CreateAlert
    BY <2>3, CreateKeepsSpacing
  <2>4. CASE ~ RunCheck /\ ~ CreateAlert
    BY <2>4, OtherStepsKeepAlerts, FrameKeepsSpacing
  <2> QED BY <2>1, <2>2, <2>3, <2>4
<1>3. SpacingInv => SuppressionSpacing
  BY DEF SpacingInv
<1> QED BY <1>1, <1>2, <1>3, TypeCorrect, PTL DEF Spec

LEMMA FrameKeepsTimers ==
  ASSUME TimerHasAlert, AlertFrame, worker = "create" => UNCHANGED <<worker, batch, check>>
  PROVE  TimerHasAlert'
BY DEF TimerHasAlert, AlertFrame

LEMMA RaiseKeepsTimers ==
  ASSUME TypeInv, TimerHasAlert, RunCheck, worker' = "create"
  PROVE  TimerHasAlert'
<1> DEFINE m == Head(batch).mill
           t == CheckOrder[check]
<1>1. /\ UNCHANGED <<active_alerts, batch, check>>
      /\ \A n \in Mills, u \in AlertTypes :
           n # m \/ u # t => last_alert_times'[n][u] = last_alert_times[n][u]
  BY RaiseRestartsTimer
<1>2. worker # "create"
  BY DEF RunCheck
<1> QED BY <1>1, <1>2 DEF TimerHasAlert

LEMMA CreateKeepsTimers ==
  ASSUME TypeInv, TimerHasAlert, CreateAlert
  PROVE  TimerHasAlert'
<1> DEFINE m == Head(batch).mill
           t == CheckOrder[check]
           n == Len(active_alerts)
<1>1. /\ n \in Nat /\ Len(active_alerts') = n + 1
      /\ \A i \in 1..n : active_alerts'[i] = active_alerts[i]
      /\ active_alerts'[n + 1].mill = m /\ active_alerts'[n + 1].type = t
      /\ active_alerts'[n + 1].raised = last_alert_times[m][t]
      /\ UNCHANGED last_alert_times
  BY CreateAppends
<1> SUFFICES ASSUME NEW k \in Mills, NEW u \in AlertTypes, last_alert_times'[k][u] # Never
             PROVE  \E i \in 1..Len(active_alerts') :
                      /\ active_alerts'[i].mill = k
                      /\ active_alerts'[i].type = u
                      /\ active_alerts'[i].raised = last_alert_times'[k][u]
  BY DEF TimerHasAlert
<1>2. CASE m = k /\ t = u
  BY <1>1, <1>2
<1>3. CASE ~ (m = k /\ t = u)
  <2>1. PICK i \in 1..n : /\ active_alerts[i].mill = k
                          /\ active_alerts[i].type = u
                          /\ active_alerts[i].raised = last_alert_times[k][u]
    BY <1>1, <1>3 DEF TimerHasAlert
  <2>2. i \in 1..Len(active_alerts') /\ active_alerts'[i] = active_alerts[i]
    BY <1>1
  <2> QED BY <1>1, <2>1, <2>2
<1> QED BY <1>2, <1>3

\* Only the thread itself ends the creation of an alert.
LEMMA OtherStepsKeepCreation ==
  ASSUME [Next]_vars, ~ CreateAlert, worker = "create"
  PROVE  UNCHANGED <<worker, batch, check>>
<1> USE DEF queueVars, workerVars, mainVars, reportVars, metricVars, alertVars
<1>1. ASSUME NEW r \in Readings, inject_test_message(r) PROVE UNCHANGED <<worker, batch, check>>
  BY <1>1 DEF inject_test_message
<1>2. CASE MainStep
  BY <1>1, <1>2 DEF MainStep, CountRefusal, TestShutdown, StartDrain, DrainAlert, EndDrain,
     SetSmokeGauge, Report, ReadDropped, AddDropped, StopAlarm, JoinAlarm
<1>3. CASE WorkerStep
  BY <1>3 DEF WorkerStep, TestRunning, PopBatch, NextReading, RunCheck, PushAlert, ExportDrop,
     EndReading, EndBatch
<1>4. CASE Clock \/ sigint_handler
  BY <1>4 DEF Clock, sigint_handler
<1>5. CASE UNCHANGED vars
  BY <1>5 DEF vars
<1> QED BY <1>2, <1>3, <1>4, <1>5 DEF Next

\* A timer that suppresses was started by an alert that exists, or by the one being
\* created (alert_system.cpp:44, 48-70).
THEOREM TimersCorrect == Spec => []TimerHasAlert
<1>1. Init => TimerHasAlert
  BY DEF Init, AlertInit, TimerHasAlert
<1>2. TypeInv /\ TimerHasAlert /\ [Next]_vars => TimerHasAlert'
  <2> SUFFICES ASSUME TypeInv, TimerHasAlert, [Next]_vars PROVE TimerHasAlert'
    OBVIOUS
  <2>1. CASE RunCheck /\ worker' = "create"
    BY <2>1, RaiseKeepsTimers
  <2>2. CASE RunCheck /\ worker' # "create"
    BY <2>2, PassKeepsAlerts, FrameKeepsTimers DEF RunCheck
  <2>3. CASE CreateAlert
    BY <2>3, CreateKeepsTimers
  <2>4. CASE ~ RunCheck /\ ~ CreateAlert
    BY <2>4, OtherStepsKeepAlerts, OtherStepsKeepCreation, FrameKeepsTimers
  <2> QED BY <2>1, <2>2, <2>3, <2>4
<1> QED BY <1>1, <1>2, TypeCorrect, PTL DEF Spec

-----------------------------------------------------------------------------
(* The way of the alerts *)

\* Four steps move an alert: nothing else touches the four places it can be in.
WayFrame == UNCHANGED <<active_alerts, drained, alert_q, out, alert_dropped>>

LEMMA OtherStepsKeepWay ==
  ASSUME [Next]_vars, ~ CreateAlert, ~ PushAlert, ~ DrainAlert
  PROVE  WayFrame
<1> USE DEF WayFrame, queueVars, workerVars, mainVars, reportVars, metricVars, alertVars
<1>1. ASSUME NEW r \in Readings, inject_test_message(r) PROVE WayFrame
  BY <1>1 DEF inject_test_message
<1>2. CASE MainStep
  BY <1>1, <1>2 DEF MainStep, CountRefusal, TestShutdown, StartDrain, EndDrain, SetSmokeGauge,
     Report, ReadDropped, AddDropped, StopAlarm, JoinAlarm
<1>3. CASE WorkerStep
  BY <1>3 DEF WorkerStep, TestRunning, PopBatch, NextReading, RunCheck, CheckPasses, CheckRaises,
     ExportDrop, EndReading, EndBatch
<1>4. CASE Clock \/ sigint_handler
  BY <1>4 DEF Clock, ClockStep, sigint_handler
<1>5. CASE UNCHANGED vars
  BY <1>5 DEF vars
<1> QED BY <1>2, <1>3, <1>4, <1>5 DEF Next

LEMMA WayTypes ==
  ASSUME TypeInv
  PROVE  /\ Len(active_alerts) \in Nat
         /\ drained \in Seq(1..Len(active_alerts)) /\ Len(drained) \in Nat
         /\ alert_q \in Seq(1..Len(active_alerts)) /\ Len(alert_q) \in Nat
         /\ out \in Seq(1..Len(active_alerts)) /\ Len(out) \in Nat
         /\ alert_dropped \in Nat
<1>1. /\ drained \in Seq(1..Len(active_alerts))
      /\ alert_q \in Seq(1..Len(active_alerts))
      /\ out \in Seq(1..Len(active_alerts))
      /\ alert_dropped \in Nat
  BY DEF TypeInv, TypeOK
<1>2. Len(active_alerts) \in Nat
  BY LenProperties DEF TypeInv, TypeOK, AlertTypeOK
<1> QED BY <1>1, <1>2, LenProperties

\* No alert AlertSystem created is lost without being counted, for any capacity of
\* the alert queue (alarm_mqtt.cpp:75-104).
THEOREM AccountingCorrect == Spec => []AlertsAccountedFor
<1>1. Init => AlertsAccountedFor
  BY EmptySeq DEF Init, AlertInit, AlertsAccountedFor
<1>2. TypeInv /\ AlertsAccountedFor /\ [Next]_vars => AlertsAccountedFor'
  <2> SUFFICES ASSUME TypeInv, AlertsAccountedFor, [Next]_vars PROVE AlertsAccountedFor'
    OBVIOUS
  <2>1. CASE CreateAlert
    <3>1. Len(active_alerts') = Len(active_alerts) + 1
      BY <2>1, CreateAppends
    <3>2. Len(active_alerts) + 1 \in Nat /\ out \in Seq(Nat)
      <4>1. 1..Len(active_alerts) \subseteq Nat
        BY WayTypes
      <4> QED BY <4>1, WayTypes, SeqMonotonic
    <3>3. Len(out') = Len(out) + 1
      BY <2>1, <3>2, AppendProperties DEF CreateAlert
    <3>4. UNCHANGED <<drained, alert_q, alert_dropped>>
      BY <2>1 DEF CreateAlert, queueVars, mainVars
    <3> QED BY <3>1, <3>3, <3>4, WayTypes DEF AlertsAccountedFor
  <2>2. CASE PushAlert
    <3>1. Len(out') = Len(out) - 1 /\ Head(out) \in 1..Len(active_alerts)
      BY <2>2, WayTypes, HeadTailProperties DEF PushAlert
    <3>2. \/ Len(alert_q') = Len(alert_q) + 1 /\ UNCHANGED alert_dropped
          \/ alert_dropped' = alert_dropped + 1 /\ UNCHANGED alert_q
      BY <2>2, <3>1, WayTypes, AppendProperties DEF PushAlert
    <3>3. UNCHANGED <<active_alerts, drained>>
      BY <2>2 DEF PushAlert, alertVars, mainVars
    <3>4. Len(alert_q') + alert_dropped' = Len(alert_q) + alert_dropped + 1
      BY <3>2, WayTypes
    <3>5. Len(alert_q') \in Int /\ alert_dropped' \in Int
      BY <3>2, WayTypes
    <3>6. Len(active_alerts') = Len(active_alerts) /\ Len(drained') = Len(drained)
      BY <3>3
    <3>7. Len(active_alerts) = Len(drained) + Len(alert_q) + Len(out) + alert_dropped
      BY DEF AlertsAccountedFor
    <3>8. /\ Len(out) \in Int /\ Len(drained) \in Int
          /\ Len(alert_q) \in Int /\ alert_dropped \in Int
      BY WayTypes
    <3>9. Len(active_alerts') = Len(drained') + Len(alert_q') + Len(out') + alert_dropped'
      BY <3>1, <3>4, <3>5, <3>6, <3>7, <3>8
    <3> QED BY <3>9 DEF AlertsAccountedFor
  <2>3. CASE DrainAlert
    <3>1. Len(alert_q') = Len(alert_q) - 1 /\ Head(alert_q) \in 1..Len(active_alerts)
      BY <2>3, WayTypes, HeadTailProperties DEF DrainAlert
    <3>2. Len(drained') = Len(drained) + 1
      BY <2>3, <3>1, WayTypes, AppendProperties DEF DrainAlert
    <3>3. UNCHANGED <<active_alerts, out, alert_dropped>>
      BY <2>3 DEF DrainAlert, alertVars, workerVars
    <3> QED BY <3>1, <3>2, <3>3, WayTypes DEF AlertsAccountedFor
  <2>4. CASE ~ CreateAlert /\ ~ PushAlert /\ ~ DrainAlert
    BY <2>4, OtherStepsKeepWay DEF WayFrame, AlertsAccountedFor
  <2> QED BY <2>1, <2>2, <2>3, <2>4
<1> QED BY <1>1, <1>2, TypeCorrect, PTL DEF Spec

\* Appending something newer, and taking the oldest away, keep sequences in order.
LEMMA AppendKeepsOrder ==
  ASSUME NEW s \in Seq(Int), NEW e \in Int
  PROVE  /\ Rising(s) /\ (\A i \in 1..Len(s) : s[i] < e) => Rising(Append(s, e))
         /\ \A t \in Seq(Int) : Before(s, t) /\ (\A j \in 1..Len(t) : e < t[j])
                                  => Before(Append(s, e), t)
         /\ \A t \in Seq(Int) : Before(t, s) /\ (\A j \in 1..Len(t) : t[j] < e)
                                  => Before(t, Append(s, e))
<1>1. Len(s) \in Nat /\ Len(Append(s, e)) = Len(s) + 1
  BY LenProperties, AppendProperties
<1>2. \A i \in 1..Len(s) : Append(s, e)[i] = s[i]
  BY AppendProperties
<1>3. Append(s, e)[Len(s) + 1] = e
  BY AppendProperties
<1>4. \A i \in 1..Len(Append(s, e)) : i \in 1..Len(s) \/ i = Len(s) + 1
  BY <1>1
<1>5. ASSUME Rising(s), \A i \in 1..Len(s) : s[i] < e PROVE Rising(Append(s, e))
  <2> SUFFICES ASSUME NEW i \in 1..Len(Append(s, e)), NEW j \in 1..Len(Append(s, e)), i < j
               PROVE  Append(s, e)[i] < Append(s, e)[j]
    BY DEF Rising
  <2>1. i \in 1..Len(s)
    BY <1>1
  <2>2. CASE j \in 1..Len(s)
    BY <1>2, <1>5, <2>1, <2>2 DEF Rising
  <2>3. CASE j = Len(s) + 1
    BY <1>2, <1>3, <1>5, <2>1, <2>3
  <2> QED BY <1>4, <2>2, <2>3
<1>6. ASSUME NEW t \in Seq(Int), Before(s, t), \A j \in 1..Len(t) : e < t[j]
      PROVE  Before(Append(s, e), t)
  <2> SUFFICES ASSUME NEW i \in 1..Len(Append(s, e)), NEW j \in 1..Len(t)
               PROVE  Append(s, e)[i] < t[j]
    BY DEF Before
  <2> QED BY <1>2, <1>3, <1>4, <1>6 DEF Before
<1>7. ASSUME NEW t \in Seq(Int), Before(t, s), \A j \in 1..Len(t) : t[j] < e
      PROVE  Before(t, Append(s, e))
  <2> SUFFICES ASSUME NEW i \in 1..Len(t), NEW j \in 1..Len(Append(s, e))
               PROVE  t[i] < Append(s, e)[j]
    BY DEF Before
  <2> QED BY <1>2, <1>3, <1>4, <1>7 DEF Before
<1> QED BY <1>5, <1>6, <1>7

LEMMA TailKeepsOrder ==
  ASSUME NEW s \in Seq(Int), s # <<>>
  PROVE  /\ Rising(s) => Rising(Tail(s)) /\ \A i \in 1..Len(Tail(s)) : Head(s) < Tail(s)[i]
         /\ \A t \in Seq(Int) :
              Before(s, t) => Before(Tail(s), t) /\ \A j \in 1..Len(t) : Head(s) < t[j]
         /\ \A t \in Seq(Int) :
              Before(t, s) => Before(t, Tail(s)) /\ \A j \in 1..Len(t) : t[j] < Head(s)
<1>1. /\ Len(s) \in Nat \ {0} /\ Len(Tail(s)) = Len(s) - 1
      /\ \A i \in 1..Len(Tail(s)) : Tail(s)[i] = s[i + 1]
  BY EmptySeq, HeadTailProperties
<1>2. Head(s) = s[1]
  OBVIOUS
<1>3. /\ 1 \in 1..Len(s)
      /\ \A i \in 1..Len(Tail(s)) : i + 1 \in 1..Len(s) /\ 1 < i + 1
  BY <1>1
<1>4. ASSUME Rising(s)
      PROVE  Rising(Tail(s)) /\ \A i \in 1..Len(Tail(s)) : Head(s) < Tail(s)[i]
  <2>1. ASSUME NEW i \in 1..Len(Tail(s)), NEW j \in 1..Len(Tail(s)), i < j
        PROVE  Tail(s)[i] < Tail(s)[j]
    <3>1. i + 1 \in 1..Len(s) /\ j + 1 \in 1..Len(s) /\ i + 1 < j + 1
      BY <1>3, <2>1
    <3>2. s[i + 1] < s[j + 1]
      BY <1>4, <3>1 DEF Rising
    <3> QED BY <1>1, <3>2
  <2> QED BY <1>1, <1>2, <1>3, <1>4, <2>1 DEF Rising
<1> QED BY <1>1, <1>2, <1>3, <1>4 DEF Before

\* main() sees the alerts in the order in which they were created, whatever the
\* capacity of the alert queue makes it miss (alarm_mqtt.cpp:76-104, main.cpp:57).
THEOREM OrderCorrect == Spec => []AlertsInOrder
<1>1. Init => AlertsInOrder
  BY EmptySeq DEF Init, AlertInit, AlertsInOrder, Rising, Before
<1>2. TypeInv /\ AlertsInOrder /\ [Next]_vars => AlertsInOrder'
  <2> SUFFICES ASSUME TypeInv, AlertsInOrder, [Next]_vars PROVE AlertsInOrder'
    OBVIOUS
  <2> DEFINE n == Len(active_alerts)
  <2>0. /\ n \in Nat
        /\ drained \in Seq(Int) /\ alert_q \in Seq(Int) /\ out \in Seq(Int)
        /\ \A i \in 1..Len(drained) : drained[i] \in 1..n
        /\ \A i \in 1..Len(alert_q) : alert_q[i] \in 1..n
        /\ \A i \in 1..Len(out) : out[i] \in 1..n
    <3>1. 1..n \subseteq Int
      BY WayTypes
    <3> QED BY <3>1, WayTypes, SeqMonotonic, ElementOfSeq
  <2>o. /\ Rising(drained) /\ Rising(alert_q) /\ Rising(out)
        /\ Before(drained, alert_q) /\ Before(drained, out) /\ Before(alert_q, out)
    BY DEF AlertsInOrder
  <2>1. CASE CreateAlert
    <3>1. out' = Append(out, n + 1) /\ UNCHANGED <<drained, alert_q>>
      BY <2>1 DEF CreateAlert, queueVars, mainVars
    <3>2. n + 1 \in Int /\ \A i \in 1..n : i < n + 1
      BY <2>0
    <3>3. /\ \A i \in 1..Len(drained) : drained[i] < n + 1
          /\ \A i \in 1..Len(alert_q) : alert_q[i] < n + 1
          /\ \A i \in 1..Len(out) : out[i] < n + 1
      BY <2>0, <3>2
    <3> HIDE DEF n
    <3>4. Rising(Append(out, n + 1)) /\ Before(drained, Append(out, n + 1))
            /\ Before(alert_q, Append(out, n + 1))
      BY <2>0, <2>o, <3>2, <3>3, AppendKeepsOrder
    <3> QED BY <2>o, <3>1, <3>4 DEF AlertsInOrder
  <2>2. CASE PushAlert
    <3>1. /\ out # <<>> /\ out' = Tail(out) /\ UNCHANGED drained
          /\ alert_q' = alert_q \/ alert_q' = Append(alert_q, Head(out))
      BY <2>2 DEF PushAlert, mainVars
    <3>2. /\ Rising(Tail(out)) /\ \A i \in 1..Len(Tail(out)) : Head(out) < Tail(out)[i]
          /\ Before(drained, Tail(out)) /\ \A i \in 1..Len(drained) : drained[i] < Head(out)
          /\ Before(alert_q, Tail(out)) /\ \A i \in 1..Len(alert_q) : alert_q[i] < Head(out)
      BY <2>0, <2>o, <3>1, TailKeepsOrder
    <3>3. Head(out) \in Int /\ Tail(out) \in Seq(Int)
      BY <2>0, <3>1, HeadTailProperties
    <3>4. /\ Rising(Append(alert_q, Head(out))) /\ Before(drained, Append(alert_q, Head(out)))
          /\ Before(Append(alert_q, Head(out)), Tail(out))
      BY <2>0, <2>o, <3>2, <3>3, AppendKeepsOrder
    <3> QED BY <2>o, <3>1, <3>2, <3>4 DEF AlertsInOrder
  <2>3. CASE DrainAlert
    <3>1. /\ alert_q # <<>> /\ alert_q' = Tail(alert_q)
          /\ drained' = Append(drained, Head(alert_q)) /\ UNCHANGED out
      BY <2>3 DEF DrainAlert, workerVars
    <3>2. /\ Rising(Tail(alert_q))
          /\ \A i \in 1..Len(Tail(alert_q)) : Head(alert_q) < Tail(alert_q)[i]
          /\ Before(drained, Tail(alert_q))
          /\ \A i \in 1..Len(drained) : drained[i] < Head(alert_q)
          /\ Before(Tail(alert_q), out) /\ \A i \in 1..Len(out) : Head(alert_q) < out[i]
      BY <2>0, <2>o, <3>1, TailKeepsOrder
    <3>3. Head(alert_q) \in Int /\ Tail(alert_q) \in Seq(Int)
      BY <2>0, <3>1, HeadTailProperties
    <3>4. /\ Rising(Append(drained, Head(alert_q)))
          /\ Before(Append(drained, Head(alert_q)), Tail(alert_q))
          /\ Before(Append(drained, Head(alert_q)), out)
      BY <2>0, <2>o, <3>2, <3>3, AppendKeepsOrder
    <3> QED BY <2>o, <3>1, <3>2, <3>4 DEF AlertsInOrder
  <2>4. CASE ~ CreateAlert /\ ~ PushAlert /\ ~ DrainAlert
    BY <2>4, OtherStepsKeepWay DEF WayFrame, AlertsInOrder
  <2> QED BY <2>1, <2>2, <2>3, <2>4
<1> QED BY <1>1, <1>2, TypeCorrect, PTL DEF Spec

-----------------------------------------------------------------------------
(* The drop counters *)

DropFrame ==
  UNCHANGED <<sensor_dropped, alert_dropped, dropped_metric, read_dropped, reported,
              BeingCounted("sensor"), BeingCounted("alert")>>

LEMMA OtherStepsKeepDrops ==
  ASSUME [Next]_vars, ~ (\E r \in Readings : inject_test_message(r)), ~ CountRefusal,
         ~ Report, ~ PushAlert, ~ ExportDrop
  PROVE  DropFrame
<1> USE DEF DropFrame, BeingCounted, queueVars, workerVars, mainVars, reportVars, metricVars
<1>1. CASE MainStep
  <2>1. UNCHANGED <<sensor_dropped, alert_dropped, dropped_metric, read_dropped, reported, worker>>
    BY <1>1 DEF MainStep, TestShutdown, StartDrain, DrainAlert, EndDrain, SetSmokeGauge,
       StopAlarm, JoinAlarm
  <2>2. main # "refused" /\ main' # "refused"
    BY <1>1 DEF MainStep, TestShutdown, StartDrain, DrainAlert, EndDrain, SetSmokeGauge,
       StopAlarm, JoinAlarm
  <2> QED BY <2>1, <2>2
<1>2. CASE WorkerStep
  <2>1. UNCHANGED <<sensor_dropped, alert_dropped, dropped_metric, read_dropped, reported, main>>
    BY <1>2 DEF WorkerStep, TestRunning, PopBatch, NextReading, RunCheck, CreateAlert,
       EndReading, EndBatch
  <2>2. worker # "count" /\ worker' # "count"
    BY <1>2 DEF WorkerStep, TestRunning, PopBatch, NextReading, RunCheck, CreateAlert,
       EndReading, EndBatch, AfterCheck
  <2> QED BY <2>1, <2>2
<1>3. CASE Clock \/ sigint_handler
  BY <1>3 DEF Clock, sigint_handler
<1>4. CASE UNCHANGED vars
  BY <1>4 DEF vars
<1> QED BY <1>1, <1>2, <1>3, <1>4 DEF Next

LEMMA DropTypes ==
  ASSUME TypeInv, NEW q \in Queues
  PROVE  /\ DroppedOf(q) \in Nat /\ BeingCounted(q) \in {0, 1}
         /\ dropped_metric \in [Queues -> Nat] /\ dropped_metric[q] \in Nat
         /\ read_dropped \in [Queues -> Nat] /\ read_dropped[q] \in Nat
         /\ reported \in [Queues -> Nat] /\ reported[q] \in Nat
BY DEF TypeInv, TypeOK, DroppedOf, BeingCounted

\* A report holds a number only between reading it and adding it.
NothingRead ==
  /\ main \notin {"read", "add"} => read_dropped["sensor"] = 0
  /\ main \notin {"add", "added"} => read_dropped["alert"] = 0

LEMMA OnlyReportReads ==
  ASSUME [Next]_vars, ~ Report, NothingRead
  PROVE  NothingRead'
<1> USE DEF mainVars, reportVars, NothingRead
<1>1. ASSUME UNCHANGED read_dropped, main' = main \/ main \notin {"read", "add", "added"}
      PROVE  NothingRead'
  BY <1>1
<1>2. ASSUME NEW r \in Readings, inject_test_message(r) PROVE NothingRead'
  BY <1>1, <1>2 DEF inject_test_message
<1>3. CASE MainStep
  BY <1>1, <1>2, <1>3 DEF MainStep, CountRefusal, TestShutdown, StartDrain, DrainAlert, EndDrain,
     SetSmokeGauge, StopAlarm, JoinAlarm
<1>4. CASE WorkerStep
  BY <1>4 DEF WorkerStep, TestRunning, PopBatch, NextReading, RunCheck, CreateAlert, PushAlert,
     ExportDrop, EndReading, EndBatch
<1>5. CASE Clock \/ sigint_handler
  BY <1>5 DEF Clock, sigint_handler
<1>6. CASE UNCHANGED vars
  BY <1>6 DEF vars
<1> QED BY <1>3, <1>4, <1>5, <1>6 DEF Next

\* The account of one queue.
Balanced(q) ==
  dropped_metric[q] + BeingCounted(q) + read_dropped[q] = DroppedOf(q) + reported[q]

LEMMA ReportKeepsBalance ==
  ASSUME TypeInv, NothingRead, \A q \in Queues : Balanced(q), Report
  PROVE  NothingRead' /\ \A q \in Queues : Balanced(q)'
<1>1. /\ \A q \in Queues : DroppedOf(q)' = DroppedOf(q) /\ BeingCounted(q)' = BeingCounted(q)
      /\ main' # "refused"
  BY DEF Report, ReadDropped, AddDropped, DroppedOf, BeingCounted, queueVars, workerVars
<1>2. ASSUME NEW q \in Queues, NEW here, NEW next, ReadDropped(q, here, next),
             read_dropped[q] = 0
      PROVE  \A p \in Queues : Balanced(p)'
  <2> SUFFICES ASSUME NEW p \in Queues PROVE Balanced(p)'
    OBVIOUS
  <2>1. UNCHANGED dropped_metric
    BY <1>2 DEF ReadDropped, metricVars
  <2>2. CASE p = q
    <3>1. read_dropped'[p] = DroppedOf(p) /\ reported'[p] = reported[p] + DroppedOf(p)
      BY <1>2, <2>2, DropTypes DEF ReadDropped
    <3> QED BY <1>1, <1>2, <2>1, <2>2, <3>1, DropTypes DEF Balanced
  <2>3. CASE p # q
    <3>1. read_dropped'[p] = read_dropped[p] /\ reported'[p] = reported[p]
      BY <1>2, <2>3, DropTypes DEF ReadDropped
    <3> QED BY <1>1, <2>1, <3>1 DEF Balanced
  <2> QED BY <2>2, <2>3
<1>3. ASSUME NEW q \in Queues, NEW here, NEW next, AddDropped(q, here, next)
      PROVE  \A p \in Queues : Balanced(p)'
  <2> SUFFICES ASSUME NEW p \in Queues PROVE Balanced(p)'
    OBVIOUS
  <2>1. UNCHANGED reported
    BY <1>3 DEF AddDropped
  <2>2. CASE p = q
    <3>1. read_dropped'[p] = 0 /\ dropped_metric'[p] = dropped_metric[p] + read_dropped[p]
      BY <1>3, <2>2, DropTypes DEF AddDropped
    <3> QED BY <1>1, <2>1, <3>1, DropTypes DEF Balanced
  <2>3. CASE p # q
    <3>1. read_dropped'[p] = read_dropped[p] /\ dropped_metric'[p] = dropped_metric[p]
      BY <1>3, <2>3, DropTypes DEF AddDropped
    <3> QED BY <1>1, <2>1, <3>1 DEF Balanced
  <2> QED BY <2>2, <2>3
<1>4. /\ "sensor" \in Queues /\ "alert" \in Queues
      /\ read_dropped \in [Queues -> Nat]
  BY DropTypes DEF Queues
<1>5. CASE ReadDropped("sensor", "tick", "read")
  <2>1. read_dropped["sensor"] = 0 /\ read_dropped["alert"] = 0 /\ main' = "read"
    BY <1>5 DEF ReadDropped, NothingRead
  <2>2. read_dropped'["alert"] = read_dropped["alert"]
    BY <1>4, <1>5 DEF ReadDropped
  <2> QED BY <1>2, <1>4, <1>5, <2>1, <2>2 DEF NothingRead
<1>6. CASE ReadDropped("alert", "read", "add")
  <2>1. read_dropped["alert"] = 0 /\ main' = "add"
    BY <1>6 DEF ReadDropped, NothingRead
  <2> QED BY <1>2, <1>4, <1>6, <2>1 DEF NothingRead
<1>7. CASE AddDropped("sensor", "add", "added")
  <2>1. main' = "added" /\ read_dropped'["sensor"] = 0
    BY <1>4, <1>7 DEF AddDropped
  <2> QED BY <1>3, <1>4, <1>7, <2>1 DEF NothingRead
<1>8. CASE AddDropped("alert", "added", "loop")
  <2>1. /\ main' = "loop" /\ read_dropped["sensor"] = 0
        /\ read_dropped'["alert"] = 0 /\ read_dropped'["sensor"] = read_dropped["sensor"]
    BY <1>4, <1>8 DEF AddDropped, NothingRead
  <2> QED BY <1>3, <1>4, <1>8, <2>1 DEF NothingRead
<1> QED BY <1>5, <1>6, <1>7, <1>8 DEF Report

\* The step that counts the drop of queue q, and the ones before it.
LEMMA CountKeepsBalance ==
  ASSUME TypeInv, NEW q \in Queues, Balanced(q),
         UNCHANGED <<read_dropped, reported>>,
         \/ UNCHANGED <<DroppedOf(q), BeingCounted(q), dropped_metric[q]>>
         \/ /\ DroppedOf(q)' = DroppedOf(q) + 1 /\ BeingCounted(q) = 0 /\ BeingCounted(q)' = 1
            /\ UNCHANGED dropped_metric[q]
         \/ /\ UNCHANGED DroppedOf(q) /\ BeingCounted(q) = 1 /\ BeingCounted(q)' = 0
            /\ dropped_metric'[q] = dropped_metric[q] + 1
  PROVE  Balanced(q)'
BY DropTypes DEF Balanced

\* The exported drop counter of each queue is the drops of that queue and, once more for
\* every report, the drops before that report, exactly, for any capacities, any number
\* of reports and any interleaving of main() with the thread (alarm_mqtt.cpp:89-92,
\* mqtt_receiver.cpp:78-80, main.cpp:193-199).
THEOREM DropsCorrect == Spec => []DropsCountedAgain
<1> DEFINE DropInv == NothingRead /\ \A q \in Queues : Balanced(q)
<1>1. Init => DropInv
  BY DEF Init, NothingRead, Balanced, DroppedOf, BeingCounted, Queues
<1>2. TypeInv /\ DropInv /\ [Next]_vars => DropInv'
  <2> SUFFICES ASSUME TypeInv, DropInv, [Next]_vars PROVE DropInv'
    OBVIOUS
  <2>q. \A q \in Queues : q = "sensor" \/ q = "alert"
    BY DEF Queues
  <2>1. CASE Report
    BY <2>1, ReportKeepsBalance
  <2>2. ASSUME ~ Report PROVE NothingRead'
    BY <2>2, OnlyReportReads
  <2>3. ASSUME NEW r \in Readings, inject_test_message(r), NEW q \in Queues
        PROVE  Balanced(q)'
    <3>1. UNCHANGED <<read_dropped, reported, dropped_metric, alert_dropped, worker>>
      BY <2>3 DEF inject_test_message, reportVars, metricVars, workerVars
    <3>2. main = "inject" /\ \/ UNCHANGED <<sensor_dropped, main>>
                             \/ sensor_dropped' = sensor_dropped + 1 /\ main' = "refused"
      BY <2>3 DEF inject_test_message
    <3> QED BY <2>q, <3>1, <3>2, CountKeepsBalance DEF DroppedOf, BeingCounted
  <2>4. ASSUME CountRefusal, NEW q \in Queues PROVE Balanced(q)'
    <3>1. /\ UNCHANGED <<read_dropped, reported, sensor_dropped, alert_dropped, worker>>
          /\ main = "refused" /\ main' = "inject"
      BY <2>4 DEF CountRefusal, reportVars, queueVars, workerVars
    <3>2. /\ dropped_metric'["sensor"] = dropped_metric["sensor"] + 1
          /\ dropped_metric'["alert"] = dropped_metric["alert"]
      BY <2>4, DropTypes DEF CountRefusal, Queues
    <3> QED BY <2>q, <3>1, <3>2, CountKeepsBalance DEF DroppedOf, BeingCounted
  <2>5. ASSUME PushAlert, NEW q \in Queues PROVE Balanced(q)'
    <3>1. UNCHANGED <<read_dropped, reported, dropped_metric, sensor_dropped, main>>
      BY <2>5 DEF PushAlert, mainVars, reportVars, metricVars
    <3>2. worker = "push" /\ \/ UNCHANGED <<alert_dropped, worker>>
                             \/ alert_dropped' = alert_dropped + 1 /\ worker' = "count"
      BY <2>5 DEF PushAlert
    <3> QED BY <2>q, <3>1, <3>2, CountKeepsBalance DEF DroppedOf, BeingCounted
  <2>6. ASSUME ExportDrop, NEW q \in Queues PROVE Balanced(q)'
    <3>1. /\ UNCHANGED <<read_dropped, reported, sensor_dropped, alert_dropped, main>>
          /\ worker = "count" /\ worker' = "push"
      BY <2>6 DEF ExportDrop, mainVars, reportVars, queueVars
    <3>2. /\ dropped_metric'["alert"] = dropped_metric["alert"] + 1
          /\ dropped_metric'["sensor"] = dropped_metric["sensor"]
      BY <2>6, DropTypes DEF ExportDrop, Queues
    <3> QED BY <2>q, <3>1, <3>2, CountKeepsBalance DEF DroppedOf, BeingCounted
  <2>7. ASSUME DropFrame, NEW q \in Queues PROVE Balanced(q)'
    <3>1. UNCHANGED <<DroppedOf(q), BeingCounted(q), dropped_metric[q]>>
      BY <2>q, <2>7 DEF DropFrame, DroppedOf
    <3> QED BY <2>7, <3>1, CountKeepsBalance DEF DropFrame
  <2> QED BY <2>1, <2>2, <2>3, <2>4, <2>5, <2>6, <2>7, OtherStepsKeepDrops
<1>3. DropInv => DropsCountedAgain
  BY DEF Balanced, DropsCountedAgain
<1> QED BY <1>1, <1>2, <1>3, TypeCorrect, PTL DEF Spec

-----------------------------------------------------------------------------
(* The alert queue is a MessageQueue *)

\* Both threads together use it as the abstract queue: what main() drained is what it
\* handed over, one alert at a time.
AlertQueue == INSTANCE MessageQueue WITH
  Messages <- Nat, Capacity <- AlertCapacity, BulkMax <- 1,
  queue <- alert_q, dropped <- alert_dropped, received <- drained

LEMMA AlertQueueSteps == TypeInv /\ [Next]_vars => [AlertQueue!Next]_AlertQueue!vars
<1> SUFFICES ASSUME TypeInv, [Next]_vars PROVE [AlertQueue!Next]_AlertQueue!vars
  OBVIOUS
<1>1. CASE PushAlert
  <2>1. Head(out) \in Nat
    <3>1. Head(out) \in 1..Len(active_alerts)
      BY <1>1, WayTypes, HeadTailProperties DEF PushAlert
    <3> QED BY <3>1, WayTypes
  <2>2. drained' = drained
    BY <1>1 DEF PushAlert, mainVars
  <2>3. AlertQueue!Push(Head(out)) \/ AlertQueue!Refuse
    BY <1>1, <2>2 DEF PushAlert, MayAccept, MayRefuse, AlertQueue!Push, AlertQueue!Refuse,
       AlertQueue!MayAccept, AlertQueue!MayRefuse
  <2> QED BY <2>1, <2>3 DEF AlertQueue!Next
<1>2. CASE DrainAlert
  <2>1. /\ alert_q # <<>> /\ alert_q' = Tail(alert_q) /\ alert_dropped' = alert_dropped
        /\ drained' = Append(drained, Head(alert_q))
    BY <1>2 DEF DrainAlert
  <2>2. BulkOf(alert_q, 1) = <<Head(alert_q)>> /\ BulkRest(alert_q, 1) = Tail(alert_q)
    BY <2>1, WayTypes, PopIsBulkOfOne
  <2>3. drained' = drained \o BulkOf(alert_q, 1)
    <3>1. Head(alert_q) \in 1..Len(active_alerts)
      BY <2>1, WayTypes, HeadTailProperties
    <3> QED BY <2>1, <2>2, <3>1, WayTypes, AppendIsConcat
  <2>4. AlertQueue!PopBulk(1)
    BY <2>1, <2>2, <2>3 DEF AlertQueue!PopBulk, BulkOf, BulkRest, BulkSize,
       AlertQueue!BulkOf, AlertQueue!BulkRest, AlertQueue!BulkSize
  <2> QED BY <2>4 DEF AlertQueue!Next
<1>3. CASE CreateAlert
  BY <1>3 DEF CreateAlert, queueVars, mainVars, AlertQueue!vars
<1>4. CASE ~ PushAlert /\ ~ DrainAlert /\ ~ CreateAlert
  BY <1>4, OtherStepsKeepWay DEF WayFrame, AlertQueue!vars
<1> QED BY <1>1, <1>2, <1>3, <1>4

\* AlarmMqtt and main(), whatever else they do, do with the alert queue what a
\* MessageQueue allows; with the refinement by LockFreeQueue, the pipeline may be built
\* on either implementation (alarm_mqtt.cpp:76-93, main.cpp:57).
THEOREM AlertQueueCorrect == Spec => AlertQueue!Spec
<1>1. Init => AlertQueue!Init
  BY DEF Init, AlertQueue!Init
<1> QED BY <1>1, AlertQueueSteps, TypeCorrect, PTL DEF Spec, AlertQueue!Spec
=============================================================================
