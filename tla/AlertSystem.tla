----------------------------- MODULE AlertSystem -----------------------------
(***************************************************************************)
(* AlertSystem: decides which readings raise an alert and keeps every      *)
(* alert it created.  check_all runs four checks in a fixed order; a check *)
(* that finds a reading out of its limits is suppressed while the last     *)
(* alert of the same mill and type is younger than ALERT_SUPPRESSION_PERIOD*)
(* (all severities share one timer), and otherwise restarts the timer and  *)
(* creates the alert.                                                      *)
(*                                                                         *)
(* The thresholds are abstracted into the level a reading has for each     *)
(* type.  The clock is system_clock, which may be set back.                *)
(***************************************************************************)
EXTENDS Integers, Sequences

CONSTANTS Mills,
          Period,      \* ALERT_SUPPRESSION_PERIOD, in clock units
          MaxClock,    \* bound of the clock
          Never,       \* no entry in last_alert_times_
          Readings     \* the sensor messages that can arrive

AlertTypes == {"WEAR", "LOW_YIELD", "ABNORMAL_SPEED", "ABNORMAL_PRESSURE"}
Severities == {"WARNING", "CRITICAL"}

ASSUME AlertAssumption ==
  /\ Period \in Nat
  /\ MaxClock \in Nat
  /\ Never \notin Int
  /\ \A r \in Readings : /\ r.mill \in Mills
                         /\ r.valid \in BOOLEAN
                         /\ r.level \in [AlertTypes -> Severities \cup {"none"}]

VARIABLES clock,
          last_alert_times,   \* [Mills -> [AlertTypes -> time of the last alert]]
          active_alerts       \* every alert created; its position is its alert_id

alertVars == <<clock, last_alert_times, active_alerts>>

\* check_wear, check_yield, check_speed, check_pressure, in the order of check_all.
CheckOrder == <<"WEAR", "LOW_YIELD", "ABNORMAL_SPEED", "ABNORMAL_PRESSURE">>

AlertInit ==
  /\ clock = 0
  /\ last_alert_times = [m \in Mills |-> [t \in AlertTypes |-> Never]]
  /\ active_alerts = <<>>

\* Time passes, or the clock of the machine is set.
ClockStep ==
  /\ clock' \in 0..MaxClock \ {clock}
  /\ UNCHANGED <<last_alert_times, active_alerts>>

should_suppress_alert(mill, type) ==
  /\ last_alert_times[mill][type] # Never
  /\ clock - last_alert_times[mill][type] < Period

\* The check finds nothing to report, or must not report it yet.
CheckPasses(r, type) ==
  /\ r.level[type] = "none" \/ should_suppress_alert(r.mill, type)
  /\ UNCHANGED alertVars

CheckRaises_NoTimer(r, type) ==     \* faulty: the timer is only ever started once
  /\ r.level[type] # "none" /\ ~ should_suppress_alert(r.mill, type)
  /\ last_alert_times' = IF last_alert_times[r.mill][type] = Never
                         THEN [last_alert_times EXCEPT ![r.mill][type] = clock]
                         ELSE last_alert_times
  /\ UNCHANGED <<clock, active_alerts>>

CheckRaises_WrongMill(r, type) ==   \* faulty: the timer of every mill restarts
  /\ r.level[type] # "none" /\ ~ should_suppress_alert(r.mill, type)
  /\ last_alert_times' = [m \in Mills |-> [last_alert_times[m] EXCEPT ![type] = clock]]
  /\ UNCHANGED <<clock, active_alerts>>

\* The first half of a raising check: the timer restarts ...
CheckRaises(r, type) ==
  /\ r.level[type] # "none"
  /\ ~ should_suppress_alert(r.mill, type)
  /\ last_alert_times' = [last_alert_times EXCEPT ![r.mill][type] = clock]
  /\ UNCHANGED <<clock, active_alerts>>

\* ... and then create_alert stores the alert under a fresh id.  `raised` is the
\* instant of the decision (the timestamp of the alert, which nothing here depends
\* on, is a later reading of the clock).
create_alert(r, type) ==
  /\ active_alerts' = Append(active_alerts,
        [mill |-> r.mill, type |-> type, severity |-> r.level[type],
         raised |-> last_alert_times[r.mill][type]])
  /\ UNCHANGED <<clock, last_alert_times>>

SameKey(a, b) == a.mill = b.mill /\ a.type = b.type

AlertTypeOK ==
  /\ clock \in 0..MaxClock
  /\ last_alert_times \in [Mills -> [AlertTypes -> (0..MaxClock) \cup {Never}]]
  /\ active_alerts \in Seq([mill : Mills, type : AlertTypes, severity : Severities \cup {"none"},
                            raised : (0..MaxClock) \cup {Never}])

\* Two alerts of one mill and one type are decided at least a suppression period
\* apart, in the order of their ids, however the clock is set in between
\* (alert_system.cpp:31-46 with 72-153).
SuppressionSpacing ==
  \A i, j \in 1..Len(active_alerts) :
    i < j /\ SameKey(active_alerts[i], active_alerts[j]) =>
      active_alerts[j].raised >= active_alerts[i].raised + Period
=============================================================================
