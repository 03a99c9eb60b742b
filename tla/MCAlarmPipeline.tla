--------------------------- MODULE MCAlarmPipeline ---------------------------
(***************************************************************************)
(* Instances of AlarmPipeline for TLC.  The readings: one out of two limits*)
(* at once, one of another mill, and one that fails validation.            *)
(***************************************************************************)
EXTENDS AlarmPipeline

Quiet == [t \in AlertTypes |-> "none"]

MCReadings == {
  [mill |-> 1, valid |-> TRUE,  level |-> [Quiet EXCEPT !["WEAR"] = "CRITICAL",
                                                        !["ABNORMAL_PRESSURE"] = "WARNING"]],
  [mill |-> 2, valid |-> TRUE,  level |-> [Quiet EXCEPT !["WEAR"] = "WARNING"]],
  [mill |-> 1, valid |-> FALSE, level |-> Quiet] }

\* The smoke test of main.cpp sends one mill only.
SmokeReadings == {r \in MCReadings : r.mill = 1}
=============================================================================
