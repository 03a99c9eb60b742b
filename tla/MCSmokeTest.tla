---------------------------- MODULE MCSmokeTest ----------------------------
(***************************************************************************)
(* Instances of SmokeTest for TLC.                                         *)
(***************************************************************************)
EXTENDS SmokeTest, TLC

MCOrder == <<"dem", "opt">>
MCKinds == "dem" :> {"simulate", "generate"} @@ "opt" :> {"optimize"}
MCBatchMax == "dem" :> 2 @@ "opt" :> 1
MCMaxPolls == "dem" :> 2 @@ "opt" :> 3
=============================================================================
