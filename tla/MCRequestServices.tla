------------------------- MODULE MCRequestServices -------------------------
(***************************************************************************)
(* Instances of RequestServices for TLC: a batch of two simulations stands *)
(* for sixteen.                                                            *)
(***************************************************************************)
EXTENDS RequestServices, TLC

MCKinds == "dem" :> {"simulate", "generate"}
MCBatchMax == "dem" :> 2
=============================================================================
