CONSTANTS
  Services = {"dem", "opt"}
  SmokeOrder <- MCOrder
  Kinds <- MCKinds
  BatchMax <- MCBatchMax
  MaxPolls <- MCMaxPolls
  ReqCapacity = 2
  RespCapacity = 2
  MaxRequests = 1
  Growable = FALSE
SPECIFICATION Spec
INVARIANTS NoThreadOutlivesMain TimedOutIsQueued
PROPERTIES SmokeEnds ShutdownJoinsServices
CHECK_DEADLOCK FALSE
