CONSTANTS
  Services = {"dem"}
  Kinds <- MCKinds
  BatchMax <- MCBatchMax
  ReqCapacity = 3
  RespCapacity = 1
  MaxRequests = 4
  Growable = FALSE
SPECIFICATION ServiceSpec
INVARIANTS RequestsAccountedFor AnsweredInOrder AnswerDropsCounted ExitsOnlyWhenToldAndDone
PROPERTIES RequestsTaken StopReturns
CHECK_DEADLOCK FALSE
