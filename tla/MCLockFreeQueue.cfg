CONSTANTS
  Producers = {p1, p2}
  Capacity = 2
  BulkMax = 2
  MaxPushes = 3
  SizeBits = 4
  Growable = TRUE
SPECIFICATION Spec
INVARIANTS SizeTracksQueue WrapsOnlyBehindAPush PerProducerOrder EveryPushAccountedFor
PROPERTIES ImplementsMessageQueue GaugeSettles
