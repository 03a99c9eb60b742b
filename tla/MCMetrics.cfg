CONSTANTS
  Observers = {o1, o2}
  NumEdges = 2
  MaxObservations = 1
  Clients = {c1, c2}
  Nobody = Nobody
SPECIFICATION Spec
INVARIANTS BucketsCumulative
PROPERTIES ScrapesGrow RequestsAnswered ServerStops
CHECK_DEADLOCK FALSE
