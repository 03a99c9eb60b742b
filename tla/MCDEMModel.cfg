CONSTANTS
  CoarseScales = {1, 2}
  NumSteps = 1
  FragmentCounts = {3, 4}
  CountSize = 256
  MaxParticles = 4
  MaxCalls = 4
SPECIFICATION Spec
INVARIANTS IdsUnique ResultCounted
CHECK_DEADLOCK FALSE
