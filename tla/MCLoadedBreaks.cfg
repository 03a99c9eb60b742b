CONSTANTS
  CoarseScales = {1}
  NumSteps = 1
  FragmentCounts = {3}
  CountSize = 256
  MaxParticles = 2
  MaxCalls = 2
SPECIFICATION Spec
INVARIANTS LoadedBreaks
CHECK_DEADLOCK FALSE
