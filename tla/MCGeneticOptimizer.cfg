CONSTANTS
  MinSpeed = 1
  MaxSpeed = 2
  Fitnesses = {0, 1}
  PopulationSize = 4
  MaxGenerations = 2
  EliteCount = 1
SPECIFICATION Spec
INVARIANTS BestEver ElitesSurvive
PROPERTIES Finishes
CHECK_DEADLOCK FALSE
