CONSTANTS
  Fitness = {1, 2}
  Settings = {s1, s2}
  Generations = {1, 3}
  ChartLength = 2
  Intervals = {p1, p2}
  MaxRuns = 3
  MaxTimers = 3
SPECIFICATION AppSpec
INVARIANTS PanelShowsLastRun RefreshAsSet
PROPERTY PanelComesFree
CHECK_DEADLOCK FALSE
