CONSTANTS
  Callers = {c1, c2}
  Limit <- MCLimit
  MaxEntries <- MCEntries
  MaxInsert = 2
  MaxStarts = 2
SPECIFICATION Spec
INVARIANTS EntriesInOrder StoppedMeansSilent
PROPERTIES EntriesWritten StopReturnsUnlessMissed
CHECK_DEADLOCK FALSE
