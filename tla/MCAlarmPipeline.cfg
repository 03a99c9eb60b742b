CONSTANTS
  Mills = {1, 2}
  Period = 1
  MaxClock = 1
  Never = Never
  Readings <- MCReadings
  Growable = TRUE
  SensorCapacity = 1
  AlertCapacity = 1
  BatchMax = 2
  NumInjected = 2
  SmokeMill = 1
  MaxReports = 2
SPECIFICATION Spec
INVARIANTS SuppressionSpacing TimerHasAlert AlertsAccountedFor AlertsInOrder DropsCountedAgain ExitWithEmptyHands
PROPERTIES ShutdownCompletes ReadingsTaken
