CONSTANTS
  Mills = {1}
  Period = 2
  MaxClock = 2
  Never = Never
  Readings <- SmokeReadings
  Growable = TRUE
  SensorCapacity = 8
  AlertCapacity = 8
  BatchMax = 2
  NumInjected = 2
  SmokeMill = 1
  MaxReports = 1
SPECIFICATION Spec
INVARIANT ActiveMetricCurrent
