SPECIFICATION Spec
CONSTANTS
  None = None
  MinGap = 2
  ResetFloor = 10
  MinHistoryDays = 2
  MinObservations = 3
  DaySeconds = 2
  Histories <- Observed
  LateObservations <- LateOnes
  Windows <- TimeWindows
  FaultCodes = {"fan_fault"}
  MaxLate = 1
  MaxRebuilds = 2
INVARIANTS SessionsTruthful AlarmsExact ChangesExact ReadsTruthful
PROPERTY WindowIsolated
CHECK_DEADLOCK FALSE
