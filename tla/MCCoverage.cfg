CONSTANTS
  ca = ca
  cz = cz
  f1 = f1
  f2 = f2
  f3 = f3
  f4 = f4
  n1 = n1
  n2 = n2
  None = None
  Chargers = {ca, cz}
  Files = {f1, f2, f3, f4}
  Dates = {1, 2}
  FileDef <- Deliveries
  Profiles <- Registrations
  DayLen = 6
  DefaultInterval = 1
  DefaultTz = 1
  DefaultConnectors = 2
  GapMultiplier = 2
  Moderate = 3
  Major = 4
  Critical = 5
  GapFloor = 1
  CompletePct = 95
  PartialPct = 50
  TolerancePct = 50
  Grace = 12
  MaxUpserts = 2
SPECIFICATION Spec
INVARIANTS
  NoSampleLost
  GapsAreSilence
  ReportCurrent
  CountsAgree
PROPERTIES
  ReconcileIdempotent
