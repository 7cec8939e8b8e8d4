CONSTANTS
  c1 = c1
  c2 = c2
  big = big
  None = None
  Contents = {c1, c2, big}
  Names = {1, 2}
  Batches = {1}
  Days = {1, 2}
  DaysOf <- TwoDays
  UploadFiles <- SharedDayFiles
  InboxFiles <- InboxCopies
  NormalizeFiles <- NoFiles
  InFleet = TRUE
  OverLimit = {big}
  Objects = {1, 2, 3, 4, 5, 6, 7, 8}
  Archiving = TRUE
  NoReconstruct = TRUE
  NoReconcile = FALSE
  MaxFiles = 2
  MaxCrashes = 1
  MaxFaults = 1
SPECIFICATION Spec
INVARIANTS
  BronzeBacked
  SingleCanonical
  CoverageFresh
PROPERTIES
  DurableRecords
