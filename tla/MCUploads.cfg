CONSTANTS
  c1 = c1
  c2 = c2
  big = big
  None = None
  Contents = {c1, c2, big}
  Names = {1, 2}
  Batches = {1, 2}
  Days = {1}
  DaysOf <- OneDay
  UploadFiles <- ThreeFiles
  InboxFiles <- NoFiles
  NormalizeFiles <- AllFiles
  InFleet = TRUE
  OverLimit = {big}
  Objects = {1, 2, 3, 4, 5, 6, 7, 8}
  Archiving = FALSE
  NoReconstruct = TRUE
  NoReconcile = FALSE
  MaxFiles = 2
  MaxCrashes = 0
  MaxFaults = 1
SPECIFICATION Spec
INVARIANTS
  TypeOK
  UploadKept
  BatchTruthful
PROPERTIES
  GuardedWrites
