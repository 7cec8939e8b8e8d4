SPECIFICATION Spec
CONSTANTS
  pos1 = pos1
  pos2 = pos2
  pos3 = pos3
  fp1 = fp1
  fp2 = fp2
  None = None
  Times = {1, 2}
  Positions = {pos1, pos2, pos3}
  Values = {fp1, fp2}
  InputRows <- MixedRows
  Expected = {pos1, pos2}
  MaxFrames = 3
  SeverePct = 50
  MaxRows = 5
INVARIANT TypeOK
INVARIANT EveryReadingCanonical
INVARIANT NoDoubleCount
INVARIANT ReplaysContained
INVARIANT RowsKept
CHECK_DEADLOCK FALSE
