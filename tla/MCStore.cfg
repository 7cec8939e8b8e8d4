SPECIFICATION Spec
CONSTANTS
  pa = pa
  pb = pb
  pc = pc
  None = None
  Files = {1, 2}
  Times = {1, 2}
  Payloads = {pa, pb, pc}
  Outcomes <- TwoTimes
  MaxRuns = 2
INVARIANT TypeOK
INVARIANT SequencesSound
INVARIANT NoDangling
INVARIANT PayloadHeld
INVARIANT PointersTruthful
PROPERTY OthersUntouched
CHECK_DEADLOCK FALSE
