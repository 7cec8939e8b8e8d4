CONSTANTS
  a = a
  b = b
  x1 = x1
  x2 = x2
  x3 = x3
  x4 = x4
  None = None
  Junk = Junk
  Files = {a, b}
  Frames = {x1, x2, x3, x4}
  FrameDef <- StoredFrames
  Contents <- Uploads
  Header <- Names
  Dictionary <- Fields
  Limit = 1
  MaxRuns = 4
SPECIFICATION Spec
INVARIANT OwnRowsRead
CHECK_DEADLOCK FALSE
