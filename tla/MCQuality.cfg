CONSTANTS
  plain = plain
  noisy = noisy
  wider = wider
  narrow = narrow
  roleless = roleless
  bare = bare
  spelt = spelt
  unread = unread
  glitch = glitch
  wild = wild
  Files = {plain, noisy, wider, narrow, roleless, bare, spelt, unread, glitch, wild}
  None = None
  FileDef <- Deliveries
  Snake <- SnakeOf
  Squeezed <- SqueezedNames
  RoleSpecs <- RoleTable
  Dictionary <- Entries
  Unlisted <- Guesses
  Float <- Numbers
  FloatText <- NumberTexts
  Formats <- Readings
  DayLen = 10
  GlobalSentinels = {"-150", "-999"}
  MaxObserved = 5
  NumericPct = 95
  ExpectedConnectors = 2
  ExpectedSmrs = 1
  GapFactor = 5
  TolerancePct = 20
  MaxListed = 2
  Weights <- Timeless
  Workers = {w1, w2, w3}
  Runs <- Worked
  MaxColumns = 8
  MaxRows = 7
SPECIFICATION Spec
SYMMETRY Interchangeable
INVARIANTS
  RegistrySound
  DriftTruthful
  AbortExplained
  JudgementSound
PROPERTY SerialRegistry
