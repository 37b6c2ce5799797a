SPECIFICATION ServeSpec
CONSTANTS
  Turns = {n1, n2}
  Watched = {}
  Makers = {n1, n2}
  MaxText = 1
  CompactThreshold = 1
  KeepRaw = 1
  MaxTruncations = 1
  MaxRestarts = 1
  MaxFaults = 1
SYMMETRY TurnSymmetry
INVARIANTS
  TypeOK
  EndIsDurable
  SummariesReachBack
CHECK_DEADLOCK FALSE
