SPECIFICATION TabFairSpec
CONSTANTS
  Turns = {n1}
  Watched = {n1}
  Makers = {}
  MaxText = 0
  CompactThreshold = 1
  KeepRaw = 1
  MaxTruncations = 1
  MaxRestarts = 1
  MaxFaults = 0
INVARIANTS
  NoOrphanStream
PROPERTIES
  ReconnectsEnd
  SpinnerResolves
CHECK_DEADLOCK FALSE
