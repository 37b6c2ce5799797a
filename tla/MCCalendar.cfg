SPECIFICATION FairSpec
CONSTANTS
  Events = {e1, e2}
  MayAge = {e2}
  Scenarios <- CalendarScenarios
INVARIANTS
  TypeOK
  TokenMatchesRows
CHECK_DEADLOCK FALSE
PROPERTIES
  CheckOffSurvives
  ListensOn
  RequestedSyncEnds
