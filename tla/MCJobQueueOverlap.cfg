SPECIFICATION FairSpec
CONSTANTS
  TsWorkers = {t1, t2}
  PyWorkers = {p1}
  Requests = {r1}
  Users = {u1}
  CalendarKinds = {sync, renew}
  RenewKind = renew
  RequestKinds = {sync}
  IngestKinds = {ingest}
  FirstSweepOf = u1
  MaxAttempts = 2
  SlowHandlers = TRUE
  MaxJobs = 2
  MaxCrashes = 1
  None = None
PROPERTIES
  NoJobIsLost
