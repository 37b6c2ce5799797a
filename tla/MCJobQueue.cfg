SPECIFICATION Spec
CONSTANTS
  TsWorkers = {t1, t2}
  PyWorkers = {p1}
  Requests = {r1, r2}
  Users = {u1}
  CalendarKinds = {sync, renew}
  RenewKind = renew
  RequestKinds = {sync}
  IngestKinds = {ingest}
  FirstSweepOf = u1
  MaxAttempts = 2
  SlowHandlers = FALSE
  MaxJobs = 3
  MaxCrashes = 1
  None = None
INVARIANTS
  TypeOK
  NoDoubleProcessing
  RetryBudget
  RowsDoNotPileUp
PROPERTIES
  KeepsContract
