SPECIFICATION Spec
CONSTANTS
  Docs = {1, 2}
  Textbooks = {1}
  Files = {"clean", "large", "infected", "blank", "corrupt"}
  Chapters = {1, 2}
  LostChapters = {}
  Workers = {w1, w2}
  Quota = 2
  MaxAttempts = 2
  MaxFaults = 1
  MaxJobs = 6
  None = None
SYMMETRY WorkerSymmetry
INVARIANTS
  TypeOK
  NoBytesLost
  QuotaHolds
  ReadyHasText
PROPERTIES
  BookReadyWhenFilled
CHECK_DEADLOCK FALSE
