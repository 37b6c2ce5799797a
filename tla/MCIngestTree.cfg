SPECIFICATION FairSpec
CONSTANTS
  Docs = {1}
  Textbooks = {1}
  Files = {"clean", "flat", "infected", "blank", "corrupt"}
  Chapters = {1, 2, 3}
  LostChapters = {}
  Workers = {w1, w2, w3}
  Quota = 2
  MaxAttempts = 2
  MaxFaults = 0
  MaxJobs = 8
  None = None
INVARIANTS
  TreeHasAJob
PROPERTIES
  UploadsSettle
CHECK_DEADLOCK FALSE
