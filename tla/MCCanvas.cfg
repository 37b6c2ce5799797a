SPECIFICATION FairSpec
CONSTANTS
  p1 = p1
  p2 = p2
  n1 = n1
  Pages = {p1, p2}
  Strokes = {s1}
  Notes = {n1}
  Nobody = Nobody
  Scenarios <- CanvasScenarios
INVARIANTS
  TypeOK
  ConflictsAreReal
  LogTellsEachChange
PROPERTIES
  SavesGoForward
  AskedOnSavedBoard
  EditsAreSaved
CHECK_DEADLOCK FALSE
