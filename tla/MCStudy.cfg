SPECIFICATION StudySpec
CONSTANTS
  a = a
  b = b
  u = u
  v = v
  w = w
  Tabs = {t1, t2}
  Terms = {a, b}
  MaxIds = 4
  Scenarios <- DeckScenarios
  Pages = {t1, t2}
  Topics = {a, b, c}
  Texts = {u, v, w, Empty}
  Empty = Empty
  MaxOptions = 3
  MaxQuestions = 4
  QuizScenarios <- AllQuizScenarios
INVARIANTS
  TypeOK
  MissedComesBack
  CreditIsForItsQuestion
PROPERTIES
  SavesRepair
SYMMETRY PageSymmetry
CHECK_DEADLOCK FALSE
