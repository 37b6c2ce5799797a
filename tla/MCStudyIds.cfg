SPECIFICATION StudySpec
CONSTANTS
  a = a
  b = b
  u = u
  v = v
  w = w
  Tabs = {t1, t2}
  Terms = {a, b, c}
  MaxIds = 4
  Scenarios <- AddingTermsOnly
  Pages = {t1, t2}
  Topics = {a, b, c}
  Texts = {u, v, w, Empty}
  Empty = Empty
  MaxOptions = 3
  MaxQuestions = 4
  QuizScenarios <- NoQuizAtAll
PROPERTIES
  IdsArePreserved
CHECK_DEADLOCK FALSE
