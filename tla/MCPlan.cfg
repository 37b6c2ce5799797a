SPECIFICATION Spec
CONSTANTS
  Devices = {d1, d2}
  JobWorkers = {j1}
  Items = {i1, i2}
  MaxPlans = 2
  Scenarios <- Mixed
SYMMETRY Symmetry
INVARIANTS
  TypeOK
  AgreementSurvives
  OneOpenProposal
  AmendmentsApplied
PROPERTIES
  OnlyTheStudentAdopts
  TasksFollowPlan
