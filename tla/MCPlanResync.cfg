SPECIFICATION Spec
CONSTANTS
  Devices = {d1}
  JobWorkers = {}
  Items = {i1, i2}
  MaxPlans = 1
  Scenarios <- RequestsOnly
PROPERTIES
  ResyncSparesHistory
