SPECIFICATION Spec
CONSTANTS
  NWorkers = 3
  NumReducer = 2
  ChanCap = 2
  MinHealthy = 3
  MaxFailures = 1
INVARIANT NoPanic
