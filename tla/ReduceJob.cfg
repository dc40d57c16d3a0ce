SPECIFICATION JobFairSpec
CONSTANTS
  NWorkers = 3
  NumReducer = 2
  ChanCap = 2
  MinHealthy = 1
  MaxFailures = 3
  MaxCrashes = 1
  MaxTimeouts = 2
INVARIANTS
  NothingOutlivesPhase
  OutputsComplete
PROPERTIES
  ImplementsTaskPhase
  Terminates
