SPECIFICATION FairSpec
CONSTANTS
  NWorkers = 5
  TotalWorkers = 3
  ChanCap = 1
  Uuid <- TwiceRegistered
INVARIANTS
  NothingOutlivesPhase
PROPERTIES
  Terminates
