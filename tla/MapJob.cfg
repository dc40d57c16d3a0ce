SPECIFICATION JobSpec
CONSTANTS
  NWorkers = 4
  TotalWorkers = 2
  ChanCap = 2
  Uuid <- OwnUuid
  MaxLostWrites = 1
INVARIANTS
  MapComplete
  WorkersLentOnce
  IInv
  ExactlyOnceWithCleanFailures
  NothingLostWithSpares
PROPERTIES
  ImplementsTaskPhase
