SPECIFICATION FairSpec
CONSTANTS
  Half = 8
  Shards = 3
  Parallel = 2
  Tables <- Intervals
INVARIANTS
  EveryRowOnce
PROPERTIES
  Returns
