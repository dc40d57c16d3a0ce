SPECIFICATION FairSpec
CONSTANTS
  NWorker = 2
  NReduce = 2
  BusyPorts <- SomePorts
  MaxAttempts = 2
  MaxRegister = 2
INVARIANTS
  IdsOwned
  OutputsKept
PROPERTIES
  JobEnds
