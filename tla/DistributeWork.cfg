SPECIFICATION WorkSpec
CONSTANTS
  NumWorkers = 3
  MaxFiles = 2
  MaxLines = 4
  RowOf <- Rows
  InputSets <- SmallInputs
INVARIANTS
  LoopInv
  InBounds
  EveryByteOnce
  AppsExact
