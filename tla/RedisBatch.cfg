SPECIFICATION FairSpec
CONSTANTS
  Word <- SmallWords
  Sources <- SmallSources
  Targets <- SmallTargets
  MaxPages = 2
  MaxExpired = 1
  MaxRuns = 2
INVARIANTS
  InStep
  LinesMatchScans
  
PROPERTIES
  Returns
