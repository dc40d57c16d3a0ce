SPECIFICATION ImportSpec
CONSTANTS
  Import <- TwoImports
  Key <- Keys
  BatchSize = 2
  MaxLines = 2
  Inputs <- SmallInputs
  OldTargets <- SmallTargets
INVARIANTS
  NoPartialSums
PROPERTIES
  RerunsIdempotent
