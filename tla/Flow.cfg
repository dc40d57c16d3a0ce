SPECIFICATION FairSpec
CONSTANTS
  a = a
  b = b
  c = c
  NoFlow = NoFlow
  Flows <- ThreeFlows
  WithParams <- TwoWithParams
  NumWorkers = 2
  Reducers <- SomeReducers
INVARIANTS
  EnvRestored
  ImportsOwn
  OneJob
PROPERTIES
  AllEnd
