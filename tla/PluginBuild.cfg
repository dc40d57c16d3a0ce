SPECIFICATION FairSpec
CONSTANTS
  c1 = c1
  c2 = c2
  c3 = c3
  NoCaller = NoCaller
  Callers <- ThreeCallers
  ProcOf <- TwoProcs
  MaxEdits = 1
  MaxClock = 1
INVARIANTS
  LoadsCurrent
PROPERTIES
  NeverOlder
  CallsReturn
