SPECIFICATION FairSpec
CONSTANTS
  Emissions <- SmallEmissions
  ReducerForKey <- HashMod2
  ChanCap = 2
  DoneCap = 1
  Others <- SmallOthers
  ReduceEmits = {0, 1, 2}
INVARIANTS
  NoSendOnClosed
  CodecExact
  ReducedOnce
PROPERTIES
  Finishes
