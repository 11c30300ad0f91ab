SPECIFICATION FairSpec
CONSTANTS
  Items = 2
  Nexts = 2
  WireLimit = 2
  MaxLost = 1
INVARIANTS RecordsAreTheirOwn
PROPERTIES QuietAfterStop JobEnds
CHECK_DEADLOCK FALSE
