SPECIFICATION FairSpec
CONSTANTS
  Ceiling = 2
  MinCommand = 1
  MaxStep = 1
  WireLimit = 2
INVARIANTS StandsDownForRider
PROPERTIES RiderWins
CHECK_DEADLOCK FALSE
