SPECIFICATION Spec
CONSTANTS
  Offsets = {0, 120, 7200}
  ColdOffset <- Cold
  Required = 3
  Displacing = 4
  WindowAge = 2
  AnchorAge = 6
  Cooldown = 3
  DateTicks = 1
  MaxFaults = 1
  MaxMoves = 1
INVARIANTS
  SingleLiesNeverStep
  TrustedClockIsTheAnchors
PROPERTIES
  FlipTakesAnAnchorLife
  HonestReceiverWins
CHECK_DEADLOCK FALSE
