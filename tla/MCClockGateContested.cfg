SPECIFICATION Spec
CONSTANTS
  Offsets = {0, 120, 7200}
  ColdOffset <- Cold
  Required = 3
  Displacing = 4
  WindowAge = 3
  AnchorAge = 6
  Cooldown = 3
  DateTicks = 1
  MaxFaults = 1
  MaxMoves = 1
PROPERTIES
  ContestedAnchorTakesMore
CHECK_DEADLOCK FALSE
