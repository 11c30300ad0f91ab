SPECIFICATION Spec
CONSTANTS
  Ceiling = 3
  MinCommand = 2
  MaxStep = 1
  WireLimit = 2
PROPERTY DialsAreHonoured
CHECK_DEADLOCK FALSE
