SPECIFICATION Spec
CONSTANTS
  Items = 2
  Nexts = 2
  WireLimit = 2
  MaxLost = 0
INVARIANT AnswersAreTheirOwn
CHECK_DEADLOCK FALSE
