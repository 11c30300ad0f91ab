SPECIFICATION Spec
CONSTANTS
  Phones = {a, b}
  NoPhone = NoPhone
  Kinds = {"request", "subscribe", "unsubscribe"}
  MaxInbound = 1
  MaxRequests = 1
  MaxSeals = 1
  MaxQueued = 1
  HighWater = 0
  MaxDisturbances = 1
INVARIANTS
  NothingOutlivesItsSession
PROPERTIES
  EvictsWhomItAskedAbout
  NextPhoneGetsIn
CHECK_DEADLOCK FALSE
