SPECIFICATION Spec
CONSTANTS
  Phones = {a, b}
  NoPhone = NoPhone
  Kinds = {"request", "subscribe", "unsubscribe"}
  MaxInbound = 1
  MaxRequests = 1
  MaxSeals = 2
  MaxQueued = 1
  HighWater = 0
  MaxDisturbances = 1
INVARIANTS
  StreamHasItsOwner
CHECK_DEADLOCK FALSE
