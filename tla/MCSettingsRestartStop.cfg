SPECIFICATION Spec
CONSTANTS
  Requests = {q1}
  DeliveryTicks = 1
  FlushTicks = 1
  ScheduleTicks = 1
  StopTicks = 4
  MaxRevision = 1
  MaxGeneration = 1
PROPERTY StopRemainsStopped
CHECK_DEADLOCK FALSE
