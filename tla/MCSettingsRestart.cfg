SPECIFICATION FairSpec
CONSTANTS
  Requests = {q1, q2}
  DeliveryTicks = 1
  FlushTicks = 1
  ScheduleTicks = 1
  StopTicks = 4
  MaxRevision = 1
  MaxGeneration = 1
INVARIANTS ReservationIsWhole
PROPERTIES AsksForConfirmed BusComesBack
CHECK_DEADLOCK FALSE
