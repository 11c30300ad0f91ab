SPECIFICATION FairSpec
CONSTANTS
  a = a  b = b  c = c  d = d  e = e  f = f
  NoOp = NoOp
  Ops = {a, b, c}
  Kind <- ReadersAndClear
  HoldWait = 1  MaxHold = 3
  RequestTicks = 1  SleepTicks = 1  RoundRequests = 1
  Exchanges = 3  ExchangeTicks = 1  SweepRows = 2  WatchTicks = 1
INVARIANTS UnsafeSessionsAreShort
PROPERTIES StoppedStaysSilent ImplementsBusAccess PollerSpeaks BusIsReturned
