SPECIFICATION Spec
CONSTANTS
  a = a  b = b  c = c  d = d  e = e  f = f
  NoOp = NoOp
  Ops = {a, b, c, d, e, f}
  Kind <- Commands
  HoldWait = 3  MaxHold = 3
  RequestTicks = 1  SleepTicks = 1  RoundRequests = 2
  Exchanges = 3  ExchangeTicks = 1  SweepRows = 1  WatchTicks = 2
INVARIANTS ParkInTime
PROPERTIES EraseOnOpenGate
