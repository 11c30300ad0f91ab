SPECIFICATION FanSpec
CONSTANTS
  Floor = 30
  Full = 100
  SliderDuties = {0, 30}
  Heats = {"warm", "hot"}
  Bikes = {"parked", "riding"}
  MaxQueue = 2
  MaxInputs = 2
  MaxFaults = 1
INVARIANTS NeverBrakes ManualHolds
CHECK_DEADLOCK FALSE
PROPERTIES FunEndsWithGate OffComesBack
