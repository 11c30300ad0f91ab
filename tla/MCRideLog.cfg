SPECIFICATION LogSpec
CONSTANTS
  TrustsSeen = {"satellite-backed", "contested"}
  MaxBuffered = 2
  MaxRuns = 2
  MaxReadings = 3
  MaxFailures = 2
INVARIANTS
  CutLeavesAPrefix
  LabelNeverUnderstates
  FlushedUnlessRefused
PROPERTIES
  EverythingSealed
CHECK_DEADLOCK FALSE
