SPECIFICATION Spec
CONSTANTS
  p = p  q = q
  Params = {p}
  Values = {0, 1}
  Batches <- OneParameter
  StampWords = 2
  UnlockTicks = 3  CooldownTicks = 5  ReplyTicks = 1
  WireLimit = 1
INVARIANTS SeedOnlyWhenLocked
