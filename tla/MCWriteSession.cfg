SPECIFICATION FairSpec
CONSTANTS
  p = p  q = q
  Params = {p, q}
  Values = {0, 1, 2}
  Batches <- TwoParameters
  StampWords = 2
  UnlockTicks = 3  CooldownTicks = 5  ReplyTicks = 1
  WireLimit = 2
INVARIANTS OwnUnlockIsOver UnlockOutlivesBatch UntouchedMeansUntouched
PROPERTIES WrittenIsOnTheBike ReplacesTheExpected OperationEnds
