CONSTANTS
  None = None
  DuplicateCooldown = 1
  StrikeCooldown = 1
  RateWindow = 2
  Strikes = {k1, k2}
  Signals = {s1, s2, s3}
  Workers = {w1, w2}
  Pnls <- OneLoss
  MaxSignalsPerHour = 1
  MaxDailyLoss = 2
  MaxHold = 1
  FeatureThrottle = 0
  MemoryMayFail = TRUE
  MaxNow = 1
  LastEntry = 1
  MaxCrashes = 1
SPECIFICATION Spec
INVARIANTS RateBound RowFollowsTrade OutcomeBeforeMemory ClosedOncePerWorker
SYMMETRY Interchangeable
