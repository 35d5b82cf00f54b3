CONSTANTS
  None = None
  DuplicateCooldown = 1
  StrikeCooldown = 2
  RateWindow = 2
  Strikes = {k1, k2}
  Signals = {s1, s2}
  Workers = {w1}
  Pnls <- LossOrWin
  MaxSignalsPerHour = 2
  MaxDailyLoss = 2
  MaxHold = 1
  FeatureThrottle = 1
  MemoryMayFail = TRUE
  MaxNow = 4
  LastEntry = 2
  MaxCrashes = 0
SPECIFICATION Spec
INVARIANT LossAccounted
