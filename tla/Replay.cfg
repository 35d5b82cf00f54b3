CONSTANTS
  RoundBase = 10
  Tolerance = 1
  WallsPerSide = 1
  MinStrikes = 3
  Strikes <- MCStrikes
  Bar = 2
  AtrPeriod = 2
  CalmPct = 100
  HighVolPct = 250
  PriceTolerance = 0
  OiTolerance = 0
  ScalpMin = 5
  IntradayMin = 3
  Markets <- MCMarkets
  Window1 = 2
  Window5 = 4
  Keep = 5
  TickBuffer = 3
  RegimeBars = 2
  StopLoss = 2
  Target = 3
  Slippage = 1
  Cost = 1
  MaxHoldBars = 2
  MaxGap = 3
  MaxNow = 7
SPECIFICATION Spec
INVARIANTS TypeOK ReplayedAsLive SameRegimeWhileBuffered BacktestAgrees
PROPERTY NoLookAhead
CHECK_DEADLOCK FALSE
