CONSTANTS
  None = None
  Closed = Closed
  Keys <- SpotOnly
  Values = {up, down}
  MaxAge <- SpotMaxAge
  Skew <- SpotSkew
  Horizon = 4
  Idle = 2
  OpsIdle = 3
  MaxQueue = 2
SPECIFICATION FairHealthSpec
INVARIANTS HealthTypeOK NoStaleSentinel AlarmNeedsRestart
PROPERTIES WedgedUntilRestart ReconnectTooLate SilenceReconnects WedgedIsReported
