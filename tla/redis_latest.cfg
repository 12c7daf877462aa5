SPECIFICATION Spec
CONSTANTS
  WarningThreshold <- NoThreshold
  CriticalThreshold <- NoThreshold
  EmailEnabled = TRUE
  Pipelines <- TemperatureOnly
  Keys <- TwoKeys
  Logs <- LateLogs
  MaxLogLength = 3
  NoValue = NoValue
  WindowSize = 1
  Grace = 1
  MayFail = {}
  MaxToggles = 0
  MaxRestarts = 0
CHECK_DEADLOCK FALSE
INVARIANTS
  RedisHoldsNewest
