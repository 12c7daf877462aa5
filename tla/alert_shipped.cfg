SPECIFICATION Spec
CONSTANTS
  WarningThreshold <- ShippedWarning
  CriticalThreshold <- ShippedCritical
  EmailEnabled = TRUE
  Pipelines <- TemperatureOnly
  Keys <- TwoKeys
  Logs <- HotLogs
  MaxLogLength = 3
  NoValue = NoValue
  WindowSize = 1
  Grace = 1
  MayFail = {}
  MaxToggles = 0
  MaxRestarts = 0
CHECK_DEADLOCK FALSE
INVARIANTS
  CriticalStopsDevice
