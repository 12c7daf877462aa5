SPECIFICATION Spec
CONSTANTS
  WarningThreshold <- SwappedWarning
  CriticalThreshold <- SwappedCritical
  EmailEnabled = TRUE
  Pipelines <- TwoPipelines
  Keys <- OneKey
  Logs <- FailLogs
  MaxLogLength = 3
  NoValue = NoValue
  WindowSize = 2
  Grace = 1
  MayFail = {"mail", "influx", "redis", "streams"}
  MaxToggles = 0
  MaxRestarts = 1
CHECK_DEADLOCK FALSE
INVARIANTS
  TypeOK
  CommittedIsReported
  AlertHasACause
