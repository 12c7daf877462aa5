SPECIFICATION FairSpec
CONSTANTS
  WarningThreshold <- NoThreshold
  CriticalThreshold <- NoThreshold
  EmailEnabled = TRUE
  Pipelines <- TwoPipelines
  Keys <- TwoKeys
  Logs <- ResultLogs
  MaxLogLength = 3
  NoValue = NoValue
  WindowSize = 1
  Grace = 1
  MayFail = {}
  MaxToggles = 1
  MaxRestarts = 0
CHECK_DEADLOCK FALSE
INVARIANTS
  PowerTotalsAreFinal
  RedisHoldsNewestTotal
  ResultsAreExact
  SinksAgree
PROPERTIES
  AveragesArePublished
  AggregatesAsPromised
