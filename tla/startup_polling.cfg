SPECIFICATION FairEndings
CONSTANTS
  Sensors <- Neighbours
  Readings <- Large
  Retries = 1
  MaxQueued = 1
  Fragile = TRUE
  Configs <- AllConfigs
INVARIANTS
  TypeOK
  PressureAndPowerAreOwn
  AtMostOneAfterStop
  ReadyIsNotPolling
PROPERTY
  DeadPollerClosesContext
  StoppedFallsSilent
