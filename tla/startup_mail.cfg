SPECIFICATION FairStartup
CONSTANTS
  Sensors <- OneSensor
  Readings <- One
  Retries = 1
  MaxQueued = 1
  Fragile = FALSE
  Configs <- JustShipped
PROPERTY
  StartupMailIsSent
