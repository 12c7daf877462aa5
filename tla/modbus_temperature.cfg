SPECIFICATION Spec
CONSTANTS
  Sensors <- WarmSensors
  Readings <- One
  Retries = 1
  MaxQueued = 1
  Fragile = FALSE
INVARIANTS
  TemperatureIsOwn
