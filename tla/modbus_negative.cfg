SPECIFICATION Spec
CONSTANTS
  Sensors <- OneSensor
  Readings <- BothSigns
  Retries = 1
  MaxQueued = 1
  Fragile = FALSE
INVARIANTS
  RegistersAreCurrent
