SPECIFICATION FairSpec
CONSTANTS
  Requests = {r1, r2}
  MaxWrites = 2
  MaxRecords = 2
  MaxRestarts = 1
  MaxRebalances = 1
  NoSuchSensor = NoSuchSensor
  Nothing = Nothing
INVARIANTS
  AnswerIsCurrent
  NothingMissing
  DuplicatesNeedRebalance
PROPERTY
  PageCatchesUp
CHECK_DEADLOCK FALSE
