SPECIFICATION FairSpec
CONSTANTS
  MaxRuns = 2
  MaxActions = 1
  Timeout = 2
  U32Max = 4
  Pins = {0, 1}
INVARIANTS TypeOK NothingCameBetween ValidForTimeout
PROPERTY RunsSettle
CHECK_DEADLOCK FALSE
