SPECIFICATION FairSpec
CONSTANTS
  MaxEntry = 2
  MaxMonth = 1
  Limit = 2
  MaxFail = 0
PROPERTY EveryFailedRunIsFiled
CHECK_DEADLOCK FALSE
