SPECIFICATION FairSpec
CONSTANTS
  MaxActions = 3
  MaxRefused = 0
  MaxRestarts = 0
INVARIANTS
  NotStartled
CHECK_DEADLOCK FALSE
