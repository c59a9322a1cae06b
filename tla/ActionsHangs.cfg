SPECIFICATION FairSpec
CONSTANTS
  MaxActions = 3
  MaxRefused = 0
  MaxRestarts = 0
PROPERTIES
  QueueMovesOn
CHECK_DEADLOCK FALSE
