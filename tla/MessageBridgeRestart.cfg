SPECIFICATION Spec
CONSTANTS
  MaxMessages = 2
  MaxFaults = 1
  MaxRefused = 0
  MaxAssociations = 3
INVARIANTS
  NotResent
CHECK_DEADLOCK FALSE
