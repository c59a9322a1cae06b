SPECIFICATION FairSpec
CONSTANTS
  Apps = {a1, a2}
  Autostart = {a1}
  Pids = {1, 2}
  MaxForks = 2
  MaxCommands = 2
  MaxLate = 1
  Frequency = 2
  PidReuse = FALSE
INVARIANTS
  OneProcess TimersFollowState NoZombieForgotten ExitLeavesNobody
PROPERTIES
  StopCompletes ExitCompletes StatusCatchesUp
CHECK_DEADLOCK FALSE
