SPECIFICATION Spec
CONSTANTS
  Apps = {a1, a2}
  Autostart = {a1}
  Pids = {1, 2}
  MaxForks = 2
  MaxCommands = 2
  MaxLate = 1
  Frequency = 2
  PidReuse = TRUE
INVARIANT SignalNotForUs
CHECK_DEADLOCK FALSE
