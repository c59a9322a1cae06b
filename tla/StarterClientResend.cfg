SPECIFICATION CSpec
CONSTANTS
  Apps = {a1}
  Autostart = {a1}
  Pids = {1}
  MaxForks = 3
  MaxCommands = 0
  MaxLate = 0
  Frequency = 3
  PidReuse = FALSE
  ClientApps = {a1}
  Timeout = 4
  MaxRequests = 2
  Resend = TRUE
INVARIANTS
  PendingTimesOut
CHECK_DEADLOCK FALSE
