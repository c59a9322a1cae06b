SPECIFICATION CSpec
CONSTANTS
  Apps = {a1, a2}
  Autostart = {a1, a2}
  Pids = {1, 2}
  MaxForks = 4
  MaxCommands = 0
  MaxLate = 0
  Frequency = 2
  PidReuse = FALSE
  ClientApps = {a1}
  Timeout = 3
  MaxRequests = 1
  Resend = FALSE
PROPERTIES
  RestartHappened
CHECK_DEADLOCK FALSE
