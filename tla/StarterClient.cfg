SPECIFICATION FairCSpec
CONSTANTS
  Apps = {a1}
  Autostart = {a1}
  Pids = {1}
  MaxForks = 3
  MaxCommands = 0
  MaxLate = 0
  Frequency = 2
  PidReuse = FALSE
  ClientApps = {a1}
  Timeout = 3
  MaxRequests = 2
  Resend = FALSE
INVARIANTS
  CTypeOK PendingTimesOut
PROPERTIES
  RequestEnds RestartHappened
CHECK_DEADLOCK FALSE
