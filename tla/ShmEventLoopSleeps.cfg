SPECIFICATION Spec
CONSTANTS
    Channels = {c1}
    Timers = {t1}
    Delays = {1}
    Repeats = {0, 3}
    MaxTime = 1
    MaxSends = 2
    MaxExits = 0
    MaxRuns = 1
INVARIANTS
    ClearedSignalPickedUp
CHECK_DEADLOCK FALSE
