SPECIFICATION Spec
CONSTANTS
    Channels = {c1}
    Timers = {t1}
    Delays = {0, 1}
    Repeats = {0, 2}
    MaxTime = 2
    MaxSends = 2
    MaxExits = 0
    MaxRuns = 1
INVARIANTS
    CheckedUntilIsComplete
CHECK_DEADLOCK FALSE
