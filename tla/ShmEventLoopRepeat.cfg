SPECIFICATION Spec
CONSTANTS
    Channels = {c1}
    Timers = {t1}
    Delays = {0, 1}
    Repeats = {0, 2}
    MaxTime = 3
    MaxSends = 0
    MaxExits = 0
    MaxRuns = 1
PROPERTIES
    NextIterationInFuture
CHECK_DEADLOCK FALSE
