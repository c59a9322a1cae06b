SPECIFICATION FairSpec
CONSTANTS
    Channels = {c1}
    Timers = {t1}
    Delays = {1}
    Repeats = {0}
    MaxTime = 2
    MaxSends = 2
    MaxExits = 1
    MaxRuns = 2
INVARIANTS
    NoMessageSkipped
PROPERTIES
    ExitStops
CHECK_DEADLOCK FALSE
