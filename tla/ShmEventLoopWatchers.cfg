SPECIFICATION Spec
CONSTANTS
    Channels = {c1, c2}
    Timers = {t1}
    Delays = {1}
    Repeats = {0, 3}
    MaxTime = 2
    MaxSends = 1
    MaxExits = 0
    MaxRuns = 1
SYMMETRY Symmetry
INVARIANTS
    WakeupNotLost NoOvertaking TimerNotLost DisabledStaysQuiet
CHECK_DEADLOCK FALSE
