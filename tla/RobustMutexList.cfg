SPECIFICATION Spec
CONSTANTS
  t1 = t1
  t2 = t2
  Threads = {t1, t2}
  NumMutexes = 2
  MaxWakes = 1
  MaxSignals = 1
  MaxDeaths = 1
SYMMETRY Symmetry
INVARIANTS
  RobustListComplete
PROPERTIES
  DeathNotified ImplementsMutex
CHECK_DEADLOCK FALSE
