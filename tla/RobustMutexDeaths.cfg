SPECIFICATION Spec
CONSTANTS
  t1 = t1
  t2 = t2
  t3 = t3
  Threads = {t1, t2, t3}
  NumMutexes = 1
  MaxWakes = 1
  MaxSignals = 1
  MaxDeaths = 2
SYMMETRY Symmetry
INVARIANTS
  RobustListComplete
PROPERTIES
  DeathNotified ImplementsMutex
CHECK_DEADLOCK FALSE
