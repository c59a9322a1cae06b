SPECIFICATION Spec
CONSTANTS
  t1 = t1
  t2 = t2
  t3 = t3
  Threads = {t1, t2, t3}
  NumMutexes = 1
  MaxWakes = 2
  MaxSignals = 1
  MaxDeaths = 0
SYMMETRY Symmetry
INVARIANTS
  NobodyStranded BroadcastWakesAll
CHECK_DEADLOCK FALSE
