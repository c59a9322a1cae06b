SPECIFICATION FairSpec
CONSTANTS
  MaxActions = 3
  MaxRefused = 1
  MaxRestarts = 1
INVARIANTS
  RunsOnce DoneMeansDone
PROPERTIES
  CancelStops ActorReleased
CHECK_DEADLOCK FALSE
