SPECIFICATION FairSpec
CONSTANTS
  MaxMessages = 2
  MaxFaults = 2
  MaxRefused = 1
  MaxAssociations = 7
INVARIANTS
  OnlyConnectOvertakes RepeatsOnlyEarlyOrRestarted LoggedForTheRightBoot
PROPERTIES
  NewestArrives
CHECK_DEADLOCK FALSE
