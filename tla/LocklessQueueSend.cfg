SPECIFICATION Spec
CONSTANTS
  QueueSize = 1
  NumSenders = 2
  NumPinners = 1
  Readers = {}
  Cleaners = {}
  MaxSends = 3
  ReadAhead = 1
  Sentinel = 255
  LowModulus = 16
INVARIANTS
  Ownership FourStates PublishOrder NewestIntact PinnedIntact
PROPERTIES
  NoOverwrite
CHECK_DEADLOCK FALSE
