SPECIFICATION Spec
CONSTANTS
  QueueSize = 2
  NumSenders = 2
  NumPinners = 1
  Readers = {}
  Cleaners = {}
  MaxSends = 3
  ReadAhead = 1
  Sentinel = 255
  LowModulus = 16
INVARIANTS
  TypeOK Ownership FourStates PublishOrder PublishedOnce NewestIntact NextLag ScratchUnused PinnedIntact
PROPERTIES
  NoOverwrite
CHECK_DEADLOCK FALSE
