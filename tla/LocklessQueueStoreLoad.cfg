SPECIFICATION Spec
CONSTANTS
  QueueSize = 1
  NumSenders = 1
  NumPinners = 1
  Readers = {}
  Cleaners = {}
  MaxSends = 3
  ReadAhead = 1
  Sentinel = 255
  LowModulus = 16
INVARIANTS
  PinProtects
CHECK_DEADLOCK FALSE
