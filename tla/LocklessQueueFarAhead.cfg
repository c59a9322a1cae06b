SPECIFICATION Spec
CONSTANTS
  QueueSize = 1
  NumSenders = 2
  NumPinners = 0
  r1 = r1
  Readers = {r1}
  Cleaners = {}
  MaxSends = 3
  ReadAhead = 2
  Sentinel = 255
  LowModulus = 16
INVARIANTS
  GoodRead
CHECK_DEADLOCK FALSE
