SPECIFICATION Spec
CONSTANTS
  QueueSize = 1
  NumSenders = 1
  NumPinners = 0
  r1 = r1
  Readers = {r1}
  Cleaners = {}
  MaxSends = 5
  ReadAhead = 1
  Sentinel = 255
  LowModulus = 16
INVARIANTS
  NeverBackwards
CHECK_DEADLOCK FALSE
