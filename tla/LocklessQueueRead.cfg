SPECIFICATION Spec
CONSTANTS
  QueueSize = 1
  NumSenders = 2
  NumPinners = 0
  r1 = r1
  Readers = {r1}
  Cleaners = {}
  MaxSends = 4
  ReadAhead = 1
  Sentinel = 255
  LowModulus = 16
INVARIANTS
  GoodRead BackwardsOnlyIfLapped
CHECK_DEADLOCK FALSE
