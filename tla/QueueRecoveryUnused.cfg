SPECIFICATION RSpec
CONSTANTS
  QueueSize = 1
  NumSenders = 1
  NumPinners = 1
  Readers = {}
  Cleaners = {c1}
  MaxSends = 3
  ReadAhead = 1
  Sentinel = 255
  LowModulus = 16
  MaxCrashes = 2
INVARIANTS
  ClaimsUnused
CHECK_DEADLOCK FALSE
