SPECIFICATION RSpec
CONSTANTS
  QueueSize = 1
  NumSenders = 2
  NumPinners = 0
  Readers = {}
  Cleaners = {c1}
  MaxSends = 3
  ReadAhead = 1
  Sentinel = 255
  LowModulus = 16
  MaxCrashes = 2
INVARIANTS
  NotCorrupt
CHECK_DEADLOCK FALSE
