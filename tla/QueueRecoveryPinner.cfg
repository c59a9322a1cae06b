SPECIFICATION FairRSpec
CONSTANTS
  QueueSize = 1
  NumSenders = 1
  NumPinners = 1
  Readers = {}
  Cleaners = {c1}
  MaxSends = 3
  ReadAhead = 1
  Sentinel = 255
  LowModulus = 16
  MaxCrashes = 1
PROPERTIES
  SendReturns CleanupReturns
CHECK_DEADLOCK FALSE
