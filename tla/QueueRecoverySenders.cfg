SPECIFICATION FairRSpec
CONSTANTS
  QueueSize = 1
  NumSenders = 2
  NumPinners = 0
  Readers = {}
  Cleaners = {c1}
  MaxSends = 2
  ReadAhead = 1
  Sentinel = 255
  LowModulus = 16
  MaxCrashes = 2
INVARIANTS
  OwnershipRecovered FreeIsClean
PROPERTIES
  SendReturns CleanupReturns
CHECK_DEADLOCK FALSE
