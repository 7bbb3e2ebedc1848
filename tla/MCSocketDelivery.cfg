SPECIFICATION FairSpec
CONSTANTS
  Keys = {k1, k2}
  MaxPending = 2
  MaxSends = 5
INVARIANTS
  DeliveredInContext
  NothingAfterAccessLost
PROPERTIES
  EverythingArrives
CHECK_DEADLOCK FALSE
