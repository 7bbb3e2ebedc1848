SPECIFICATION FairSpec
CONSTANTS
  key = key
  first = first
  again = again
  bad = bad
  Keys = {key}
  Messages = {first, again, bad}
  KeyOf <- MCKeyOf
  BadMessages = {bad}
  Runs = {r1, r2}
  MaxAttempts = 2
  MaxFaults = 2
INVARIANTS
  AckedMeansSettled
  NewestClaimSettles
  ExclusiveWithoutFaults
PROPERTIES
  QueuedIsAcked
  ImplementsContract
CHECK_DEADLOCK FALSE
