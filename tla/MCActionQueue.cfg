SPECIFICATION FairSpec
CONSTANTS
  c1 = c1
  c2 = c2
  c3 = c3
  s1 = s1
  s2 = s2
  i1 = i1
  i2 = i2
  Calls = {c1, c2, c3}
  Sockets = {s1, s2}
  Ids = {i1, i2}
  SocketOf <- MCSocketOf
  IdsOf <- MCIdsOf
  None = None
  Refused = Refused
  MaxYields = 1
INVARIANTS
  OwnIdentity
  OneAnswer
  Cancellable
PROPERTIES
  CancelHolds
  TurnComes
CHECK_DEADLOCK FALSE
