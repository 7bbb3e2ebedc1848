SPECIFICATION FairSpec
CONSTANTS
  Ops = {p1, p2, p3, s1}
  Streams = {s1}
  NoOp = NoOp
  MaxPending = 3
  MaxFrames = 2
  MaxAborts = 1
INVARIANTS
  SlotConsistent
PROPERTIES
  CancelledNeverCalled
  EveryRequestEnds
  ImplementsScopeContract
CHECK_DEADLOCK FALSE
