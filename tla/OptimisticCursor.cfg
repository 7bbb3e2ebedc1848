SPECIFICATION Spec
CONSTANTS
  MaxCalls = 1
  MaxEdits = 0
  MaxPeers = 1
  MaxBreaks = 0
INVARIANT NewestIsShown
CHECK_DEADLOCK FALSE
