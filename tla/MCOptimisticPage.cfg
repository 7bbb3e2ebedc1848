SPECIFICATION Spec
CONSTANTS
  MaxCalls = 2
  MaxEdits = 1
  MaxPeers = 1
  MaxBreaks = 1
INVARIANTS
  NoGuessRemains
  Converged
PROPERTIES
  PendingStaysVisible
  EditSurvives
CHECK_DEADLOCK FALSE
