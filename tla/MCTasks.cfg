SPECIFICATION FairSpec
CONSTANTS
  load = load
  sibling = sibling
  Keys = {load, sibling}
  MaxRuns <- MCMaxRuns
INVARIANTS
  OneOwner
  ScopeOutlivesCleanups
PROPERTIES
  NewestCommits
  NothingLeaks
CHECK_DEADLOCK FALSE
