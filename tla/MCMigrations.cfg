SPECIFICATION Spec
CONSTANTS
  Runners = {r1, r2}
  Releases <- MCReleases
  Content <- MCContent
  Replaces <- MCReplaces
  Data = {"d"}
  MaxRuns = 6
  MaxCrashes = 1
INVARIANTS
  HistoryMatchesSchema
  LastBatchIsNewest
  
CHECK_DEADLOCK FALSE
