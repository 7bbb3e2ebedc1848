SPECIFICATION FairSpec
CONSTANTS
  Callers = {e1, e2}
  Runs = {r1, r2}
  Nobody = Nobody
  MaxAttempts = 2
  MaxFaults = 3
INVARIANTS
  AtMostOneMail
  StatusIsHonest
PROPERTIES
  VerdictIsFinal
  ReturnedIsSettled
CHECK_DEADLOCK FALSE
