SPECIFICATION FairSpec
CONSTANTS
  Conns = {c1, c2}
  Readers = {r1}
  Nobody = Nobody
  Kinds = {"stateful", "shared", "plain"}
  MaxComponents = 4
  MaxWrites = 2
  MaxFailures = 1
  MaxStops = 2
INVARIANTS
  OneComponentForAll
  PeersConverge
PROPERTIES
  EveryCallAnswered
  ImplementsStateContract
CHECK_DEADLOCK FALSE
