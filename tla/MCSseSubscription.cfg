SPECIFICATION FairSpec
CONSTANTS
  Clients = {c1}
  MaxEvents = 2
  MaxWaiters = 1
  MaxCursor = 3
  MaxConns = 3
INVARIANTS
  EventsArrive
  

  
  
CHECK_DEADLOCK FALSE
