SPECIFICATION FairSpec
CONSTANTS
  Callers = {g1, g2}
  Nobody = Nobody
  EventCap = 1
  MaxRequests = 4
  MaxEvents = 2
INVARIANTS OthersAfterTimeout ResponsesInOrder
PROPERTIES DeathIsSignalled
CHECK_DEADLOCK FALSE
