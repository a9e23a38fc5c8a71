SPECIFICATION FairSpec
CONSTANTS
  Subs = {s1, s2}
  NoSub = NoSub
  Pullers = {p1, p2}
  Notifiers = {n1, n2}
  maxSubscriptions = 1
  MaxEvents = 2
INVARIANTS EachEventOnce NoLostWakeup
PROPERTIES WaiterIsServed
CHECK_DEADLOCK FALSE
