SPECIFICATION FairSpec
CONSTANTS
  Goroutines = {g1, g2, g3}
  Timers = {t1, t2}
  Chans = {c1, c2, c3}
  NoTimer = NoTimer
  NoChan = NoChan
  WarmMode = TRUE
  MaxClients = 3
INVARIANTS TypeOK SingleDriver StopChannel WarmStopPending CountBounds
PROPERTIES LifecycleSpec TransitionsEnd
