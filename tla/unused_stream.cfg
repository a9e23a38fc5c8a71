SPECIFICATION FairSpec
CONSTANTS
  Clients = {a}
  Timers = {t}
  Chans = {x, y}
  NoTimer = NoTimer
  NoChan = NoChan
  WarmMode = FALSE
  MaxClients = 2
PROPERTIES StopsOnLast
