SPECIFICATION FairSpec
CONSTANTS
  Clients = {a, b}
  Timers = {t}
  Chans = {x, y}
  NoTimer = NoTimer
  NoChan = NoChan
  WarmMode = TRUE
  MaxClients = 3
PROPERTIES StopsOnLastOnly
