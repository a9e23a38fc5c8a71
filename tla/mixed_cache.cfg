SPECIFICATION Spec
CONSTANTS
  Clients = {c1, c2}
  SeqMod = 8
  TSMod = 64
  CameraTS = {0, 62}
  FrameTicks = 3
  MinGap = 4
  Gaps = {0, 7}
  MaxFrames = 3
  MaxSessions = 2
INVARIANTS CacheIsOneFrame
CHECK_DEADLOCK FALSE
