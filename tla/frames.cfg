SPECIFICATION Spec
CONSTANTS
  FrameKinds = {"idr", "fragmented", "single"}
  MaxFrames = 3
  MaxFragments = 2
  SeqMod = 16
  FirstSeqs = {13}
  FrameCap = 3
  MaxLate = 1
  MaxBurst = 14
  MidFrameJoin = TRUE
INVARIANTS NoHoles IntactForwarded DropCountExact CacheOnlyKeyFrames
CHECK_DEADLOCK FALSE
