SPECIFICATION Spec
CONSTANTS
  FrameSize = 4
  DecodedSizes = {2, 3, 4}
  Levels <- Loudness
  Gains <- GainValues
  PCMMod = 16
  ProductMod = 256
  SeqMod = 4
  TSMod = 64
  MaxPackets = 7
INVARIANTS SamplesInOrder RoomForNext Renumbered
CHECK_DEADLOCK FALSE
