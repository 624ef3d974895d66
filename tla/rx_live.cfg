SPECIFICATION FairSpec
CONSTANTS
  N = 2
  Pbuf = {b1, b2, b3, b4}
  NoPbuf = NoPbuf
  InpktMax = 1
  EmptyFrames = TRUE
  MaxFrames = 3
  MaxReinit = 1
PROPERTIES
  EveryFrameTaken
  DmaRestarts
