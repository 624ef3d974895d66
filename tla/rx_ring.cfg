SPECIFICATION Spec
CONSTANTS
  N = 3
  Pbuf = {b1, b2, b3, b4, b5, b6}
  NoPbuf = NoPbuf
  InpktMax = 2
  EmptyFrames = TRUE
  MaxFrames = 5
  MaxReinit = 2
SYMMETRY PbufSymmetry
INVARIANTS
  TypeOK
  FramesInOrder
  DmaPrivate
  OneOwner
  NoTokenLost
PROPERTIES
  ImplementsFifo
  OnlyKnownLeaks
