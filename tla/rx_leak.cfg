SPECIFICATION Spec
CONSTANTS
  N = 3
  Pbuf = {b1, b2, b3, b4, b5}
  NoPbuf = NoPbuf
  InpktMax = 1
  EmptyFrames = FALSE
  MaxFrames = 4
  MaxReinit = 0
SYMMETRY PbufSymmetry
INVARIANT NoLeak
