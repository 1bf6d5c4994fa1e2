CONSTANTS
  Workers = {w1, w2}
  Keys = {"k1", "k2"}
  Pos <- TwoKeyPos
  SizeBits = 8
  ByteWidth = 2
  Modes = {"generate"}
  Restored = {}
  MaxCalls = 2
SPECIFICATION Spec
CHECK_DEADLOCK FALSE
PROPERTY SettledNotAccepted
