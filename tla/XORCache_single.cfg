CONSTANTS
  Workers = {w1}
  Keys = {"k1", "k2", "k3"}
  Pos <- MixedPos
  SizeBits = 8
  ByteWidth = 2
  Modes = {"generate"}
  Restored = {"k2"}
  MaxCalls = 4
SPECIFICATION Spec
CHECK_DEADLOCK FALSE
PROPERTY DedupSpec
