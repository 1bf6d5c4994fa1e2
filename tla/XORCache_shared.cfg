CONSTANTS
  Workers = {w1, w2}
  Keys = {"k1", "k2", "k3"}
  Pos <- MixedPos
  SizeBits = 8
  ByteWidth = 2
  Modes = {"generate", "mutate"}
  Restored = {}
  MaxCalls = 2
SPECIFICATION Spec
CHECK_DEADLOCK FALSE
INVARIANT TypeOK Retained
PROPERTY RejectsCovered SafeNotAccepted
