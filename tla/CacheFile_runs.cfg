CONSTANTS
  Keys = {"add", "sub", "mul"}
  Shapes = {"k3", "k5", "big"}
  SizeBytes <- MCSizeBytes
  Cells <- MCCells
  NoShape = NoShape
  MaxRuns = 3
SPECIFICATION Spec
CHECK_DEADLOCK FALSE
INVARIANT NoStaleBits KnownInFilter
PROPERTY SavedNotAccepted
