CONSTANTS
  Templates = {"xiangshan", "nutshell", "cva6", "boom", "rocket"}
  Slots = 3
  Rounds = 1
  Regs = {2, 5, 13, 14, 15, 17, 31}
SPECIFICATION BootSpec
CHECK_DEADLOCK FALSE
INVARIANT Determined MiddleKept LowerModePrepared
PROPERTY InterruptResumes TestEnds
