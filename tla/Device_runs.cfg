CONSTANTS
  Seeds = {"a1", "a2", "b"}
  Configs <- MCConfigs
  Log <- MCLog
  Threads = 2
  Broken = {"seedlog", "configlog", "prepare"}
  Names = {"n1", "n2"}
  MaxRuns = 2
  ToolsFail = TRUE
SPECIFICATION DeviceSpec
CHECK_DEADLOCK FALSE
INVARIANT UndisturbedLogWhole EverySeedCounted
INVARIANT WorkedIsFresh StagesOrdered
PROPERTY DeviceEnds NewSeedsTested
