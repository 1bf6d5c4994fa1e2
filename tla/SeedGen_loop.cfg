CONSTANTS
  InstrNumber = 5
  Redundancy = 1
  RetryFactor = 1
  MaxMutate = 2
  MaxExpand = 2
  MiddleLens = {1, 3}
  Exts = {"plain", "c", "cx", "ill"}
  Options <- MCOptions
  Faults = {"compile", "run", "index", "raise"}
SPECIFICATION FairSpec
CHECK_DEADLOCK FALSE
INVARIANT BytesTracked OvershootBounded SlotsAccounted
PROPERTY Terminates
