CONSTANTS
  Seeds = {s1, s2}
  MaxWorkers = 2
  MaxRetries = 3
  Ends = {"file", "skip", "raise", "etime", "die", "hang"}
SPECIFICATION FairSpec
CHECK_DEADLOCK FALSE
INVARIANT QuietWhenSaved Accounted
PROPERTY FinishedFilesStay Terminates
