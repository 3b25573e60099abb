SPECIFICATION FairSpec
CONSTANTS
  DefaultAttempts = 2
  TraceCapacity = 0
  MaxStalledCount = 0
  MaxCrashes = 0
  Watched = TRUE
INVARIANTS
  TreeIsCausal
  FinalTreeIsTheTruth
PROPERTY
  PollingStops
CHECK_DEADLOCK FALSE
