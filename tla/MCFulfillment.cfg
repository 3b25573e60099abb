SPECIFICATION FairSpec
CONSTANTS
  DefaultAttempts = 2
  TraceCapacity = 4
  MaxStalledCount = 1
  MaxCrashes = 2
  Watched = FALSE
INVARIANTS
  EndsAsLaunched
  ShipsOnlyWhenPaid
  
PROPERTIES
  VariantDecidesOutcome
  KeepsDependencies
CHECK_DEADLOCK FALSE
