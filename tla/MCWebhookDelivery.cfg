SPECIFICATION FairSpec
CONSTANTS
  Webhooks = {w1, w2}
  MaxFailures = 5
  Attempts = 4
  Concurrency = 2
  LogCapacity = 1
  MaxStalledCount = 2
  NoJob = NoJob
  MaxPauses = 1
  MaxCleans = 1
  MaxCrashes = 2
INVARIANTS
  AttemptsAreExact
  
  StoppedPageIsRight
PROPERTIES
  BudgetDecides
CHECK_DEADLOCK FALSE
