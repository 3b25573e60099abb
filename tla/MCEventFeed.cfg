SPECIFICATION FairSpec
CONSTANTS
  BufferCapacity = 3
  ReplayCount = 2
  ListCapacity = 4
  MaxEvents = 5
  MaxDrops = 2
  MaxRestarts = 1
INVARIANTS
  PageShowsFeed
  ConnectionDeliversOnce
  OnlyGlobalEntriesAreLate
PROPERTY
  PageCatchesUp
CHECK_DEADLOCK FALSE
