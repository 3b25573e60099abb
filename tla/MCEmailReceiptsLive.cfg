CONSTANTS
  Receipts = {r1}
  Welcomes = {w1}
  Others = {o1}
  Slots = {s1, s2}
  NoJob = NoJob
  NoLock = NoLock
  MarkerCapacity = 1
  MaxStalledCount = 1
  MaxRestarts = 1
SPECIFICATION FairSpec
INVARIANT
  OneEffectPerDelivery
PROPERTY EveryJobEnds
CHECK_DEADLOCK FALSE
