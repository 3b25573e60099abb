SPECIFICATION FairSpec
CONSTANTS
  Tenants = {t1}
  Tiers <- TwoTiers
  Slots <- TierSlots
  NoTier = NoTier
  NoWorker = NoWorker
  Notes = {n1, n2}
  Removals = {d1, d2}
  TrailCapacity = 1
  MaxLives = 2
  MaxCrashes = 1
INVARIANTS
  
  RemovedMeansGone
  SettledTableIsTheRegistry
 
CHECK_DEADLOCK FALSE
