SPECIFICATION FairSpec
CONSTANTS
  Boots = {"nightly", "heartbeat"}
  Ids = {"nightly", "heartbeat", "own"}
  Queues = {"maintenance", "monitoring"}
  QueueOf <- IdQueue
  Monitoring = "monitoring"
  Slots = {s1}
  TicksCapacity = 1
  MaxEdits = 1
  MaxFaults = 1
  MaxLives = 2
INVARIANTS
  ServingMeansScheduled
  
 
CHECK_DEADLOCK FALSE
