CONSTANTS
  Entry = {a, b, c}
  Capacity = 3
  MaxPushes = 7
SPECIFICATION RingSpec
INVARIANTS
  SnapshotIsNewestWindow
PROPERTY RefinesBoundedLog
\* The history bound ends the run; the buffer itself always accepts a push.
CHECK_DEADLOCK FALSE
