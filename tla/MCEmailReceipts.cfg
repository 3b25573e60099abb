CONSTANTS
  Receipts = {r1, r2, r3}
  Welcomes = {}
  Others = {}
  Slots = {s1, s2}
  NoJob = NoJob
  NoLock = NoLock
  MarkerCapacity = 2
  MaxStalledCount = 1
  MaxRestarts = 2
SPECIFICATION Spec
INVARIANTS
  OneSendPerMarkerLife
  CompletedReceiptWasSent
  MarkersRecordLatestSend
PROPERTY KeepsLedger
SYMMETRY Symmetry
CHECK_DEADLOCK FALSE
