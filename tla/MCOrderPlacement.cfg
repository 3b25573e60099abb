SPECIFICATION Spec
CONSTANTS
  Orders = {o1, o2, o3}
  NoOrder = NoOrder
  OrderLabs = {l1, l2}
  CampaignLabs = {c1}
  MaxOrders = 2
  MaxReminders = 2
  MaxBulk = 2
  MaxCampaignSize = 3
  MaxFaults = 2
  MaxCrashes = 1
INVARIANTS
  JobsBackTheAnswer
  RepositoryKeepsNewest
SYMMETRY Symmetry
CHECK_DEADLOCK FALSE
