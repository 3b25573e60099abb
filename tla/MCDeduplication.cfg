CONSTANTS
  t1 = t1
  t2 = t2
  t3 = t3
  u1 = u1
  s1 = s1
  s2 = s2
  Tabs <- TabsDef
  Users <- UsersDef
  Terms <- TermsDef
  MaxClicks = 4
  MaxRemovals = 2
  MaxLost = 1
SPECIFICATION Spec
SYMMETRY Symmetry
CHECK_DEADLOCK FALSE
INVARIANTS
  FalseNewsNeedsOverlap
  NewJobsAreReported
  OneWelcomePerLife
  OneJobPerKey
