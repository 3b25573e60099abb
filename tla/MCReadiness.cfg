SPECIFICATION HealthFairSpec
CONSTANTS
  audit = audit
  email = email
  Cached = {audit, email}
  Probed = audit
  Chips = {topbar, page}
  CacheTtl = 2
  Timeout = 1
  MaxOutages = 2
  MaxCrashes = 1
INVARIANTS
  FailsClosed
PROPERTIES
  ProbesAreAnswered
  
