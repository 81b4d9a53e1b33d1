SPECIFICATION Spec
CONSTANTS
  Scopes <- TwoScopes
  Ips = {i1, i2}
  MaxRequests <- Requests
  WindowMs <- Windows
  Second = 2
  MaxTime = 3
SYMMETRY Addresses
INVARIANTS TypeOK BurstIsBounded RefusalIsEarned
CHECK_DEADLOCK FALSE
