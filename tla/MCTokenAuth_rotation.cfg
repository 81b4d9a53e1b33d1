SPECIFICATION Spec
CONSTANTS
  p1 = p1
  p2 = p2
  Processes = {p1, p2}
  Keys = {1, 2, 3}
  Offset <- Ahead
  Ttl = 1
  Skew = 1
  MaxTime = 3
INVARIANTS TypeOK TokenServesItsLifetime DroppedKeyIsDead
CHECK_DEADLOCK FALSE
