SPECIFICATION Spec
CONSTANTS
  Requests = {r1, r2}
  ApiKeys = {service, admin}
  Admins = {admin}
  Calls <- SomeCalls
  MaxRequests <- OnePerWindow
  MaxWindow = 1
  Bounds = {1, 2}
  Durations = {1, 3}
  Nobody = Nobody
  Forged = Forged
SYMMETRY Symmetry
INVARIANTS TypeOK HandlerActsAsCaller DatabaseIsShielded MetricsAreExact
CHECK_DEADLOCK FALSE
