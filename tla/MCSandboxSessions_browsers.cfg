SPECIFICATION Spec
CONSTANTS
  b1 = b1
  b2 = b2
  t1 = t1
  t2 = t2
  Browsers = {b1, b2}
  Tabs = {t1, t2}
  Callers = {t1}
  BrowserOf <- SeparateBrowser
  Sessions = {s1, s2, s3}
  None = None
  Lifetime = 1
  Ttl = 2
  Skew = 0
  SeedSteps = 1
  MaxFaults = 1
  MaxTime = 1
SYMMETRY Symmetry
INVARIANTS TypeOK CookieIsSeeded RevokedForCause NoAccessAfterBoundary
CHECK_DEADLOCK FALSE
