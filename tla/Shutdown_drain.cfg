SPECIFICATION ShutdownSpec
CONSTANTS
  Signals = {SIGINT, SIGTERM}
  Requests = {r1, r2}
  Unset = Unset
  ShutdownTimeout = 3
  PoolTimeout = 2
INVARIANTS ShutdownTypeOK CutOnlyWhenAbandoned CleanExitIsDrained
PROPERTIES ShutdownEnds
CHECK_DEADLOCK FALSE
