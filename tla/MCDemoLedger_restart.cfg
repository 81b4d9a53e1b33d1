SPECIFICATION Spec
CONSTANTS
  Seeders = {d1}
  Resets = {}
  Operators = {}
  Addresses <- Bob
  None = None
  MaxEvents = 1
  MaxId = 3
INVARIANTS ListensSeeded
CHECK_DEADLOCK FALSE
