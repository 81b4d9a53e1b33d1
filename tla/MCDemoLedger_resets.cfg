SPECIFICATION Spec
CONSTANTS
  Seeders = {d1}
  Resets = {r1, r2}
  Operators = {o1}
  Addresses <- Bob
  None = None
  MaxEvents = 2
  MaxId = 4
INVARIANT TypeOK
PROPERTIES ResetServesSeeded
CHECK_DEADLOCK FALSE
SYMMETRY Symmetry
