\* Two values are enough.
SPECIFICATION Spec
CONSTANTS
  MaxValues = 2
  MaxCtr = 3
INVARIANTS
  NoFault
CHECK_DEADLOCK FALSE
