SPECIFICATION Spec
CONSTANTS
  MaxCalls = 2
  MaxCloses = 1
CHECK_DEADLOCK FALSE
INVARIANTS
  ShowsFront
