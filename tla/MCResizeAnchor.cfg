CONSTANTS
  Reach = 1
  MaxGrabs = 2
  MaxMotions = 2
  MaxFrames = 1
SPECIFICATION Spec
INVARIANT EdgeStays
CHECK_DEADLOCK FALSE
