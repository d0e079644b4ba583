SPECIFICATION Spec
CONSTANTS
  Outputs = {"eDP", "HDMI"}
  Texts <- T
  MaxSaves = 1
  MaxEdits = 0
INVARIANTS OnlyTheKey
CHECK_DEADLOCK FALSE
