CONSTANTS
  Conns = {c1, c2}
  Tools = {}
  Denied = {}
  None = None
  MaxEdits = 2
  MaxFaults = 0
SPECIFICATION Spec
INVARIANTS ToggleNeedsNoRestart
CHECK_DEADLOCK FALSE
