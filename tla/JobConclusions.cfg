CONSTANTS
  Legs <- MCLegs
  Before <- MCBefore
  Tokenless = {"poor"}
  NoActions = {}
  Window = 1
  Limit = 3
  Lookups = 2
  Bound = 1
  None = None
  MaxTime = 3
  MaxFaults = 1
SPECIFICATION FairSpec
 
PROPERTIES ConclusionsStick 
CHECK_DEADLOCK FALSE
