CONSTANTS
  Conns = {c1, c2}
  Tools = {t1, t2}
  Denied = {t2}
  None = None
  MaxEdits = 2
  MaxFaults = 2
SPECIFICATION FairSpec
INVARIANTS EditsSurvive
PROPERTIES EndpointFollows ImplementsFile
CHECK_DEADLOCK FALSE
