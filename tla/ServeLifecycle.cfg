CONSTANTS
  Procs = {p1, p2}
  Databases = {d1, d2}
  ChannelBound = 1
  MaxLogs = 2
  Producers = {"local", "hooks"}
  None = None
SPECIFICATION FairSpec
INVARIANTS ReachableUnlessRaced
PROPERTIES ReturnsClean SignalEnds
