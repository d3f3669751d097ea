CONSTANTS
  Streams = {s1}
  JobNames = {j1}
  Values = {"up", "down"}
  Limit = 1
  LocalSecs = 1
  ReadSecs = 1
  LookbackTicks = 2
  LookbackFloor = 1
  PollTime = 1
  Slack = 1
  MaxFaults = 1
  MaxTime = 4
SPECIFICATION Spec
INVARIANTS NothingTwice OnlyChangesShown InReachShown
CHECK_DEADLOCK FALSE
