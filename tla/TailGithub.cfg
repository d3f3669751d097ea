CONSTANTS
  Streams = {github}
  JobNames = {}
  Values = {"up", "down"}
  Limit = 500
  LocalSecs = 5
  ReadSecs = 60
  LookbackTicks = 4
  LookbackFloor = 60
  PollTime = 1
  Slack = 2
  MaxFaults = 0
  MaxTime = 130
SPECIFICATION Spec
INVARIANTS EachTransitionShown
CHECK_DEADLOCK FALSE
