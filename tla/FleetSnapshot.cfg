CONSTANTS
  Runners = {r1}
  ChannelBound = 2
  Retention = 1
  MaxAge = 1
  Batch = 1
  None = None
  MaxTime = 2
SPECIFICATION Spec
INVARIANTS  HealthRemembersSuccess  NoSampleWithoutEdge
CHECK_DEADLOCK FALSE
