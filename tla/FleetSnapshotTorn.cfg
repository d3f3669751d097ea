CONSTANTS
  Runners = {r1}
  ChannelBound = 1
  Retention = 1
  MaxAge = 1
  Batch = 1
  None = None
  MaxTime = 2
SPECIFICATION Spec
INVARIANTS OfflineSecondsOnlyWhenOffline
CHECK_DEADLOCK FALSE
