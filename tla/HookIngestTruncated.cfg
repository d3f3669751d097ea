CONSTANTS
  Runners = {r1}
  Jobs = {j1}
  Part = Part
  Junk = Junk
  None = None
  Chunk = 2
  ChannelBound = 1
  MaxLog = 2
  MaxFaults = 1
SPECIFICATION TruncFairSpec
PROPERTIES FailedBatchIsReadAgain
