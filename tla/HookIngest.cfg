CONSTANTS
  Runners = {r1}
  Jobs = {j1}
  Part = Part
  Junk = Junk
  None = None
  Chunk = 2
  ChannelBound = 2
  MaxLog = 3
  MaxFaults = 2
SPECIFICATION FairSpec
INVARIANTS RowsMatchOffset NoHolesNoStepsBack
PROPERTIES OffsetsAdvance EveryLineLands ImplementsLedger
