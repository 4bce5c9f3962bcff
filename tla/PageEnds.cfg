SPECIFICATION FairSpec
CONSTANTS
  f1 = f1
  f2 = f2
  NoFile = NoFile
  Files <- TwoFiles
  Selections <- PageLists
  NumChunks <- SmallSizes
  Concurrency = 2
  MaxRetries = 2
  MaxStarts = 2
  MaxInits = 2
  MaxFaults = 1
PROPERTIES
  RunsEnd
CHECK_DEADLOCK FALSE
