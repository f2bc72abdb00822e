SPECIFICATION FairSpec
CONSTANTS
  PhotoChunks = 1
  PhotoCap = 1
  RetryLimit = 2
  BatchLimit = 2
  Backlog = 2
  Lengths = {2}
  MaxRecords = 2
  MaxCycles = 1
  MaxFaults = 2
PROPERTIES CycleEnds RecordsReachRadio
