SPECIFICATION Spec
CONSTANTS
  PhotoChunks = 2
  PhotoCap = 3
  RetryLimit = 2
  BatchLimit = 2
  Backlog = 3
  Lengths = {2}
  MaxRecords = 3
  MaxCycles = 1
  MaxFaults = 2
INVARIANTS MissionInv CursorIsSent ResendsBounded
