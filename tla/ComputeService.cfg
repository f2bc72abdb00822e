SPECIFICATION FairSpec
CONSTANTS
  MaxJobs = 2
  Chunks = 2
  Blocks = 1
  Cap = 2
  Backlog = 1
  MaxCancels = 1
  MaxLosses = 1
  MaxDataFaults = 1
  MaxLocalFaults = 1
INVARIANTS JobInv CancelHitsItsJob OkMeansInOrder
PROPERTY EveryRequestAnswered
