SPECIFICATION Spec
CONSTANTS
  S = 2
  Targets = {1, 2}
  QueueLength = 2
  MaxTemp = 5
  MaxCommands = 2
   
PROPERTY SnapshotIsWhole
CHECK_DEADLOCK FALSE
