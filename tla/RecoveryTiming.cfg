SPECIFICATION Spec
CONSTANTS
  R = 2
  RoleTimeout = 5
  FdirTimeout = 5
  Grace = 3
  Pause = 2
  Threshold = 1
  Backlog = 1
  MaxHangs = 1
  MaxFdirHangs = 0
  MaxNotices = 2
  MaxLosses = 0
  MaxSpawnFails = 0
  MaxWait = 2
  MaxAge = 12
INVARIANT RecoveryInv
PROPERTY OnlyHungRolesReported
