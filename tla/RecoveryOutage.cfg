SPECIFICATION Spec
CONSTANTS
  R = 2
  RoleTimeout = 5
  FdirTimeout = 5
  Grace = 3
  Pause = 2
  Threshold = 1
  Backlog = 2
  MaxHangs = 1
  MaxFdirHangs = 1
  MaxNotices = 0
  MaxLosses = 1
  MaxSpawnFails = 1
  MaxWait = 0
  MaxAge = 12
INVARIANT HungRoleIsBack
