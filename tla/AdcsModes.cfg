SPECIFICATION Spec
CONSTANTS
  Readings = {"nominal", "askew", "spinning", "no_gyroscope"}
  CommandedModes = {"SAFE"}
  Goals = {"g1"}
  Axes = {"x"}
  OtherCommands = {"inhibit", "refused", "reset", "shutdown"}
  Stale = 1
  FaultStale = 2
  FixAge = 2
  DetumbleSettle = 2
  SunSettle = 2
  SlewSettle = 1
  QueueLength = 1
  MaxLag = 1
  MaxCommands = 1
  MaxUpsets = 1
INVARIANT TypeOK
PROPERTIES NoTorqueUnderFault PointsWithFreshAttitude SunSettleIsEarned
CHECK_DEADLOCK FALSE
