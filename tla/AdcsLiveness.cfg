SPECIFICATION FairSpec
CONSTANTS
  Readings = {"nominal", "spinning", "weak_spinning"}
  CommandedModes = {}
  Goals = {}
  Axes = {}
  OtherCommands = {}
  Stale = 1
  FaultStale = 2
  FixAge = 2
  DetumbleSettle = 2
  SunSettle = 2
  SlewSettle = 1
  QueueLength = 1
  MaxLag = 0
  MaxCommands = 0
  MaxUpsets = 1
PROPERTIES FieldFaultEndsInSafe  NominalReachesSun
