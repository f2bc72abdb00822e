SPECIFICATION FairSpec
CONSTANTS
  N = 2
  MaxCrashRestarts = 1
  Commands <- RestartOnly
  MaxInbox = 1
  MaxCrashes = 2
  MaxRequests = 0
  MaxQuiet = 1
  MaxSpawnFailures = 0
PROPERTY ShutdownTerminates
PROPERTY CrashIsRepaired
PROPERTY FrozenFdirIsRestarted
