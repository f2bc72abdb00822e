SPECIFICATION Spec
CONSTANTS
  N = 2
  MaxCrashRestarts = 1
  Commands <- AllCommands
  MaxInbox = 1
  MaxCrashes = 2
  MaxRequests = 1
  MaxQuiet = 1
  MaxSpawnFailures = 1
INVARIANT TypeOK
INVARIANT SingleInstance
INVARIANT VictimIsOurChild
INVARIANT EntryTracksChild
INVARIANT CrashAccounting
INVARIANT ScanRespectsShutdown
PROPERTY ImplementsLifecycle
