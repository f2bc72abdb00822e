SPECIFICATION Spec
CONSTANTS
    Second = 2
    Stall = 3
    BeatTimeout = 4
    SyncInterval = 10
    SunInterval = 10
    Backlog = 2
    MaxWire = 2
    MayStick = {"ingest", "relay", "broadcast", "request", "autonomy", "storage"}
    MaxStuck = 1
    MaxEvents = 1
    MaxAge = 49
INVARIANTS RelayInv OnlyHeldRolesRestarted SyncIsRecent CommandsKeepComing
