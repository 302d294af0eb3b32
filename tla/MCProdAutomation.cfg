SPECIFICATION Spec
CONSTANTS
    Procs = {p1, p2}
    Torn = Torn
    MaxReleases = 4
    MaxFaults = 3
    MaxCrashes = 2
INVARIANTS
    TypeOK
    OneRunAtATime
    PendingIsOnDisk
    FailedSyncIsRemembered
PROPERTIES
    LiveNeverGoesBack
    PendingIsSynced
