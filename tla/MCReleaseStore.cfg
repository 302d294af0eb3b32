SPECIFICATION Spec
CONSTANTS
    Workers = {w1}
    Releases = {r1, r2}
    Absent = Absent
    Empty = Empty
    Torn = Torn
    FaultPoints = {"unpack", "drop_history", "fill_history", "stage", "backup", "incoming", "publish", "undo_drop", "undo_restore", "check_live", "restore", "rb_check", "rb_archive", "rb_done", "drop_stage", "prune"}
    MaxFaults = 2
    MaxCrashes = 1
    MaxTrouble = 2
    KeepReleases = {0, 1}
    KeepRollbacks = 1
SYMMETRY Symmetry
INVARIANTS
    TypeOK
    LiveOrPreviousIntact
    CompletedDeployKeepsBoth
    FailedDeployKeepsLive
    NoResidueWedgesTheStore
    RollbackIsAllOrNothing
