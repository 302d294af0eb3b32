SPECIFICATION Spec
CONSTANTS
    Workers = {w1}
    Releases = {r1, r2}
    Absent = Absent
    Empty = Empty
    Torn = Torn
    FaultPoints = {"retire"}
    MaxFaults = 1
    MaxCrashes = 0
    MaxTrouble = 2
    KeepReleases = {1}
    KeepRollbacks = 1
INVARIANT FailedDeployKeepsLive
