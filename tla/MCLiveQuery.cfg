SPECIFICATION Spec
CONSTANTS
    x1 = x1
    x2 = x2
    t1 = t1
    t2 = t2
    q1 = q1
    Runs = {x1, x2}
    Threads = {t1, t2}
    Queries = {q1}
    NoRun = NoRun
    None = None
    Absent = Absent
    Empty = Empty
    Stub = Stub
    CacheSize = 1
    MaxTime = 5
    MaxReleases = 2
    MaxSwitches = 2
    MaxRequests = 2
INVARIANTS
    TypeOK
    IndexIsOfTheRelease
    SearchIsOfTheRelease
    ReleaseIsOfOneMoment
PROPERTIES
    SwitchEndsServed
SYMMETRY Symmetric
CHECK_DEADLOCK FALSE
