SPECIFICATION Spec
CONSTANTS
    k1 = k1
    k2 = k2
    Tasks = {k1, k2}
    Options <- MCOptions
    Absent = Absent
    None = None
    ProcessWorkers = 1
    PendingArg = 1
    RequestRetries = 1
    LoginRetries = 1
    GapPasses = 1
    MaxAttempts = 2
    MaxFaults = 1
    FaultPoints = {"import", "requeue", "ensure", "load", "record", "rows", "checkpoint", "publish"}
INVARIANTS
    TypeOK
    BacklogBounded
    ReloginOnlyWhenExpired
    CompletedTriedEverything
    OpenGapsWereReplayed
PROPERTIES
    CollectedIsNotRequestedAgain
    ImplementsLedger
CHECK_DEADLOCK FALSE
