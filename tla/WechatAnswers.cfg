CONSTANTS
    i1 = i1
    i2 = i2
    x1 = x1
    u = u
    w1 = w1
    w2 = w2
    Images = {i1, i2}
    Texts = {}
    Users = {u}
    Sender <- OneSender
    Workers = {w1, w2}
    NoSession = NoSession
    Torn = Torn
    MaxTasks = 2
    MaxDeliveries = 1
    MaxFaults = 1
    MaxServiceCrashes = 0
    MaxWorkerCrashes = 1
CHECK_DEADLOCK FALSE
SPECIFICATION Spec
PROPERTIES EveryTaskAnswered
