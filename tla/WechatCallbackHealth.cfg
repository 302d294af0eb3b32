CONSTANTS
    i1 = i1
    i2 = i2
    x1 = x1
    u = u
    w1 = w1
    w2 = w2
    Images = {i1}
    Texts = {x1}
    Users = {u}
    Sender <- OneSender
    Workers = {w1}
    NoSession = NoSession
    Torn = Torn
    MaxTasks = 1
    MaxDeliveries = 2
    MaxFaults = 0
    MaxServiceCrashes = 0
    MaxWorkerCrashes = 1
CHECK_DEADLOCK FALSE
SPECIFICATION Spec
PROPERTIES CallbackUnaffectedByWorker
