SPECIFICATION FairSpec
CONSTANTS
    o1 = o1
    j1 = j1
    j2 = j2
    j3 = j3
    h1 = h1
    Loop = Loop
    NoOrder = NoOrder
    NoJob = NoJob
    Orders = {o1}
    Jobs = {j1, j2}
    Handlers = {h1}
    MaxKeys = 2
    MaxAttempts = 2
    BatchLimit = 20
    Faults = {"unsent", "sent"}
CHECK_DEADLOCK FALSE
PROPERTY
    JobsEnd
