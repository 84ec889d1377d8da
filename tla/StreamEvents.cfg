\* Every enqueue function, the ones that leave the documented behaviour included.
CONSTANTS
    q1 = q1
    q2 = q2
    Threads = 1
    Queues = {q1, q2}
    NoQueue = "none"
    ComputeSize <- ComputeSizes
    TransferSize <- TransferSizes
    TokenRange = 16
    Deviations = TRUE
    FinishOverlap = FALSE
    MaxCalls = 2
    MaxOps = 3
    MaxNodes = 0
    MaxList = 2
SPECIFICATION Spec
CHECK_DEADLOCK FALSE
INVARIANTS EventsHonest
