\* An out-of-order and an in-order queue, two threads.
CONSTANTS
    q1 = q1
    q2 = q2
    Threads = 2
    Queues = {q1, q2}
    NoQueue = "none"
    ComputeSize <- ComputeSizes
    TransferSize <- TransferSizes
    TokenRange = 16
    Deviations = FALSE
    FinishOverlap = FALSE
    MaxCalls = 4
    MaxOps = 3
    MaxNodes = 3
    MaxList = 2
SPECIFICATION Spec
CHECK_DEADLOCK FALSE
INVARIANTS TypeOK WaitsHonoured EventsHonest ReturnsMean
