\* Every function, one thread with two queues.
CONSTANTS
    t1 = t1
    t2 = t2
    q1 = q1
    q2 = q2
    k1 = k1
    none = none
    Threads = {t1}
    Queues = {q1, q2}
    Kernels = {k1}
    NoKernel = none
    NoQueue = none
    Functions <- AllFunctions
    Exclusive = TRUE
    MayFail = TRUE
    MaxCmds = 3
    MaxRefs = 2
SYMMETRY Symmetry
SPECIFICATION Spec
INVARIANTS TypeOK WaitsHonoured
