\* Two threads, each with a queue of its own at a time, sharing a kernel;
\* no symmetry, which would not be sound for the liveness property.
CONSTANTS
    t1 = t1
    t2 = t2
    q1 = q1
    q2 = q2
    k1 = k1
    none = none
    Threads = {t1, t2}
    Queues = {q1, q2}
    Kernels = {k1}
    NoKernel = none
    NoQueue = none
    Functions <- LaunchFunctions
    Exclusive = TRUE
    MayFail = TRUE
    MaxCmds = 2
    MaxRefs = 1
SPECIFICATION FairSpec
INVARIANTS KernelAliveWhilePending KernelCountExact
PROPERTY CallsReturn
