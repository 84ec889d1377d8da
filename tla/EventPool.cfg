\* Two threads, two bursts of one event: reuse, deferral, concurrent release
\* and finish, and every Level Zero call failing.
CONSTANTS
    t1 = t1
    t2 = t2
    Threads = {t1, t2}
    EVENTS_BURST = 1
    MaxEvents = 2
    MaxCmds = 2
    MaxRefs = 2
    MayFail = TRUE
SPECIFICATION FairSpec
INVARIANTS TypeOK OneOwner NoWriteAfterFree AssertionsHold
PROPERTIES ImplementsAllocator FinishReclaims
