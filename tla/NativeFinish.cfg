\* A finish while another thread waits for and releases an event.
CONSTANTS
    t1 = t1
    t2 = t2
    w1 = w1
    w2 = w2
    Threads = {t1, t2}
    Workers = {w1, w2}
    MaxEvents = 2
    NumTasks = 2
    FinishAlone = FALSE
SPECIFICATION Spec
INVARIANT FinishUsesLiveEvents
