\* Two threads, two workers, two commands, two tasks a launch.
CONSTANTS
    t1 = t1
    t2 = t2
    w1 = w1
    w2 = w2
    Threads = {t1, t2}
    Workers = {w1, w2}
    MaxEvents = 2
    NumTasks = 2
    FinishAlone = TRUE
SPECIFICATION FairSpec
INVARIANTS TypeOK CompleteMeansExecuted StoppedMeansDrained FinishUsesLiveEvents
PROPERTIES FinishWaitsForAll TasksExecuted CallsReturn
