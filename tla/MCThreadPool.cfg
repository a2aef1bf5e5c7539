\* Three workers, a queue of two slots (so that it wraps, fills and refuses)
\* and four tasks.
CONSTANTS
    ThreadCount = 3
    QueueSize = 2
    Tasks = {t1, t2, t3, t4}
    NoTask = NoTask
SPECIFICATION TPFairSpec
INVARIANTS NoLostWakeup FreedIsQuiescent
PROPERTIES ImplementsTaskQueue AcceptedTasksRun DestroyReturns
