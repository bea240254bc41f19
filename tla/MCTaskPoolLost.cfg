SPECIFICATION FairSpec
CONSTANTS
    t1 = t1
    t2 = t2
    t3 = t3
    Threads <- MCThreads2
    NoThread = NoThread
    NumTags = 1
    MaxThreads = 2
    MinThreads = 1
    CountMax = 3
    MaxTasks = 3
PROPERTIES
    QueuedTaskRuns
CHECK_DEADLOCK FALSE
