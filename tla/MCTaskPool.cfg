SPECIFICATION FairSpec
CONSTANTS
    t1 = t1
    t2 = t2
    t3 = t3
    Threads <- MCThreads3
    NoThread = NoThread
    NumTags = 2
    MaxThreads = 3
    MinThreads = 1
    CountMax = 2
    MaxTasks = 3
INVARIANTS
    LockInv
    Accounting
    StallOnlyAfterExit
PROPERTIES
    GenericTaskRuns
    StopTerminates
    ImplementsSerialExecutor
CHECK_DEADLOCK FALSE
