SPECIFICATION PooledFairSpec
CONSTANTS
    c1 = c1
    k1 = k1
    v1 = v1
    t1 = t1
    t2 = t2
    NoValue = NoValue
    NoClient = NoClient
    Clients <- MCClients1
    Keys <- MCKeys1
    Values <- MCValues1
    Faults = {}
    MaxFaults = 1
    MaxCommits = 2
    MaxCrashes = 0
    MaxQueue = 3
    Threads <- MCThreads2
    NoThread = NoThread
    NumTags = 1
    MaxThreads = 2
    MinThreads = 1
    CountMax = 4
    MaxTasks = 4
PROPERTIES
    FlushReachesDisk
CHECK_DEADLOCK FALSE
