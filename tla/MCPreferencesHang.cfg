SPECIFICATION FairSpec
CONSTANTS
    c1 = c1
    c2 = c2
    k1 = k1
    k2 = k2
    v1 = v1
    v2 = v2
    NoValue = NoValue
    NoClient = NoClient
    Clients <- MCClients1
    Keys <- MCKeys1
    Values <- MCValues1
    Faults = {}
    MaxFaults = 1
    MaxCommits = 1
    MaxCrashes = 0
    MaxQueue = 1
PROPERTIES
    FlushSyncReturns
