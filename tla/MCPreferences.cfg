SPECIFICATION Spec
CONSTANTS
    c1 = c1
    c2 = c2
    k1 = k1
    k2 = k2
    v1 = v1
    v2 = v2
    NoValue = NoValue
    NoClient = NoClient
    Clients <- MCClients2
    Keys <- MCKeys1
    Values <- MCValues1
    Faults = {"write", "backup", "restore", "remove"}
    MaxFaults = 1
    MaxCommits = 2
    MaxCrashes = 1
    MaxQueue = 1
SYMMETRY MCClientSymmetry
INVARIANTS
    NoTornRecovery
    AckedDurable
PROPERTIES
    DiskGenerationIsLatest
