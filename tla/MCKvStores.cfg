CONSTANTS
    k1 = k1
    k2 = k2
    v1 = v1
    v2 = v2
    t1 = t1
    t2 = t2
    NoKey = NoKey
    NoValue = NoValue
    Mangled = Mangled
    NoKeyHere = NoKeyHere
    Keys <- MCKeys
    Values <- MCValues
    LightKeys <- MCKeys
    Tasks <- MCTasks
    DataPaths = {"a", "b"}
    DBM_MAX_KV_SUM = 2
    MAX_KV_SUM = 1
    MAX_CACHE_SIZE = 2
    MaxFaults = 1
    MaxResets = 2
    MaxTrouble = 2
    MaxLightFaults = 1
    MaxRestarts = 1
    MaxLightCalls = 4
SPECIFICATION MCSpec
SYMMETRY Symmetry
INVARIANTS
    Durable
    ReadsBack
    CountTracks
CHECK_DEADLOCK FALSE
