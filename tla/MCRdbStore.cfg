CONSTANTS
    s1 = s1
    s2 = s2
    s3 = s3
    s4 = s4
    t1 = t1
    t2 = t2
    r1 = r1
    r2 = r2
    Sessions <- MCSessions
    Threads <- MCThreads
    ResultSets <- MCResultSets
    ReaderCounts = {0, 1}
    MaxIdle = 1
    MaxCalls = 4
SPECIFICATION Spec
SYMMETRY Symmetry
INVARIANTS
    ReaderCountExact
    HeldExclusively
    UsesHaveReason
    SessionsSeparate
    CommitTakesEffect
    StepStatementHeld
PROPERTIES
    UsesPool
CHECK_DEADLOCK FALSE
