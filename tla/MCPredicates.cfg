SPECIFICATION MCSpec
CONSTANTS
    Fields <- MCFields
    MaxCost = 5
    Columns = {"c1", "c2"}
    REFERENCE_THRESHOLD = 2
    Rooms <- MCRooms
    MaxBuilds = 4
    MaxPuts = 4
INVARIANTS
    Grammatical
    SameQuery
    AbilityRoundTrip
    DistributedFaithful
    RowArrives
    BatchArrives
CHECK_DEADLOCK FALSE
