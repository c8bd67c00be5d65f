SPECIFICATION Spec
CONSTANTS
    g1 = g1
    g2 = g2
    m1 = m1
    m2 = m2
    m3 = m3
    None = None
    Groups <- MCGroups
    Mapids <- MCMapids
    GroupOf <- MCGroupOf
    Settings <- MCSettings
    PERHOUR = 2
    DAYSECOND = 4
    UINT32 = 8
    MaxDay = 1
    MaxBids = 3
    MaxOut = 2
    MaxStrays = 1
    Faults = {"redisDown", "errorReply"}
INVARIANTS
    TypeOK
    CappedMeansShown
    CapRespected
    CountsExact
PROPERTY CappedStays
CHECK_DEADLOCK FALSE
