SPECIFICATION Spec
CONSTANTS
    g1 = g1
    g2 = g2
    r1 = r1
    Groups <- MCGroups
    Readers <- MCReaders
    LIFEGROUP = 2
    DAYSECOND = 4
    UINT32 = 16
    MaxTime = 5
    MaxNews = 1
    Faults = {}
    None = None
INVARIANT RecentGroupsKeptOverMidnight
CHECK_DEADLOCK FALSE
