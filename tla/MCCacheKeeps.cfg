SPECIFICATION Spec
CONSTANTS
    g1 = g1
    g2 = g2
    r1 = r1
    Groups <- MCGroups
    Readers <- MCReaders
    LIFEGROUP = 2
    DAYSECOND = 3
    UINT32 = 16
    MaxTime = 4
    MaxNews = 1
    Faults = {"redisDown", "badGroup"}
    None = None
INVARIANTS
    TypeOK
    RecentGroupsKept
    OldGroupsGone
    NewestPublished
SYMMETRY MCSymmetry
CHECK_DEADLOCK FALSE
