SPECIFICATION FairSpec
CONSTANTS
    HoursPerDay = 2
    Slots = 1
    Plans <- DayThenInfinity
    MaxBids = 4
    MaxOut = 2
    MaxClicks = 0
    MaxStrays = 1
    Faults = {"redisDown", "errorReply"}
    None = None
INVARIANTS
    DayOvershootBounded
    CountsAddUp
PROPERTY CountedEventually
CHECK_DEADLOCK FALSE
