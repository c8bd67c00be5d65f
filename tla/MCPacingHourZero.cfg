SPECIFICATION Spec
CONSTANTS
    HoursPerDay = 3
    Slots = 1
    Plans <- Leftover
    MaxBids = 3
    MaxOut = 1
    MaxClicks = 0
    MaxStrays = 0
    Faults = {}
    None = None
INVARIANT EveryHourRolls
CHECK_DEADLOCK FALSE
