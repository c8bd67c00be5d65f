SPECIFICATION Spec
CONSTANTS
    HoursPerDay = 3
    Slots = 2
    Plans <- Hourly2
    MaxBids = 3
    MaxOut = 2
    MaxClicks = 1
    MaxStrays = 0
    Faults = {"errorReply"}
    None = None
INVARIANTS
    TypeOK
    CountsAddUp
    RecordAddsUp
    FinishMeansTargetMet
    OvershootBounded
    LeftoverRolls
    MetIsFinished
PROPERTIES
    TargetFixedInHour
    GateStaysClosed
CHECK_DEADLOCK FALSE
