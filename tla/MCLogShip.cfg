SPECIFICATION Spec
CONSTANTS
    Writers = {w1, w2}
    None = None
    BATCH = 2
    OUTQ = 1
    MaxRecords = 3
    MaxFar = 3
INVARIANTS
    TypeOK
    AtMostOnce
    WriterOrder
    HalfIsLeft
PROPERTIES
    KeepsPromise
    RecordsSettle
CHECK_DEADLOCK FALSE
