SPECIFICATION FairSpec
CONSTANTS
    PoolSize = 3
    ReadingDelay = 1
    CalibrationDelay = 4
    UpdateDelay = 5
    Threshold = 18
    Reading = {0, 19, 30, 50}
    Width = 65536
INVARIANTS
    TypeOK
    TotalIsSum
    NoGapInPool
PROPERTIES
    Debounce
    HeldTouchSeen
