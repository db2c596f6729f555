SPECIFICATION Spec
CONSTANTS
    None = None
    Empty = Empty
    MaxValue = 3
    MaxRestarts = 3
    MaxFaults = 3
    LossyClose = TRUE
INVARIANTS
    TypeOK
    MixedOnlyByReplacement
    SavedInOrder
    SeedNeverChanges
CHECK_DEADLOCK FALSE
