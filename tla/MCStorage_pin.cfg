SPECIFICATION Spec
CONSTANTS
    None = None
    Empty = Empty
    MaxValue = 2
    MaxRestarts = 0
    MaxFaults = 1
    LossyClose = FALSE
INVARIANTS
    PinStored
CHECK_DEADLOCK FALSE
