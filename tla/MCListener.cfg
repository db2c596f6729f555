SPECIFICATION Spec
CONSTANTS
    Brokers = {b1, b2}
    None = None
    PingSteps = 2
    MaxFaults = 2
INVARIANTS
    TypeOK
    SessionWithClient
PROPERTIES
    FreeIsFree
    ManagedClears
    DeadClientReleased
    FreeLampAccepts
    ShutdownServed
CHECK_DEADLOCK FALSE
