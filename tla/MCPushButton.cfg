SPECIFICATION Spec
CONSTANTS
    DiscoveryDelay = 2
    ResetDelay = 5
    Modulus = 12
INVARIANTS
    TypeOK
    NeverOverReported
    SteadyPressReported
