SPECIFICATION Spec
CONSTANTS
    Tables <- MCTables
    Samples <- MCSamples
    SendSizes = {4, 9, 128}
    RecvSizes = {2, 5, 9, 128}
INVARIANTS
    TypeOK
    RoundTrip
    WritesWithinArray
    CutTouchesOnlyLast
    NodesAccounted
