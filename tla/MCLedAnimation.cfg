SPECIFICATION FairSpec
CONSTANTS
    StepCount = 2
    FastReps = 1
    NetworkCommand = {"NEXT_NETWORK", "OFF"}
INVARIANTS
    TypeOK
    NoStrayStop
    StopEndsAnimation
    StopNotStuck
    IdleDutyKnown
PROPERTIES
    ImplementsStopRequest
    FastBlinkEnds
    ShutdownEndsAnimation
