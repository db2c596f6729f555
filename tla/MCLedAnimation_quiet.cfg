SPECIFICATION Spec
CONSTANTS
    StepCount = 2
    FastReps = 1
    NetworkCommand = {"OFF"}
PROPERTIES
    QuietAfterShutdown
