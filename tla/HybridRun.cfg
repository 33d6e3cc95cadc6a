\* A profiled run with telemetry, a mishap of the servers, two interrupts.
CONSTANTS
    ProfileMode = "npu"
    EnableTelemetry = TRUE
    Warmups = 1
    Measured = 1
    Faults <- AllFaults
    StopOutcomes <- AllStops
    MaxMishaps = 1
    MaxInterrupts = 2
SPECIFICATION FairSpec
INVARIANTS NothingOwnedSurvives SourcesTellTheTruth SuccessIsClean
    ResultsAgree SealHolds
PROPERTIES RunEnds
CHECK_DEADLOCK FALSE
