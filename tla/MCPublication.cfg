\* Two rival converters; two changes, failures, deaths or early starts.
CONSTANTS
    Publishers = {"closeout", "converter", "rival", "report"}
    Kind <- MCKind
    MaxAttempts = 2
    MaxFaults = 2
    Refused = Refused
    None = None
SPECIFICATION Spec
INVARIANTS OneRunThroughout
PROPERTIES PublishedOnce OnlyDeathLeavesStaging PipelineCompletes
CHECK_DEADLOCK FALSE
