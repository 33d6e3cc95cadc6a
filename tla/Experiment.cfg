\* Two pilots and a formal trial, one attempt to spare, two crashes anywhere.
CONSTANTS
    NumTrials = 3
    MaxAttempts = 4
    NumPilots = 2
    Outcomes <- AllOutcomes
    CrashSteps <- Steps
    MaxCrashes = 2
    MaxCorruptions = 1
SPECIFICATION Spec
INVARIANTS DirectoriesMatchRecords
PROPERTIES HistoryIsKept
CHECK_DEADLOCK FALSE
