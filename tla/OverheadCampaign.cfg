\* Two rounds of a reference and one candidate; two deaths, a failure, a change.
CONSTANTS
    FormalRounds = 2
    Reference = "reference"
    Candidates = {"monitor"}
    None = None
    MaxDeaths = 2
    MaxFaults = 1
    MaxChanges = 1
SPECIFICATION Spec
INVARIANTS BlocksAccounted SuccessIsWhole ReportIsCurrent
CHECK_DEADLOCK FALSE
