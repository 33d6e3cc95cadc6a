\* Two descendants, a command with a timeout, group ids that may be recycled.
CONSTANTS
    Kids = {k1, k2}
    Timed = TRUE
    PidReuse = TRUE
    MaxCalls = 3
SPECIFICATION ProcessSpec
INVARIANTS OnlyMissedKillLeavesSurvivors
PROPERTIES VerifiedSignalsStayHome CallReturns
CHECK_DEADLOCK FALSE
