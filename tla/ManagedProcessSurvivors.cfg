\* The instance of ManagedProcess.cfg, asked for what it does not guarantee.
CONSTANTS
    Kids = {k1, k2}
    Timed = TRUE
    PidReuse = FALSE
    MaxCalls = 1
SPECIFICATION ProcessSpec
INVARIANT DescendantsFinished
CHECK_DEADLOCK FALSE
