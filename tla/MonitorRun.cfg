\* Two collectors (device and system), as every monitor run has, and two interrupts.
CONSTANTS
    N = 2
    HasTimeout = TRUE
    MaxInterrupts = 2
SPECIFICATION FairSpec
INVARIANTS CollectorsAreReleased StatusIsTrue ChildIsOwned
PROPERTIES RunEnds
CHECK_DEADLOCK FALSE
