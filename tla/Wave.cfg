\* Two concurrent requests, one marker that cannot be written.
CONSTANTS
    Requests = {r1, r2}
    MaxFaults = 1
SPECIFICATION WaveSpec
INVARIANTS WavesAreWhole DrainedIsComplete
PROPERTIES WaveEnds
CHECK_DEADLOCK FALSE
