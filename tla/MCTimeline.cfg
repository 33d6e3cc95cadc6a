SPECIFICATION Spec
CONSTANTS
  None = None
  CanonicalClock <- MCClock
  BracketNames <- MCBracketNames
  RESOURCE_TRACK_ORDER <- MCOrder
  Uuid <- MCUuid
  Inputs <- MCInputs
  Configs <- MCConfigs
INVARIANTS
  WrittenTraceValidates
  EveryRecordIsShown
  NativeRowsAreTrue
CHECK_DEADLOCK FALSE
