SPECIFICATION Spec
CONSTANTS
  None = None
  Second = 10
  CanonicalClock <- MCClock
  BracketNames <- MCBracketNames
  ResourceNames <- MCResourceNames
  IntervalNames <- MCIntervalNames
  Percentages <- MCIntervalNames
  Inputs <- MCInputs
INVARIANTS
  StageMeansAreExact
  MeansHideNothing
  ReportsReconcile
CHECK_DEADLOCK FALSE
