SPECIFICATION Spec
CONSTANTS
  Paths <- MCPaths
  Holds <- MCHolds
  ToDirectory = {"dir"}
  LastTime = 2
  MaxRuns = 2
INVARIANTS TypeOK Result VersionNeverLost
CHECK_DEADLOCK FALSE
