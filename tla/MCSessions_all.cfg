SPECIFICATION Spec
CONSTANTS
  Runs <- MCRuns
  Concurrent <- MCConcurrent
  Past <- MCPast
  Files <- MCFiles
  MaxFaults = 1
  None = None
INVARIANTS
  OrdinalsCount
  ExactIsLatest
  ReleasedIsGone
PROPERTY AbandonedStops
CHECK_DEADLOCK FALSE
