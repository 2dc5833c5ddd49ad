SPECIFICATION Spec
CONSTANTS
  None = None
  N = 2
  MaxCommits = 2
  MaxMoves = 1
  MaxAttempts = 2
  DeleteMerged = TRUE
INVARIANTS
  ResultsHold
PROPERTIES
  OnlyForward
  LandsGated
  DeletesContained
