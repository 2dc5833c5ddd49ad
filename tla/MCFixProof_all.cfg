SPECIFICATION ProofSpec
CONSTANTS
  None = None
  MaxEdits = 3
INVARIANTS ProofIsRedToGreen LandableIsFixed
CHECK_DEADLOCK FALSE
