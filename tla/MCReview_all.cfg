SPECIFICATION Spec
CONSTANTS
  None = None
  Torn = Torn
  Bugs = {b1, b2}
  Sources = {x, y}
  Sessions = {s1, s2, s3}
  MaxVotes = 3
  MaxRequests = 3
  MaxKills = 1
  MaxEdits = 1
SYMMETRY Symmetry
INVARIANTS ReviewIsEarned
PROPERTIES RevealFreezes
CHECK_DEADLOCK FALSE
