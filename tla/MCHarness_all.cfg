SPECIFICATION Spec
CONSTANTS
  None = None
  r1 = r1
  r2 = r2
  s1 = s1
  s2 = s2
  Requests = {r1, r2}
  Sessions = {s1, s2}
  Stale = {2}
  Order <- MCOrder
  Policies <- MCPolicies
  Bodies <- MCBodies
  Answers <- MCAnswers
INVARIANTS  LeftoversAreListed CompletedIsEarned
CHECK_DEADLOCK FALSE
