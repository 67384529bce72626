SPECIFICATION AgentSessionsSpec
CONSTANTS
  Sessions = {s1, s2}
  Calls = {c1, c2, c3}
  None = None
  MaxForgets = 1
  MaxRestarts = 1
VIEW MCView
SYMMETRY MCSymmetry
CHECK_DEADLOCK FALSE
INVARIANTS
  AgentSessionsAreNotShared
  
