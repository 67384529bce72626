SPECIFICATION LifecycleSpec
CONSTANTS
  Requests = {r1, r2, r3}
  Sessions = {s1, s2}
  Operations = {"create", "get", "close", "delete", "rename", "prompt"}
  Nobody = Nobody
  SessionCap = 1
  ClosedLimit = 1
  MaxLeft = 1
  MaxRestarts = 1
VIEW MCView
SYMMETRY MCSymmetry
CHECK_DEADLOCK FALSE
INVARIANTS
  CreatedSessionsWithinCap
  
  
PROPERTIES
  GoneForGood
