SPECIFICATION AccountsSpec
CONSTANTS
  Users = {u1, u2}
  Browsers = {b1, b2}
  CommandLine = CommandLine
  Requests = {r1, r2}
  Nobody = Nobody
SYMMETRY Symmetry

  
PROPERTIES
  AdminRemains
CHECK_DEADLOCK FALSE
