SPECIFICATION Spec
CONSTANTS
  Nobody = Nobody
  c1 = c1
  c2 = c2
  s1 = s1
  s2 = s2
  j1 = j1
  l1 = l1
  p1 = p1
  Callers = {c1, c2}
  Sessions = {s1, s2}
  Modes <- AllModes
  Jobs = {j1}
  Branches = {1, 2}
  MaxChanges = 2
  Labels <- MCLabels
  Ports <- MCPorts
  MaxLabels = 2
  Launches = {l1}
  Endpoints = {p1}
  Files = 2
INVARIANTS
  EveryAgentIsHeld
  ReportsAreGenuine
  OnlyCheckoutsRemain
  ProxiesAreAsConfigured
  AgentsRunConfined
  AgentsAreToldTheirOwn
PROPERTIES
  EveryLaunchReturns
CHECK_DEADLOCK FALSE
