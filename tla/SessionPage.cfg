SPECIFICATION Spec
CONSTANTS
  Prompts = {1}
  Permissions = {1}
  MaxText = 2
  Capacity = 1
  MaxOthers = 1
  MaxRequests = 2
  Chats = {s1, s2}
  Current = s1
  Titles = {n1, n2}
  Tasks = {t1, t2}
  NoSession = NoSession
SYMMETRY MCSymmetry
INVARIANTS
  
  PendingPermissionsShown
  RestingSidebarIsCurrent
CHECK_DEADLOCK FALSE
