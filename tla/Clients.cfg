SPECIFICATION Spec
CONSTANTS
  Prompts = {1}
  Permissions = {1, 2}
  MaxText = 1
  Capacity = 1
  MaxOthers = 1
  MaxCommands = 1
  Nobody = Nobody
  Tabs = {t1, t2}
  Users = {u1, u2}
  MaxIds = 3
  MaxActs = 3
  MaxCalls = 2
SYMMETRY MCSymmetry
INVARIANTS
  EveryReplyIsShown
  AnsweredRequestsGo
  PagesActForTheAccountTheyShow
CHECK_DEADLOCK FALSE
