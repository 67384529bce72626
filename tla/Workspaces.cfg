SPECIFICATION WorkspacesSpec
CONSTANTS
  Workspaces = {w1, w2}
  Names = {n1, n2}
  Requests = {r1, r2}
  Nobody = Nobody
SYMMETRY MCSymmetry
INVARIANTS
  ChatsStartOnTheirOwnBranch
  RestingPageIsCurrent
