SPECIFICATION AgentProfilesSpec
CONSTANTS
  Profiles = {p1, p2}
  Names = {n1, n2, n3}
  Requests = {r1, r2}
  None = None
  Unsure = Unsure
  MaxRestarts = 1
  MaxTyped = 6
SYMMETRY MCSymmetry
INVARIANTS
  ConfirmedProfilesSurvive
  CommandsSurviveThePage
