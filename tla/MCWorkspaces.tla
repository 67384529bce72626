---------------------------- MODULE MCWorkspaces ----------------------------
EXTENDS Workspaces, TLC

MCSymmetry ==
  Permutations(Workspaces) \cup Permutations(Names) \cup Permutations(Requests)
=============================================================================
