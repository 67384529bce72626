-------------------------- MODULE MCAgentProfiles --------------------------
EXTENDS AgentProfiles, TLC

MCSymmetry == Permutations(Profiles) \cup Permutations(Names)
                \cup Permutations(Requests)
=============================================================================
