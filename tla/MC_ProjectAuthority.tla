------------------------ MODULE MC_ProjectAuthority ------------------------
EXTENDS ProjectAuthority, TLC

CONSTANTS c1, c2, m1, m2, m3, q1, q2, q3

ModelSymmetry == Permutations(Client) \cup Permutations(Content) \cup Permutations(Proposal)
=============================================================================
