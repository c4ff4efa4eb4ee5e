--------------------------- MODULE MC_ServiceHost ---------------------------
EXTENDS ServiceHost, TLC

CONSTANTS h1, h2, h3

HostSymmetry == Permutations(Host)
=============================================================================
