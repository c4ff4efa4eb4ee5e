------------------------ MODULE MC_CoordinatorLease ------------------------
(* Two incarnations under one service_id and one under a foreign one.      *)
EXTENDS CoordinatorLease

CONSTANTS p1, p2, p3, h1, h2

MC_HolderOf == [p \in Process |-> IF p = p3 THEN h2 ELSE h1]
=============================================================================
