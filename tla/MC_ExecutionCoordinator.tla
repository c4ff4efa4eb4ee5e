---------------------- MODULE MC_ExecutionCoordinator ----------------------
(* Small hierarchies: one Workstream and one Run throughout.               *)
EXTENDS ExecutionCoordinator, TLC

CONSTANTS p1, p2, w1, r1, j1, j2, a1, a2, a3, x1, x2

MC_WorkstreamOf == [r \in Run |-> w1]
MC_RunOf == [j \in Job |-> r1]
(* a1 and a2 belong to j1; a3 belongs to j2 where there is one.            *)
MC_JobOf == [a \in Attempt |-> IF a = a3 /\ j2 \in Job THEN j2 ELSE j1]

(* a1 and a2 are interchangeable everywhere, a3 where there is no j2.      *)
Interchangeable == {a \in Attempt : MC_JobOf[a] = j1}
ModelSymmetry ==
    Permutations(Process) \cup Permutations(Actor) \cup Permutations(Interchangeable)
=============================================================================
