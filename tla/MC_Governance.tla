--------------------------- MODULE MC_Governance ---------------------------
(* One Run in one Workstream; a second Workstream only for decisions that  *)
(* affect several.                                                         *)
EXTENDS Governance, TLC

CONSTANTS p1, p2, w1, w2, r1, j1, a1, a2, x1, x2, d1, d2, platform, provider1

MC_WorkstreamOf == [r \in Run |-> w1]
MC_RunOf == [j \in Job |-> r1]
MC_JobOf == [a \in Attempt |-> j1]

ModelSymmetry == Permutations(Process) \cup Permutations(Request)
                 \cup Permutations(Actor) \cup Permutations(Attempt)
=============================================================================
