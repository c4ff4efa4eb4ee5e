-------------------------- MODULE FencingAuthority --------------------------
(***************************************************************************)
(* What the RunStore's coordinator lease promises, without clocks, holders *)
(* or leases: generations are handed out one at a time, and only the       *)
(* process that holds the newest one may write.  CoordinatorLease, the     *)
(* model of the lease as it is coded, implements this specification, and   *)
(* RunStore is written on top of it.                                       *)
(***************************************************************************)
EXTENDS Naturals

CONSTANT
    Process          \* service incarnations that may open the same RunStore

VARIABLES
    generation,      \* newest generation handed out; 0 before the first one
    token,           \* token[p]: the generation p was given, 0 if it has none
    lastWriter       \* generation of the last write that was committed

fencingVars == <<generation, token, lastWriter>>

FencingInit ==
    /\ generation = 0
    /\ token = [p \in Process |-> 0]
    /\ lastWriter = 0

Grant(p) ==
    /\ generation' = generation + 1
    /\ token' = [token EXCEPT ![p] = generation + 1]
    /\ UNCHANGED lastWriter

FencedWrite(p) ==
    /\ token[p] # 0
    /\ token[p] = generation
    /\ lastWriter' = generation
    /\ UNCHANGED <<generation, token>>

Drop(p) ==
    /\ token' = [token EXCEPT ![p] = 0]
    /\ UNCHANGED <<generation, lastWriter>>

FencingNext == \E p \in Process : Grant(p) \/ FencedWrite(p) \/ Drop(p)

FencingSpec == FencingInit /\ [][FencingNext]_fencingVars
=============================================================================
