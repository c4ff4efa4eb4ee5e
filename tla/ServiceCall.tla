---------------------------- MODULE ServiceCall ----------------------------
(***************************************************************************)
(* Calls of ManagedRuntimeService that write tables of their own: between  *)
(* its reads and its transactions such a call carries a plan, the values   *)
(* it is about to write.                                                   *)
(***************************************************************************)
EXTENDS ExecutionCoordinator

CONSTANT NoPlan

VARIABLE plan    \* plan[p]: what the call of p is about to write

CallInit == Init /\ plan = [p \in Process |-> NoPlan]

BeginPlan(p, name, content) ==
    /\ Begin(p, name, NoRow, {})
    /\ plan' = [plan EXCEPT ![p] = content]
    /\ UNCHANGED columns

ReturnPlan(p) == Return(p) /\ plan' = [plan EXCEPT ![p] = NoPlan]

(* An exception or a crash drops the plan with the rest of the call.       *)
IncarnationDropsPlan(p) == Incarnation(p) /\ plan' = [plan EXCEPT ![p] = NoPlan]
=============================================================================
