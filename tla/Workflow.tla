------------------------------ MODULE Workflow ------------------------------
(***************************************************************************)
(* The workflow engine and the liveness guard (workflow/core.py).  Stages  *)
(* move along the standard transitions, start with their prerequisites and *)
(* claim their outputs; a worker that loops in a stage is observed and     *)
(* stopped when it revisits, stalls or makes no progress for too long.     *)
(***************************************************************************)
EXTENDS Naturals

CONSTANTS
    Stage,
    ExecutionBaseline,       \* commit, contract and Model a worker starts from
    NoBaseline,
    Output,                  \* names of what stages produce
    Produces,                \* outputs a stage has to claim
    ProgressToken,
    NotObserved,
    MaxStageVisits,          \* the limits of the LivenessPolicy
    MaxNoProgress,
    MaxStall

ASSUME WorkflowAssumption ==
    /\ Produces \subseteq Output
    /\ {MaxStageVisits, MaxNoProgress, MaxStall} \subseteq Nat \ {0}

VARIABLES
    stage,        \* stage[s]: [state, baseline, outputs]
    observation,  \* observation[s]: what the guard remembers
    looping       \* looping[s]: the worker of the stage goes round once more

guardVars == <<observation, looping>>
workflowVars == <<stage, guardVars>>

WorkflowInit ==
    /\ stage = [s \in Stage |-> [state |-> "PENDING", baseline |-> NoBaseline, outputs |-> {}]]
    /\ observation = [s \in Stage |-> NotObserved]
    /\ looping = [s \in Stage |-> TRUE]

-----------------------------------------------------------------------------
StandardTransitions ==
    {<<"PENDING", "READY">>, <<"PENDING", "BLOCKED">>, <<"READY", "RUNNING">>,
     <<"READY", "BLOCKED">>, <<"RUNNING", "CLAIMED_COMPLETE">>, <<"RUNNING", "READY">>,
     <<"RUNNING", "FAILED">>, <<"RUNNING", "BLOCKED">>, <<"CLAIMED_COMPLETE", "VALIDATING">>,
     <<"CLAIMED_COMPLETE", "RUNNING">>, <<"VALIDATING", "ACCEPTED">>,
     <<"VALIDATING", "RUNNING">>, <<"VALIDATING", "FAILED">>, <<"BLOCKED", "READY">>}

Permits(source, target) == <<source, target>> \in StandardTransitions

(* Callers start and claim through the two calls below, and move stages    *)
(* with this one otherwise; ACCEPTED takes the authority of Core.          *)
TransitionStage(s, target) ==
    /\ Permits(stage[s].state, target)
    /\ <<stage[s].state, target>> # <<"READY", "RUNNING">> /\ target # "CLAIMED_COMPLETE"
    /\ stage' = [stage EXCEPT ![s].state = target]
    /\ UNCHANGED guardVars

StartStage(s, b) ==
    /\ stage[s].state = "READY" /\ Permits("READY", "RUNNING")
    /\ stage' = [stage EXCEPT ![s].state = "RUNNING", ![s].baseline = b]
    /\ UNCHANGED guardVars

ClaimComplete(s, outputs) ==
    /\ Produces \subseteq outputs
    /\ Permits(stage[s].state, "CLAIMED_COMPLETE")
    /\ stage' = [stage EXCEPT ![s].state = "CLAIMED_COMPLETE", ![s].outputs = outputs]
    /\ UNCHANGED guardVars

-----------------------------------------------------------------------------
Observed(t, visits, stale, elapsed) ==
    [token |-> t, visits |-> visits, noProgress |-> stale, elapsed |-> elapsed]

ProgressForgetsVisits(s, t) ==
    /\ looping[s]
    /\ \/ observation[s] = NotObserved
       \/ /\ observation[s] # NotObserved /\ observation[s].visits < MaxStageVisits
          /\ t # observation[s].token
    /\ observation' = [observation EXCEPT ![s] = Observed(t, 1, 0, 0)]
    /\ UNCHANGED <<looping, stage>>

(* observe: the first observation and each new token are progress.         *)
Progress(s, t) ==
    /\ looping[s]
    /\ \/ /\ observation[s] = NotObserved
          /\ observation' = [observation EXCEPT ![s] = Observed(t, 1, 0, 0)]
       \/ /\ observation[s] # NotObserved /\ observation[s].visits < MaxStageVisits
          /\ t # observation[s].token
          /\ observation' = [observation EXCEPT ![s] = Observed(t, observation[s].visits + 1, 0, 0)]
    /\ UNCHANGED <<looping, stage>>

(* e is the time since the last progress; it does not run backwards.       *)
NoProgress(s, e) ==
    LET o == observation[s]
    IN /\ looping[s] /\ o # NotObserved /\ o.visits < MaxStageVisits
       /\ e >= o.elapsed /\ e < MaxStall /\ o.noProgress + 1 < MaxNoProgress
       /\ observation' = [observation EXCEPT
                            ![s] = Observed(o.token, o.visits + 1, o.noProgress + 1, e)]
       /\ UNCHANGED <<looping, stage>>

(* LivenessViolation: the guard keeps what it knew, the worker stops.      *)
Violation(s) ==
    LET o == observation[s]
    IN /\ looping[s] /\ o # NotObserved
       /\ \/ o.visits >= MaxStageVisits
          \/ o.noProgress + 1 >= MaxNoProgress
          \/ \E e \in o.elapsed .. MaxStall : e >= MaxStall
       /\ looping' = [looping EXCEPT ![s] = FALSE]
       /\ UNCHANGED <<observation, stage>>

Observe(s) ==
    \/ \E t \in ProgressToken : Progress(s, t)
    \/ \E e \in 0 .. MaxStall : NoProgress(s, e)
    \/ Violation(s)

WorkflowNext ==
    \E s \in Stage :
        \/ \E target \in {t[2] : t \in StandardTransitions} : TransitionStage(s, target)
        \/ \E b \in ExecutionBaseline : StartStage(s, b)
        \/ \E outputs \in SUBSET Output : ClaimComplete(s, outputs)
        \/ Observe(s)

-----------------------------------------------------------------------------

(* A worker that goes on being observed is stopped in the end, also one    *)
(* that shows a new token every time (LivenessGuard.observe).              *)
GuardedLoopsEnd == \A s \in Stage : observation[s] # NotObserved ~> ~looping[s]
=============================================================================
