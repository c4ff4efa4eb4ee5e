----------------------------- MODULE Governance -----------------------------
(***************************************************************************)
(* ManagedRuntimeService (runtime/service.py) as the gate in front of the  *)
(* coordinator: material DecisionRequests that block Workstreams and       *)
(* operational controls that block dispatch (runtime/governance.py).       *)
(*                                                                         *)
(* The gates are checks of their own, made before the reads and the        *)
(* transactions of the call they guard.  emergency_attempt makes the calls *)
(* CallCancelAttempt, or CallMarkUnknown and CallBeginReconciliation, and  *)
(* has no steps of its own.  ManagedRuntimeService offers no other outcome *)
(* of acceptance than ACCEPT.                                              *)
(***************************************************************************)
EXTENDS ServiceCall

CONSTANTS
    Request,         \* DecisionRequest identifiers
    CommonScope,     \* the Platform and the Project: scopes of every Attempt
    Provider,        \* providers, each a control scope of its own
    ControlledScope, \* scopes that control.set is called for
    MaxControl       \* bound on the generation of a control

Scope == CommonScope \cup Provider \cup Workstream \cup Run \cup Job

ASSUME GovernanceAssumption ==
    /\ ControlledScope \subseteq Scope
    /\ CommonScope \cap Row = {} /\ Provider \cap Row = {} /\ CommonScope \cap Provider = {}
    /\ MaxControl \in Nat

ControlState == {"RUNNING", "DRAINING", "PAUSED", "EMERGENCY_STOP"}

DecisionOutcome == {"APPROVE", "REJECT", "REWORK"}

VARIABLES
    request,         \* decision_requests: state, outcome, blocked_from_states
    control          \* operational_controls: state and generation of a scope

governanceVars == <<request, control>>

allVars == <<vars, governanceVars, plan>>

Nowhere == [w \in {} |-> "READY"]

GovernedInit ==
    /\ CallInit
    /\ request = [d \in Request |-> [state |-> "ABSENT", outcome |-> "NONE", blocked |-> Nowhere]]
    /\ control = [s \in Scope |-> [state |-> "RUNNING", generation |-> 0]]

-----------------------------------------------------------------------------

(* Material decisions.                                                     *)
CallDecisionCreate(p, d, affected) ==
    /\ request[d].state = "ABSENT"
    /\ \A w \in affected : db[w] \in {"READY", "ACTIVE"}
    /\ BeginPlan(p, "request_decision", [request |-> d, blocked |-> [w \in affected |-> db[w]]])
    /\ UNCHANGED governanceVars

(* One transaction: every affected Workstream is still as it was read, all *)
(* of them are blocked, and the request is inserted.                       *)
CreateDecisionRequest(p) ==
    LET d == plan[p].request
        blocked == plan[p].blocked
    IN /\ call[p] = "request_decision"
       /\ request[d].state = "ABSENT"
       /\ TransitionBatch(p, blocked, [w \in DOMAIN blocked |-> "BLOCKED"])
       /\ request' = [request EXCEPT ![d] =
                        [state |-> "OPEN", outcome |-> "NONE", blocked |-> blocked]]
       /\ ReturnPlan(p)
       /\ UNCHANGED <<columns, control>>

CallDecisionResolve(p, d, result) ==
    /\ request[d].state # "ABSENT"
    /\ BeginPlan(p, "resolve_decision", [request |-> d, outcome |-> result])
    /\ UNCHANGED governanceVars

ResolveAlwaysRestores(p) ==
    LET d == plan[p].request
        blocked == request[d].blocked
    IN /\ call[p] = "resolve_decision"
       /\ request[d].state = "OPEN"
       /\ TransitionBatch(p, [w \in DOMAIN blocked |-> "BLOCKED"], blocked)
       /\ request' = [request EXCEPT ![d] =
                        [@ EXCEPT !.state = "RESOLVED", !.outcome = plan[p].outcome]]
       /\ ReturnPlan(p)
       /\ UNCHANGED <<columns, control>>

(* Only APPROVE restores the Workstreams; after REJECT or REWORK they stay *)
(* blocked.                                                                *)
ResolveDecisionRequest(p) ==
    LET d == plan[p].request
        blocked == request[d].blocked
    IN /\ call[p] = "resolve_decision"
       /\ request[d].state = "OPEN"
       /\ IF plan[p].outcome = "APPROVE"
          THEN TransitionBatch(p, [w \in DOMAIN blocked |-> "BLOCKED"], blocked)
          ELSE RecordEvent(p)
       /\ request' = [request EXCEPT ![d] =
                        [@ EXCEPT !.state = "RESOLVED", !.outcome = plan[p].outcome]]
       /\ ReturnPlan(p)
       /\ UNCHANGED <<columns, control>>

-----------------------------------------------------------------------------
(* Operational controls.                                                   *)
Rank == [RUNNING |-> 0, DRAINING |-> 1, PAUSED |-> 2, EMERGENCY_STOP |-> 3]

ScopesOf(a, providers) == CommonScope \cup providers \cup Chain(a)

EffectiveLeastRestrictive(a, providers) ==
    LET states == {control[s].state : s \in ScopesOf(a, providers)}
    IN CHOOSE c \in states : \A d \in states : Rank[c] <= Rank[d]

(* The most restrictive control that applies.                              *)
Effective(a, providers) ==
    LET states == {control[s].state : s \in ScopesOf(a, providers)}
    IN CHOOSE c \in states : \A d \in states : Rank[d] <= Rank[c]

DispatchAllowed(a, providers) ==
    /\ db[WorkstreamOfAttempt(a)] # "BLOCKED"
    /\ Effective(a, providers) = "RUNNING"

(* The generation to write comes from the row as it was read; clearing an  *)
(* EMERGENCY_STOP takes the assertion that everything was reconciled.      *)
CallControlSet(p, s, state, reconciled) ==
    /\ s \in Row => db[s] # "ABSENT"
    /\ control[s].generation < MaxControl
    /\ control[s].state = "EMERGENCY_STOP" /\ state # "EMERGENCY_STOP" => reconciled
    /\ BeginPlan(p, "control",
          [scope |-> s, state |-> state, generation |-> control[s].generation + 1])
    /\ UNCHANGED governanceVars

(* An upsert: nothing is compared with the row that was read.              *)
SetOperationalControl(p, s) ==
    /\ call[p] = "control" /\ plan[p].scope = s
    /\ RecordEvent(p)
    /\ control' = [control EXCEPT ![s] =
                     [state |-> plan[p].state, generation |-> plan[p].generation]]
    /\ ReturnPlan(p)
    /\ UNCHANGED <<columns, request>>

-----------------------------------------------------------------------------
(* Dispatch and acceptance behind the gates.                               *)

(* authorize_dispatch: the gate, then authorize_attempt_dispatch, then     *)
(* start_attempt, each with reads of its own.                              *)
CallAuthorizeDispatch(p, a, provider) ==
    /\ db[a] # "ABSENT" /\ RunOfAttempt(a) \in ProviderRun
    /\ DispatchAllowed(a, {provider})
    /\ Begin(p, "dispatch", a, {})
    /\ UNCHANGED columns

AuthorizeRead(p) ==
    /\ call[p] = "dispatch"
    /\ db[arg[p]] = "PENDING"
    /\ Continue(p, "authorize")
    /\ UNCHANGED <<fencingVars, db, columns>>

AuthorizeDispatch(p, actor) ==
    RecordDispatchAuthorization(p, actor) /\ Continue(p, "dispatch_start")

(* The tail of bootstrap_run for an Envelope without providers: it starts  *)
(* the first Attempt and asks no provider's control.                       *)
CallBootstrapStart(p, a) ==
    /\ db[a] = "PENDING" /\ ordinal[a] = 1 /\ RunOfAttempt(a) \notin ProviderRun
    /\ DispatchAllowed(a, {})
    /\ Begin(p, "dispatch_start", a, {})
    /\ UNCHANGED columns

StartRead(p) ==
    /\ call[p] = "dispatch_start"
    /\ call' = [call EXCEPT ![p] = FirstStartStep(db, arg[p])]
    /\ seen' = [seen EXCEPT ![p] = Reading(Chain(arg[p]))]
    /\ UNCHANGED <<fencingVars, db, arg, columns>>

CallAcceptUngated(p, j) ==
    /\ db[j] # "ABSENT"
    /\ Begin(p, "accept", j, {})
    /\ UNCHANGED columns

(* accept: assert_project_job_unblocked, then decide.                      *)
CallAccept(p, j) ==
    /\ db[j] # "ABSENT"
    /\ db[WorkstreamOf[RunOf[j]]] # "BLOCKED"
    /\ Begin(p, "accept", j, {})
    /\ UNCHANGED columns

AcceptRead(p) ==
    LET j == arg[p]
    IN /\ call[p] = "accept"
       /\ db[j] = "FINISHED" /\ FinishedAttempts(db, j) # {}
       /\ call' = [call EXCEPT ![p] = "decide"]
       /\ seen' = [seen EXCEPT ![p] = Reading({j} \cup Attempts(j))]
       /\ UNCHANGED <<fencingVars, db, arg, columns>>

GovernedDispatch(p) ==
    \/ \E a \in Attempt, provider \in Provider : CallAuthorizeDispatch(p, a, provider)
    \/ AuthorizeRead(p)
    \/ \E actor \in Actor : AuthorizeDispatch(p, actor)
    \/ \E a \in Attempt : CallBootstrapStart(p, a)
    \/ StartRead(p)
    \/ StartWorkstream(p)
    \/ StartRun(p)
    \/ StartJob(p)
    \/ StartAttempt(p)

GovernedAccept(p) ==
    \/ \E j \in Job : CallAccept(p, j)
    \/ AcceptRead(p)
    \/ \E actor \in Actor : Decide(p, actor, "ACCEPT")
    \/ SettleRead(p)
    \/ SettleRun(p)

GovernedCreate(p) ==
    \/ \E w \in Workstream : CallCreateWorkstream(p, w)
    \/ CreateWorkstream(p)
    \/ \E r \in Run : CallCreateRun(p, r)
    \/ CreateRun(p)
    \/ \E j \in Job : CallCreateProjectJob(p, j)
    \/ CreateProjectJob(p)
    \/ \E a \in Attempt : CallCreateAttempt(p, a)
    \/ \E a, b \in Attempt : CallRetryAttempt(p, a, b)
    \/ CreateAttempt(p)

Decisions(p) ==
    \/ \E d \in Request, affected \in SUBSET Workstream \ {{}} : CallDecisionCreate(p, d, affected)
    \/ CreateDecisionRequest(p)
    \/ \E d \in Request, result \in DecisionOutcome : CallDecisionResolve(p, d, result)
    \/ ResolveDecisionRequest(p)

Controls(p) ==
    \E s \in ControlledScope :
        \/ \E state \in ControlState, reconciled \in BOOLEAN :
              CallControlSet(p, s, state, reconciled)
        \/ SetOperationalControl(p, s)

GovernedIncarnation(p) ==
    IncarnationDropsPlan(p) /\ UNCHANGED governanceVars

Coordinated(p) ==
    /\ GovernedCreate(p) \/ GovernedDispatch(p) \/ Report(p) \/ Reconcile(p) \/ GovernedAccept(p)
    /\ UNCHANGED <<governanceVars, plan>>

GovernedNext ==
    \E p \in Process :
        GovernedIncarnation(p) \/ Coordinated(p) \/ Decisions(p) \/ Controls(p)

GovernedSpec == GovernedInit /\ [][GovernedNext]_allVars

-----------------------------------------------------------------------------

(* Requests that keep Workstreams blocked: open ones, and those that were  *)
(* resolved without approval.                                              *)
Blocking(w) ==
    {d \in Request : w \in DOMAIN request[d].blocked /\ request[d].outcome # "APPROVE"}

(* A Workstream is BLOCKED exactly while one DecisionRequest keeps it so,  *)
(* and never two: creating, resolving, starting and settling agree on it   *)
(* although the Workstream row does not name the request.                  *)
BlockedByOneDecision ==
    \A w \in Workstream :
        /\ db[w] = "BLOCKED" <=> Blocking(w) # {}
        /\ \A d, e \in Blocking(w) : d = e

(* While a Workstream is blocked none of its Attempts starts and none of   *)
(* its ProjectJobs is accepted, although the gates look at the Workstream  *)
(* several transactions earlier (authorize_dispatch, bootstrap_run,        *)
(* accept).                                                                *)
BlockedWorkstreamsStandStill ==
    [][/\ \A a \in Attempt : db[a] = "PENDING" /\ db'[a] = "RUNNING" =>
             db[WorkstreamOfAttempt(a)] # "BLOCKED"
       /\ \A j \in Job : db[j] # "ACCEPTED" /\ db'[j] = "ACCEPTED" =>
             db[WorkstreamOf[RunOf[j]]] # "BLOCKED"]_allVars

(* No Attempt starts under a control of the Platform, the Project or its   *)
(* own chain: the gate is several transactions old when the Attempt        *)
(* becomes RUNNING (authorize_dispatch).  The provider's own control is    *)
(* not on record with the Attempt and is left out.                         *)
NoStartUnderControl ==
    [][\A a \in Attempt : db[a] = "PENDING" /\ db'[a] = "RUNNING" =>
          \A s \in CommonScope \cup Chain(a) : control[s].state = "RUNNING"]_allVars

=============================================================================
