------------------------ MODULE ExecutionCoordinator ------------------------
(***************************************************************************)
(* The durable execution lifecycle: ExecutionCoordinator                   *)
(* (runtime/coordinator.py), RuntimeAcceptanceAuthority                    *)
(* (runtime/acceptance.py) and the calls of ManagedRuntimeService          *)
(* (runtime/service.py) that chain them, over the RunStore.                *)
(*                                                                         *)
(* Every operation is split where the code splits it: the reads at its     *)
(* head are one step (Call...) and each of its SQLite transactions is      *)
(* another.  A call whose own checks on what it read fail raises at once   *)
(* and is no step; a transaction that finds another state than it expects  *)
(* ends its call (Abort).                                                  *)
(* Audit rows commit together with the change they describe; transactions  *)
(* that write nothing but an audit row are kept as steps (RecordEvent).    *)
(***************************************************************************)
EXTENDS RunStore, FiniteSets

CONSTANTS
    ProviderRun,     \* Runs whose Envelope names allowed_providers
    DurableRun,      \* Runs whose Envelope has require_durable_evidence
    MaxAttempts,     \* max_attempts of the Envelopes
    Actor, NoActor   \* identities that dispatch and that decide acceptance

ASSUME CoordinatorAssumption ==
    /\ ProviderRun \subseteq Run
    /\ DurableRun \subseteq Run
    /\ MaxAttempts \in Nat \ {0}
    /\ NoActor \notin Actor
    /\ IsFiniteSet(Attempt)

Outcome == {"ACCEPT", "REJECT", "REWORK", "REQUIRE_APPROVAL"}

VARIABLES
    ordinal,         \* attempts.ordinal, 0 while the row is absent
    dispatcher,      \* dispatch_authorizations.actor_id of an Attempt
    evidenced,       \* Attempts with passing durable evidence on every gate
    decisions,       \* number of acceptance_decisions of a ProjectJob
    outcome,         \* outcome of the last of them
    decider          \* and the actor that took it

columns == <<ordinal, dispatcher, evidenced, decisions, outcome, decider>>

vars == <<fencingVars, storeVars, columns>>

Init ==
    /\ StoreInit
    /\ ordinal = [a \in Attempt |-> 0]
    /\ dispatcher = [a \in Attempt |-> NoActor]
    /\ evidenced = {}
    /\ decisions = [j \in Job |-> 0]
    /\ outcome = [j \in Job |-> "NONE"]
    /\ decider = [j \in Job |-> NoActor]

-----------------------------------------------------------------------------
(* The hierarchy above an Attempt.                                         *)
RunOfAttempt(a) == RunOf[JobOf[a]]
WorkstreamOfAttempt(a) == WorkstreamOf[RunOfAttempt(a)]
Chain(a) == {JobOf[a], RunOfAttempt(a), WorkstreamOfAttempt(a)}
Attempts(j) == {a \in Attempt : JobOf[a] = j}
Jobs(r) == {j \in Job : RunOf[j] = r}

(* States of a ProjectJob that let its Run settle.                         *)
TerminalJob == {"ACCEPTED", "REJECTED", "REQUIRE_APPROVAL", "PROMOTION_CONFLICT", "CANCELLED"}

(* The outcome of the Attempt is not known.                                *)
Uncertain == {"UNKNOWN", "NEEDS_RECONCILIATION"}

-----------------------------------------------------------------------------
(* Creation.  bootstrap_run and authorize_approved_run make the four calls *)
(* in this order; a crash in between leaves the chain incomplete.          *)
CallCreateWorkstream(p, w) ==
    /\ db[w] = "ABSENT"
    /\ Begin(p, "create_workstream", w, {})
    /\ UNCHANGED columns

CreateWorkstream(p) ==
    /\ call[p] = "create_workstream"
    /\ Insert(p, arg[p], "READY")
    /\ Return(p)
    /\ UNCHANGED columns

CallCreateRun(p, r) ==
    /\ db[r] = "ABSENT" /\ db[WorkstreamOf[r]] # "ABSENT"
    /\ Begin(p, "create_run", r, {})
    /\ UNCHANGED columns

CreateRun(p) ==
    /\ call[p] = "create_run"
    /\ Insert(p, arg[p], "PENDING")
    /\ Return(p)
    /\ UNCHANGED columns

CallCreateProjectJob(p, j) ==
    /\ db[j] = "ABSENT" /\ db[RunOf[j]] # "ABSENT"
    /\ Begin(p, "create_project_job", j, {})
    /\ UNCHANGED columns

CreateProjectJob(p) ==
    /\ call[p] = "create_project_job"
    /\ Insert(p, arg[p], "PENDING")
    /\ Return(p)
    /\ UNCHANGED columns

(* The callers create the first Attempt of a ProjectJob right after the    *)
(* ProjectJob; every later one comes from retry_attempt.                   *)
CallCreateAttempt(p, a) ==
    /\ db[JobOf[a]] # "ABSENT"
    /\ \A b \in Attempts(JobOf[a]) : db[b] = "ABSENT"
    /\ Begin(p, "create_attempt", a, Attempts(JobOf[a]))
    /\ UNCHANGED columns

CallRetryAttempt(p, previous, a) ==
    /\ db[previous] = "RECONCILED_RETRYABLE"
    /\ db[a] = "ABSENT" /\ JobOf[a] = JobOf[previous]
    /\ Begin(p, "create_attempt", a, Attempts(JobOf[a]))
    /\ UNCHANGED columns

SeenAttempts(p, j) == {b \in Attempts(j) : seen[p][b] # "ABSENT"}

NextOrdinal(p, j) == Cardinality(SeenAttempts(p, j)) + 1

(* create_attempt: the ordinal comes from the rows read, the table has     *)
(* UNIQUE(project_job_id, ordinal).                                        *)
CreateAttempt(p) ==
    LET a == arg[p]
        n == NextOrdinal(p, JobOf[a])
    IN /\ call[p] = "create_attempt"
       /\ n <= MaxAttempts
       /\ \A b \in Attempts(JobOf[a]) : db[b] # "ABSENT" => ordinal[b] # n
       /\ Insert(p, a, "PENDING")
       /\ ordinal' = [ordinal EXCEPT ![a] = n]
       /\ Return(p)
       /\ UNCHANGED <<dispatcher, evidenced, decisions, outcome, decider>>

-----------------------------------------------------------------------------
(* Dispatch.                                                               *)
CallAuthorizeAttemptDispatch(p, a) ==
    /\ db[a] = "PENDING" /\ dispatcher[a] = NoActor
    /\ RunOfAttempt(a) \in ProviderRun
    /\ Begin(p, "authorize", a, {})
    /\ UNCHANGED columns

(* One authorization per Attempt: attempt_id is UNIQUE in its table.       *)
RecordDispatchAuthorization(p, actor) ==
    /\ call[p] = "authorize"
    /\ dispatcher[arg[p]] = NoActor
    /\ RecordEvent(p)
    /\ dispatcher' = [dispatcher EXCEPT ![arg[p]] = actor]
    /\ UNCHANGED <<ordinal, evidenced, decisions, outcome, decider>>

AuthorizeAttemptDispatch(p, actor) == RecordDispatchAuthorization(p, actor) /\ Return(p)

(* start_attempt runs up to four transactions on what it read at its head: *)
(* only the rows it read in their initial state are moved.  Whether the    *)
(* Attempt itself is PENDING is found out by the last one.                 *)
StepAfterRun(rows, a) ==
    IF rows[JobOf[a]] = "PENDING" THEN "start_job" ELSE "start_attempt"

StepAfterWorkstream(rows, a) ==
    IF rows[RunOfAttempt(a)] = "PENDING" THEN "start_run" ELSE StepAfterRun(rows, a)

FirstStartStep(rows, a) ==
    IF rows[WorkstreamOfAttempt(a)] = "READY"
    THEN "start_workstream" ELSE StepAfterWorkstream(rows, a)

CallStartAttempt(p, a) ==
    /\ db[a] # "ABSENT"
    /\ RunOfAttempt(a) \in ProviderRun => dispatcher[a] # NoActor
    /\ Begin(p, FirstStartStep(db, a), a, Chain(a))
    /\ UNCHANGED columns

StartWorkstream(p) ==
    /\ call[p] = "start_workstream"
    /\ Transition(p, WorkstreamOfAttempt(arg[p]), "READY", "ACTIVE")
    /\ Continue(p, StepAfterWorkstream(seen[p], arg[p]))
    /\ UNCHANGED columns

StartRun(p) ==
    /\ call[p] = "start_run"
    /\ Transition(p, RunOfAttempt(arg[p]), "PENDING", "RUNNING")
    /\ Continue(p, StepAfterRun(seen[p], arg[p]))
    /\ UNCHANGED columns

StartJob(p) ==
    /\ call[p] = "start_job"
    /\ Transition(p, JobOf[arg[p]], "PENDING", "RUNNING")
    /\ Continue(p, "start_attempt")
    /\ UNCHANGED columns

StartAttempt(p) ==
    /\ call[p] = "start_attempt"
    /\ Transition(p, arg[p], "PENDING", "RUNNING")
    /\ Return(p)
    /\ UNCHANGED columns

-----------------------------------------------------------------------------
(* Results.                                                                *)
CallFinishAttempt(p, a) ==
    /\ db[a] # "ABSENT"
    /\ Begin(p, IF dispatcher[a] = NoActor THEN "finish" ELSE "provider_result", a, {})
    /\ UNCHANGED columns

(* A provider's claim is put on record before it is known whether the      *)
(* Attempt still runs.                                                     *)
RecordProviderResult(p) ==
    /\ call[p] = "provider_result"
    /\ RecordEvent(p)
    /\ Continue(p, "finish")
    /\ UNCHANGED columns

FinishAttemptUncheckedJob(p) ==
    LET a == arg[p]
    IN /\ call[p] = "finish"
       /\ TransitionBatch(p, [r \in {a} |-> "RUNNING"], [r \in {a, JobOf[a]} |-> "FINISHED"])
       /\ Continue(p, "finish_event")
       /\ UNCHANGED columns

FinishAttempt(p) ==
    LET a == arg[p]
    IN /\ call[p] = "finish"
       /\ TransitionBatch(p, [r \in {a, JobOf[a]} |-> "RUNNING"],
                             [r \in {a, JobOf[a]} |-> "FINISHED"])
       /\ Continue(p, "finish_event")
       /\ UNCHANGED columns

RecordAttemptFinished(p) ==
    /\ call[p] = "finish_event"
    /\ RecordEvent(p)
    /\ Return(p)
    /\ UNCHANGED columns

(* record_evidence checks the binding to ProjectJob, Envelope and baseline *)
(* and nothing about the state of the Attempt.  (Evidence of Runs that do  *)
(* not demand any decides nothing and is left out.)                        *)
CallRecordEvidence(p, a) ==
    /\ db[a] # "ABSENT"
    /\ RunOfAttempt(a) \in DurableRun /\ a \notin evidenced
    /\ Begin(p, "evidence", a, {})
    /\ UNCHANGED columns

RecordEvidence(p) ==
    /\ call[p] = "evidence"
    /\ RecordEvent(p)
    /\ evidenced' = evidenced \cup {arg[p]}
    /\ Return(p)
    /\ UNCHANGED <<ordinal, dispatcher, decisions, outcome, decider>>

-----------------------------------------------------------------------------
(* The tail of a call that ends with settle_run_for_job.                   *)
CallSettle(p, j) ==
    /\ call' = [call EXCEPT ![p] = "settle_read"]
    /\ arg' = [arg EXCEPT ![p] = j]
    /\ seen' = [seen EXCEPT ![p] = Unread]

-----------------------------------------------------------------------------
(* Cancellation, uncertainty and reconciliation.                           *)
CallCancelAttempt(p, a) ==
    /\ db[a] \in {"PENDING", "RUNNING"}
    /\ Begin(p, "cancel", a, {a, JobOf[a]})
    /\ UNCHANGED columns

(* The ProjectJob is cancelled from whatever state it was read in.         *)
CancelAttempt(p) ==
    LET a == arg[p]
    IN /\ call[p] = "cancel"
       /\ TransitionBatch(p, [r \in {a, JobOf[a]} |-> seen[p][r]],
                             [r \in {a, JobOf[a]} |-> "CANCELLED"])
       /\ CallSettle(p, JobOf[a])
       /\ UNCHANGED columns

CallMarkUnknown(p, a) ==
    /\ db[a] # "ABSENT"
    /\ Begin(p, "unknown", a, {})
    /\ UNCHANGED columns

MarkUnknownSkipsRun(p) ==
    LET a == arg[p]
    IN /\ call[p] = "unknown"
       /\ TransitionBatch(p, [r \in {a, JobOf[a]} |-> "RUNNING"],
                             [r \in {a, JobOf[a]} |-> "UNKNOWN"])
       /\ Return(p)
       /\ UNCHANGED columns

(* mark_unknown: Attempt, ProjectJob and Run in one transaction.           *)
MarkUnknown(p) ==
    LET rows == {arg[p], JobOf[arg[p]], RunOfAttempt(arg[p])}
    IN /\ call[p] = "unknown"
       /\ TransitionBatch(p, [r \in rows |-> "RUNNING"],
             [r \in rows |-> IF r \in Run THEN "WAITING_RECONCILIATION" ELSE "UNKNOWN"])
       /\ Return(p)
       /\ UNCHANGED columns

CallBeginReconciliation(p, a) ==
    /\ db[a] # "ABSENT"
    /\ Begin(p, "begin", a, {})
    /\ UNCHANGED columns

BeginReconciliation(p) ==
    /\ call[p] = "begin"
    /\ Transition(p, arg[p], "UNKNOWN", "NEEDS_RECONCILIATION")
    /\ Return(p)
    /\ UNCHANGED columns

(* STILL_UNKNOWN raises before any write and is no step.                   *)
CallReconcileAttempt(p, a, name) ==
    /\ db[a] # "ABSENT"
    /\ Begin(p, name, a, {})
    /\ UNCHANGED columns

(* The three rows as reconciliation expects them.                          *)
ReconciledFrom(rows) ==
    [r \in rows |-> IF r \in Run THEN "WAITING_RECONCILIATION"
                    ELSE IF r \in Job THEN "UNKNOWN" ELSE "NEEDS_RECONCILIATION"]

ReconcileFinishedUncheckedJob(p) ==
    LET rows == {arg[p], JobOf[arg[p]], RunOfAttempt(arg[p])}
    IN /\ call[p] = "recovered_finished"
       /\ TransitionBatch(p, ReconciledFrom(rows \ Job),
             [r \in rows |-> IF r \in Run THEN "RUNNING" ELSE "FINISHED"])
       /\ Return(p)
       /\ UNCHANGED columns

ReconcileFinished(p) ==
    LET rows == {arg[p], JobOf[arg[p]], RunOfAttempt(arg[p])}
    IN /\ call[p] = "recovered_finished"
       /\ TransitionBatch(p, ReconciledFrom(rows),
             [r \in rows |-> IF r \in Run THEN "RUNNING" ELSE "FINISHED"])
       /\ Return(p)
       /\ UNCHANGED columns

ReconcileRetryable(p) ==
    LET rows == {arg[p], JobOf[arg[p]], RunOfAttempt(arg[p])}
    IN /\ call[p] = "safe_to_retry"
       /\ TransitionBatch(p, ReconciledFrom(rows),
             [r \in rows |-> IF r \in Attempt THEN "RECONCILED_RETRYABLE" ELSE "RUNNING"])
       /\ Return(p)
       /\ UNCHANGED columns

-----------------------------------------------------------------------------
(* Acceptance.                                                             *)
FinishedAttempts(rows, j) == {a \in Attempts(j) : rows[a] = "FINISHED"}

(* The FINISHED Attempt with the highest ordinal.                          *)
Latest(rows, j) ==
    CHOOSE a \in FinishedAttempts(rows, j) :
        \A b \in FinishedAttempts(rows, j) : ordinal[b] <= ordinal[a]

CallDecide(p, j) ==
    /\ db[j] = "FINISHED"
    /\ FinishedAttempts(db, j) # {}
    /\ Begin(p, "decide", j, {j} \cup Attempts(j))
    /\ UNCHANGED columns

TargetOf(result) ==
    IF result = "ACCEPT" THEN "ACCEPTED"
    ELSE IF result = "REJECT" THEN "REJECTED" ELSE result

EvidenceOfTheRun(p, j, result) ==
    result = "ACCEPT" /\ RunOf[j] \in DurableRun =>
        \E a \in evidenced : RunOfAttempt(a) = RunOf[j]

(* Evidence may be left out where the Envelope does not demand it.         *)
EvidenceSuffices(p, j, result) ==
    result = "ACCEPT" /\ RunOf[j] \in DurableRun => Latest(seen[p], j) \in evidenced

(* Whoever dispatched the execution does not judge its result.             *)
MayDecide(p, j, actor) == dispatcher[Latest(seen[p], j)] # actor

(* decide and record_acceptance: the decision and the new state of the     *)
(* ProjectJob are one transaction.  ManagedRuntimeService.accept settles   *)
(* the Run afterwards; the other outcomes have no such caller.             *)
Decide(p, actor, result) ==
    LET j == arg[p]
    IN /\ call[p] = "decide"
       /\ MayDecide(p, j, actor)
       /\ EvidenceSuffices(p, j, result)
       /\ Transition(p, j, "FINISHED", TargetOf(result))
       /\ decisions' = [decisions EXCEPT ![j] = @ + 1]
       /\ outcome' = [outcome EXCEPT ![j] = result]
       /\ decider' = [decider EXCEPT ![j] = actor]
       /\ IF result = "ACCEPT" THEN CallSettle(p, j) ELSE Return(p)
       /\ UNCHANGED <<ordinal, dispatcher, evidenced>>

-----------------------------------------------------------------------------
(* settle_run_for_job: reads of its own, then one transaction.             *)
Settled(rows, r) ==
    \A j \in Jobs(r) : rows[j] \in TerminalJob \cup {"ABSENT"}

SettleRead(p) ==
    LET r == RunOf[arg[p]]
    IN /\ call[p] = "settle_read"
       /\ IF db[r] = "RUNNING" /\ Settled(db, r)
          THEN /\ call' = [call EXCEPT ![p] = "settle"]
               /\ seen' = [seen EXCEPT ![p] = Reading({r, WorkstreamOf[r]} \cup Jobs(r))]
               /\ UNCHANGED arg
          ELSE Return(p)
       /\ UNCHANGED <<fencingVars, db, columns>>

SettleRun(p) ==
    LET r == RunOf[arg[p]]
        w == WorkstreamOf[r]
        rows == {r} \cup (IF seen[p][w] = "ACTIVE" THEN {w} ELSE {})
    IN /\ call[p] = "settle"
       /\ TransitionBatch(p, [x \in rows |-> IF x \in Run THEN "RUNNING" ELSE "ACTIVE"],
                             [x \in rows |-> IF x \in Run THEN "COMPLETED" ELSE "COMPLETE"])
       /\ Return(p)
       /\ UNCHANGED columns

-----------------------------------------------------------------------------
Create(p) ==
    \/ \E w \in Workstream : CallCreateWorkstream(p, w)
    \/ CreateWorkstream(p)
    \/ \E r \in Run : CallCreateRun(p, r)
    \/ CreateRun(p)
    \/ \E j \in Job : CallCreateProjectJob(p, j)
    \/ CreateProjectJob(p)
    \/ \E a \in Attempt : CallCreateAttempt(p, a)
    \/ \E a, b \in Attempt : CallRetryAttempt(p, a, b)
    \/ CreateAttempt(p)

Dispatch(p) ==
    \/ \E a \in Attempt : CallAuthorizeAttemptDispatch(p, a)
    \/ \E actor \in Actor : AuthorizeAttemptDispatch(p, actor)
    \/ \E a \in Attempt : CallStartAttempt(p, a)
    \/ StartWorkstream(p)
    \/ StartRun(p)
    \/ StartJob(p)
    \/ StartAttempt(p)

Report(p) ==
    \/ \E a \in Attempt : CallFinishAttempt(p, a)
    \/ RecordProviderResult(p)
    \/ FinishAttempt(p)
    \/ RecordAttemptFinished(p)
    \/ \E a \in Attempt : CallRecordEvidence(p, a)
    \/ RecordEvidence(p)
    \/ \E a \in Attempt : CallCancelAttempt(p, a)
    \/ CancelAttempt(p)

Reconcile(p) ==
    \/ \E a \in Attempt : CallMarkUnknown(p, a)
    \/ MarkUnknown(p)
    \/ \E a \in Attempt : CallBeginReconciliation(p, a)
    \/ BeginReconciliation(p)
    \/ \E a \in Attempt, name \in {"recovered_finished", "safe_to_retry"} :
          CallReconcileAttempt(p, a, name)
    \/ ReconcileFinished(p)
    \/ ReconcileRetryable(p)

Accept(p) ==
    \/ \E j \in Job : CallDecide(p, j)
    \/ \E actor \in Actor, result \in Outcome : Decide(p, actor, result)
    \/ SettleRead(p)
    \/ SettleRun(p)

Incarnation(p) ==
    \/ AcquireCoordinator(p) /\ UNCHANGED columns
    \/ Crash(p) /\ UNCHANGED columns
    \/ Abort(p) /\ UNCHANGED columns

Next ==
    \E p \in Process :
        Incarnation(p) \/ Create(p) \/ Dispatch(p) \/ Report(p) \/ Reconcile(p) \/ Accept(p)

Spec == Init /\ [][Next]_vars

-----------------------------------------------------------------------------
TypeOK ==
    /\ generation \in Nat
    /\ token \in [Process -> Nat]
    /\ lastWriter \in Nat
    /\ db \in [Row -> State]
    /\ \A w \in Workstream : db[w] \in {"ABSENT"} \cup WorkstreamState
    /\ \A r \in Run : db[r] \in {"ABSENT"} \cup RunState
    /\ \A j \in Job : db[j] \in {"ABSENT"} \cup ProjectJobState
    /\ \A a \in Attempt : db[a] \in {"ABSENT"} \cup AttemptState
    /\ ordinal \in [Attempt -> 0..MaxAttempts]
    /\ dispatcher \in [Attempt -> Actor \cup {NoActor}]
    /\ evidenced \subseteq Attempt
    /\ decisions \in [Job -> Nat]
    /\ outcome \in [Job -> {"NONE"} \cup Outcome]
    /\ decider \in [Job -> Actor \cup {NoActor}]

(* While the outcome of an Attempt is uncertain its Run waits for          *)
(* reconciliation, and it waits for that one Attempt only: mark_unknown,   *)
(* reconcile_attempt and every other transition agree on it although no    *)
(* column of the Run names the Attempt.                                    *)
OneUncertainAttemptPerWaitingRun ==
    /\ \A a \in Attempt : db[a] \in Uncertain =>
          /\ db[RunOfAttempt(a)] = "WAITING_RECONCILIATION"
          /\ \A b \in Attempt : db[b] \in Uncertain /\ RunOfAttempt(b) = RunOfAttempt(a) => b = a
    /\ \A r \in Run : db[r] = "WAITING_RECONCILIATION" =>
          \E a \in Attempt : RunOfAttempt(a) = r /\ db[a] \in Uncertain

(* A ProjectJob has one result: at most one of its Attempts is FINISHED,   *)
(* also when a retry and a recovered original race (finish_attempt,        *)
(* reconcile_attempt), and a decided ProjectJob has exactly one.           *)
OneResultPerJob ==
    \A j \in Job :
        /\ \A a, b \in FinishedAttempts(db, j) : a = b
        /\ db[j] \in {"FINISHED", "ACCEPTED", "REJECTED", "REWORK", "REQUIRE_APPROVAL"}
              => FinishedAttempts(db, j) # {}
        /\ db[j] \in {"ABSENT", "PENDING", "RUNNING", "UNKNOWN"}
              => FinishedAttempts(db, j) = {}

(* An ACCEPTED ProjectJob carries exactly one decision, ACCEPT, taken by   *)
(* somebody who did not dispatch the Attempt that was accepted             *)
(* (acceptance.py, decide).                                                *)
AcceptedByAnother ==
    \A j \in Job : db[j] = "ACCEPTED" =>
        /\ decisions[j] = 1 /\ outcome[j] = "ACCEPT"
        /\ \A a \in FinishedAttempts(db, j) : dispatcher[a] # decider[j]

(* Where the Envelope demands durable evidence, an ACCEPTED ProjectJob has *)
(* it for the very Attempt whose result was accepted (_validate_evidence). *)
AcceptedOnEvidence ==
    \A j \in Job : db[j] = "ACCEPTED" /\ RunOf[j] \in DurableRun =>
        FinishedAttempts(db, j) \subseteq evidenced

(* What the incarnation that holds the fence read is still in the store    *)
(* when it writes, apart from what its own call wrote: the transactions of *)
(* one call never straddle a write of another incarnation, so checks made  *)
(* on rows that no transaction compares again (the ProjectJobs that        *)
(* settle_run_for_job looked at) cannot be stale.                          *)
OwnWrites(p) ==
    {r \in Row :
        \/ r \in Workstream /\ call[p] \in {"start_run", "start_job", "start_attempt"}
        \/ r \in Run /\ call[p] \in {"start_job", "start_attempt"}
        \/ r \in Job /\ call[p] = "start_attempt"}

FenceHolderReadsAreCurrent ==
    \A p \in Process : token[p] # 0 /\ token[p] = generation =>
        \A r \in Row \ OwnWrites(p) : seen[p][r] \in {db[r], "UNREAD"}

(* A Run completes only in a state where every ProjectJob of it is done,   *)
(* although settle_run_for_job checked them in an earlier transaction.     *)
RunsCompleteSettled ==
    [][\A r \in Run : db'[r] = "COMPLETED" /\ db[r] # "COMPLETED" => Settled(db, r)]_vars

(* Nothing brings a ProjectJob back that a Run may already have been       *)
(* settled on: no late result, recovery or restart reopens it.             *)
TerminalJobsStayTerminal ==
    [][\A j \in Job : db[j] \in TerminalJob => db'[j] \in TerminalJob]_vars

-----------------------------------------------------------------------------
(* What docs/architecture/DURABLE_RUNTIME.md says of uncertain results and *)
(* the code does not keep; see the finding in PROJECT.json.                *)

(* An uncertain external result leaves the ProjectJob UNKNOWN until it is  *)
(* reconciled: it is not cancelled as though the outcome were known.       *)
UncertainJobIsNotCancelled ==
    \A a \in Attempt : db[a] \in Uncertain => db[JobOf[a]] # "CANCELLED"
=============================================================================
