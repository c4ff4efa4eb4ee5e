------------------------- MODULE ProviderExecution -------------------------
(***************************************************************************)
(* runtime.provider.execute (application/api.py): one call that resolves a *)
(* provider, dispatches a PENDING Attempt, launches a process in its       *)
(* Execution Workspace, judges what the process did, and records evidence  *)
(* and the result.                                                         *)
(*                                                                         *)
(* Two incarnations of the runtime may execute the same request.  The      *)
(* transactions are those of ExecutionCoordinator and Governance and take  *)
(* one step here: each commits iff its worker holds the fence and the row  *)
(* is in the expected state, else it raises.  What happens to the worktree *)
(* is not fenced at all: a process that was launched goes on when its      *)
(* worker lost the fence, and as an orphan when its worker died.           *)
(***************************************************************************)
EXTENDS FencedWorkers, CapabilityGraph, ProviderAdapters

CONSTANTS
    RequiredGate,    \* gates of the Envelope that are not the authority's own
    AllowedProvider, \* allowed_providers of the Envelope
    AuthorizedRoles  \* certified_roles of the loader

ASSUME ExecutionAssumption ==
    /\ AllowedProvider \subseteq ProviderId /\ AllowedProvider # {}
    /\ AuthorizedRoles \in [ProviderId -> SUBSET ProviderRole]

VARIABLES
    row,             \* the Attempt: its state and the provider it is dispatched to
    evidenceOf,      \* evidenceOf[g]: what is on record for gate g
    tree,            \* the worktree of the Execution Workspace
    child,           \* the provider's process
    launches,        \* how often one was started for this Attempt
    answer,          \* the answer of it that was judged a SUCCESS
    exec             \* exec[w]: how far the call of w is, and what it holds

executionVars ==
    <<fenceVars, row, evidenceOf, tree, child, launches, answer, exec>>

AsCommitted == [head |-> "base", content |-> [p \in Path |-> "base"]]

NoAnswer ==
    [ended |-> "none", status |-> "FAIL", bound |-> TRUE, large |-> FALSE, claimed |-> {}]

AtRest == [step |-> "idle", provider |-> "none", before |-> AsCommitted, verdict |-> "none"]

ExecutionInit ==
    /\ FencedInit
    /\ row = [state |-> "PENDING", dispatched |-> "none"]
    /\ evidenceOf = [g \in RequiredGate |-> "none"]
    /\ tree = AsCommitted
    /\ child = "none" /\ launches = 0 /\ answer = NoAnswer
    /\ exec = [w \in Worker |-> AtRest]

At(w, step) == exec[w].step = step

Goes(w, step) == exec' = [exec EXCEPT ![w].step = step]

Leaves(w) == exec' = [exec EXCEPT ![w] = AtRest]

onRecord == <<fenceVars, row, evidenceOf>>

worldVars == <<tree, child, launches, answer>>

-----------------------------------------------------------------------------
(* What the handler asks the resolver for; the preferred provider is the   *)
(* requested one.                                                          *)
ExecutionRequest(id) ==
    [role |-> "EXECUTION_IMPLEMENTER", delegated |-> {"EXECUTION_IMPLEMENTER"},
     capabilities |-> {"repository_write"},
     envelopeCapabilities |-> {"repository_read", "repository_write"},
     allowed |-> AllowedProvider, projectAllowed |-> {}, projectRoles |-> {},
     restricted |-> FALSE, preferred |-> id]

(* The graph that is composed for the request, on a machine where every    *)
(* provider is as m says.                                                  *)
Composed(m) ==
    LoadGraph([i \in ProviderId |-> m], [i \in ProviderId |-> DefaultConfiguration(i)],
              AuthorizedRoles)

(* _bound_runtime_execution.                                               *)
BoundExecution == row.state = "PENDING"

(* Everything before the authorization; nothing is written.  DeepSeek's    *)
(* files outside the ownership are hashed here, long before the launch.    *)
PrepareExecution(w, id) ==
    /\ At(w, "idle")
    /\ BoundExecution
    /\ id \in {Resolve(Composed(m), ExecutionRequest(id)) : m \in Machine}
    /\ MayPrepare(id, tree)
    /\ exec' = [exec EXCEPT ![w] =
                  [step |-> "prepared", provider |-> id, before |-> tree, verdict |-> "none"]]
    /\ UNCHANGED <<onRecord, worldVars>>

(* authorize_attempt_dispatch: attempt_id is UNIQUE among authorizations.  *)
AuthorizeExecution(w) ==
    /\ At(w, "prepared")
    /\ IF fence = w /\ row.state = "PENDING" /\ row.dispatched = "none"
       THEN row' = [row EXCEPT !.dispatched = exec[w].provider] /\ Goes(w, "authorized")
       ELSE UNCHANGED row /\ Leaves(w)
    /\ UNCHANGED <<fenceVars, evidenceOf, worldVars>>

StartErrorSuppressed(w) ==
    /\ At(w, "authorized")
    /\ row' = [row EXCEPT !.state = IF fence = w /\ @ = "PENDING" THEN "RUNNING" ELSE @]
    /\ Goes(w, "started")
    /\ UNCHANGED <<fenceVars, evidenceOf, worldVars>>

(* start_attempt.  An exception up to here is outside the try: the Attempt *)
(* keeps its authorization and is not marked UNKNOWN.                      *)
StartExecution(w) ==
    /\ At(w, "authorized")
    /\ IF fence = w /\ row.state = "PENDING"
       THEN row' = [row EXCEPT !.state = "RUNNING"] /\ Goes(w, "started")
       ELSE UNCHANGED row /\ Leaves(w)
    /\ UNCHANGED <<fenceVars, evidenceOf, worldVars>>

(* execute_provider up to the launch.  Codex and Claude inspect the        *)
(* worktree once more and remember it; an adapter that does not like what  *)
(* it sees raises, and the Attempt becomes UNKNOWN without a process.      *)
LaunchProvider(w) ==
    LET id == exec[w].provider
    IN /\ At(w, "started")
       /\ IF MayLaunch(id, tree)
          THEN /\ child' = "working" /\ launches' = launches + 1
               /\ exec' = [exec EXCEPT ![w] =
                             [@ EXCEPT !.step = "running",
                                       !.before = IF id = "deepseek" THEN exec[w].before ELSE tree]]
          ELSE Goes(w, "failed") /\ UNCHANGED <<child, launches>>
       /\ UNCHANGED <<onRecord, tree, answer>>

-----------------------------------------------------------------------------
(* The process, as long as nothing ends it.  Of a file it does not own     *)
(* only whether it changed is ever asked.                                  *)
ProviderWrites(p, content) ==
    /\ child = "working"
    /\ tree.content[p] # content
    /\ tree' = [tree EXCEPT !.content[p] = content]
    /\ UNCHANGED <<onRecord, child, launches, answer, exec>>

ProviderCommits ==
    /\ child = "working" /\ tree.head = "base"
    /\ tree' = [tree EXCEPT !.head = "moved"]
    /\ UNCHANGED <<onRecord, child, launches, answer, exec>>

(* Somebody works in the directory before the provider does.               *)
EditedByHand(p) ==
    /\ child = "none" /\ tree = AsCommitted
    /\ tree' = [tree EXCEPT !.content[p] = "edited"]
    /\ UNCHANGED <<onRecord, child, launches, answer, exec>>

UnownedKept(w) ==
    \A p \in Path \ OwnedPath : tree.content[p] = exec[w].before.content[p]

(* _validate_owned_artifacts.                                              *)
OwnedArtifactsHold(claimed) ==
    claimed \subseteq OwnedPath /\ \A p \in OwnedPath : Present(tree, p)

JudgedWithoutSnapshot(w, a) ==
    LET status == AdapterOutcome(exec[w].provider, exec[w].before, tree, a)
    IN IF status = "SUCCESS" /\ ~OwnedArtifactsHold(a.claimed) THEN "RAISES" ELSE status

Judged(w, a) ==
    LET id == exec[w].provider
        status == AdapterOutcome(id, exec[w].before, tree, a)
    IN IF \/ id = "deepseek" /\ ~UnownedKept(w)
          \/ status = "SUCCESS" /\ ~OwnedArtifactsHold(a.claimed)
       THEN "RAISES" ELSE status

(* The process ends and is judged.  A heartbeat that noticed meanwhile     *)
(* that the fence is lost raises after all the work is done.  What a       *)
(* process that was killed for its time started may live on.               *)
ProviderEnds(w, a) ==
    /\ At(w, "running") /\ child = "working"
    /\ child' \in IF a.ended = "timeout" THEN {"working", "exited"} ELSE {"exited"}
    /\ answer' = IF Judged(w, a) = "SUCCESS" THEN a ELSE answer
    /\ \/ /\ Judged(w, a) # "RAISES"
          /\ exec' = [exec EXCEPT ![w] = [@ EXCEPT !.step = "judged", !.verdict = Judged(w, a)]]
       \/ (Judged(w, a) = "RAISES" \/ fence # w) /\ Goes(w, "failed")
    /\ UNCHANGED <<onRecord, tree, launches>>

-----------------------------------------------------------------------------
(* _record_required_evidence: one transaction for each gate, in no state   *)
(* of the Attempt in particular.                                           *)
RecordGateEvidence(w, g) ==
    /\ At(w, "judged") /\ evidenceOf[g] = "none"
    /\ IF fence = w
       THEN /\ evidenceOf' = [evidenceOf EXCEPT ![g] =
                                IF exec[w].verdict = "SUCCESS" THEN "passed" ELSE "failed"]
            /\ UNCHANGED exec
       ELSE Goes(w, "failed") /\ UNCHANGED evidenceOf
    /\ UNCHANGED <<fenceVars, row, worldVars>>

AllRecorded == \A g \in RequiredGate : evidenceOf[g] # "none"

(* cancel or finish.                                                       *)
ReportExecution(w) ==
    /\ At(w, "judged") /\ AllRecorded
    /\ IF fence = w /\ row.state = "RUNNING"
       THEN /\ row' = [row EXCEPT !.state =
                         IF exec[w].verdict = "CANCELLED" THEN "CANCELLED" ELSE "FINISHED"]
            /\ Leaves(w)
       ELSE Goes(w, "failed") /\ UNCHANGED row
    /\ UNCHANGED <<fenceVars, evidenceOf, worldVars>>

(* Any other exception inside the try: the store is busy, the workspace    *)
(* cannot be read.                                                         *)
ExecutionRaises(w) ==
    /\ exec[w].step \in {"started", "judged"}
    /\ Goes(w, "failed")
    /\ UNCHANGED <<onRecord, worldVars>>

(* The handler of the exception; a failure of mark_unknown is suppressed.  *)
MarkUnknownAfterFailure(w) ==
    /\ At(w, "failed")
    /\ row' = [row EXCEPT !.state = IF fence = w /\ @ = "RUNNING" THEN "UNKNOWN" ELSE @]
    /\ Leaves(w)
    /\ UNCHANGED <<fenceVars, evidenceOf, worldVars>>

-----------------------------------------------------------------------------
TakeOver(w) ==
    /\ At(w, "idle") /\ TakeFence(w)
    /\ UNCHANGED <<row, evidenceOf, worldVars, exec>>

(* The process it launched does not die with a worker.                     *)
WorkerDies(w) ==
    /\ ~At(w, "idle")
    /\ Leaves(w)
    /\ UNCHANGED <<onRecord, worldVars>>

(* Requests that a worker serves between executions: cancel, mark_unknown, *)
(* and the two steps of a reconciliation.                                  *)
Operate(w) ==
    /\ fence = w /\ At(w, "idle")
    /\ \/ row.state \in {"PENDING", "RUNNING"} /\ row' = [row EXCEPT !.state = "CANCELLED"]
       \/ row.state = "RUNNING" /\ row' = [row EXCEPT !.state = "UNKNOWN"]
       \/ row.state = "UNKNOWN" /\ row' = [row EXCEPT !.state = "NEEDS_RECONCILIATION"]
       \/ /\ row.state = "NEEDS_RECONCILIATION"
          /\ \E to \in {"FINISHED", "RECONCILED_RETRYABLE"} : row' = [row EXCEPT !.state = to]
    /\ UNCHANGED <<fenceVars, evidenceOf, worldVars, exec>>

-----------------------------------------------------------------------------
ExecutionNext ==
    \/ \E w \in Worker :
          \/ \E id \in ProviderId : PrepareExecution(w, id)
          \/ AuthorizeExecution(w)
          \/ StartExecution(w)
          \/ LaunchProvider(w)
          \/ \E a \in Answer : ProviderEnds(w, a)
          \/ \E g \in RequiredGate : RecordGateEvidence(w, g)
          \/ ReportExecution(w)
          \/ ExecutionRaises(w)
          \/ MarkUnknownAfterFailure(w)
          \/ TakeOver(w)
          \/ WorkerDies(w)
          \/ Operate(w)
    \/ \E p \in Path : ProviderWrites(p, "edited")
    \/ \E p \in OwnedPath : ProviderWrites(p, "absent")
    \/ \E p \in Path : EditedByHand(p)
    \/ ProviderCommits

ExecutionSpec == ExecutionInit /\ [][ExecutionNext]_executionVars

-----------------------------------------------------------------------------
(* However calls, takeovers and crashes interleave, no Attempt has its     *)
(* provider started a second time, and none that was not dispatched.       *)
LaunchedAtMostOnce ==
    /\ launches <= 1
    /\ launches = 1 => row.dispatched # "none" /\ row.state # "PENDING"

(* Passing evidence is only ever on record for a process that ended by     *)
(* itself with a result bound to the packet, whose claims and worktree     *)
(* bear it out: complete and inside the ownership, at the baseline for the *)
(* providers held to one, and, for those whose other files are compared,   *)
(* with nothing else touched while the call lasts.  An Attempt that the    *)
(* call itself reported has the same verdict on record for every gate.     *)
PassingEvidenceIsEarned ==
    /\ (\E g \in RequiredGate : evidenceOf[g] = "passed") =>
         /\ child = "exited"
         /\ answer.ended = "object" /\ answer.status = "SUCCESS" /\ answer.bound
         /\ answer.claimed \subseteq OwnedPath
         /\ \A p \in OwnedPath : Present(tree, p)
         /\ row.dispatched \in AllowedProvider
         /\ row.dispatched # "deepseek" => AtBaseline(tree)
         /\ \A w \in Worker : At(w, "judged") /\ row.dispatched # "codex" => UnownedKept(w)
    /\ \A g, h \in RequiredGate :
         evidenceOf[g] # "none" /\ evidenceOf[h] # "none" => evidenceOf[g] = evidenceOf[h]
    /\ \A w \in Worker : At(w, "judged") => row.dispatched = exec[w].provider
=============================================================================
