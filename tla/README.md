# ARTIFEX: specifications of its runtime, its authorities and the stores beside them

ARTIFEX runs work for software Projects on behalf of people and provider
programs. It keeps several kinds of durable state and one process that guards
most of them:

* the **RunStore** (`src/artifex/runtime`), a SQLite database of Workstreams,
  Runs, ProjectJobs, Attempts, Envelopes, decisions, controls, sessions and
  workspaces, written by whichever service incarnation holds the coordinator
  lease;
* the **Project repository** (`src/artifex/project`, `reality`, `documentation`), a
  directory of files with the accepted revisions of the Project Model, the
  proposals, the audit history, observations and generated documents;
* the **managed service** (`src/artifex/managed_service.py`), one process per
  machine that serves requests over a loopback socket, renews the lease and is
  found by clients through files in a state directory. The command line and the
  MCP server can do the same work in a process of their own (`cli.py`, `mcp.py`,
  `application/api.py`);
* **provider programs** (`src/artifex/integrations`, `capabilities`) that are
  launched in a workspace, and whose results are judged, accepted, promoted and
  certified;
* the **installation** of ARTIFEX itself (`distribution`), the migration of
  version 1 Projects (`migration`), evidence (`validation`), knowledge that
  Projects share (`knowledge`) and the stages of a workflow (`workflow`).

What makes the code hard is that almost every operation reads first and writes
later, in several transactions or files, and the process may die, lose its
lease, or race another process anywhere in between. The modules here keep every
such boundary as a step of its own and abstract what is written to identifiers
and states.

All paths below are relative to `src/artifex` of the repository.

## 1. Inventory

| Component | State | Operations | Hard behaviour | What makes it correct |
|---|---|---|---|---|
| Coordinator lease (`runtime/store.py`) | one row: holder, generation, expiry | acquire, renew, assert fence | clock read before the transaction waits for the write lock; restart under the same id; dead owner | one holder of the newest generation; a live lease is not stolen; an orphaned one is taken over |
| RunStore (`runtime/store.py`) | tables with a state column | fenced transactions with expected states | reads outside the transaction | a check made before a transaction still holds in it |
| Execution coordinator (`runtime/coordinator.py`) | none of its own | create, authorize, start, finish, cancel, mark unknown, reconcile, retry, settle | several transactions per call; two live Attempts; late results | tables agree with each other; one result per ProjectJob; nothing done is reopened |
| Acceptance (`runtime/acceptance.py`) | acceptance decisions | decide | several Attempts and actors | judged by another actor, on evidence of that Attempt |
| Decisions and controls (`runtime/governance.py`) | decision requests, controls | create, resolve, set, gates | gate read long before its effect | blocked or controlled means nothing starts |
| Envelopes and dispatch authority (`runtime/models.py`, `coordinator.py`, `api.py`) | proposals, approved versions, authorizations | propose, approve, count Attempts, authorize | approval in two transactions; grants, credentials and deadlines run out between check and write | what is approved is in force; what runs stays within it |
| Provider execution (`application/api.py`, `integrations/`) | Attempt row, evidence, worktree, process | prepare, authorize, start, launch, judge, record, finish | every step can raise; orphans go on writing; takeover | launched once; passing evidence is earned |
| Workspaces and certification (`runtime/workspace.py`, `capabilities/`) | workspace rows, directories, receipts | create, promote, certify, interact | three stores written one after the other; the revision is written without a fence or a lock | what is written was accepted, as the first revision after its baseline; at most one workspace counts as PROMOTED; receipts say what happened |
| Interaction sessions (`runtime/governance.py`) | session rows with a revision | open, submit, disconnect, reconnect, close | clients that update from the same reading | nobody submits on top of what he has not seen |
| Managed service and transport (`managed_service.py`, `cli.py`, `mcp.py`) | lock, token and state files; threads; requests | start, serve, heartbeat, stop; call | stale lock recovery, join with timeout, kill; requests that never end; host replaced during a call; time-out | one owner; reachable while serving and stopping when superseded, as long as no request goes on for ever; answers are true |
| Project authority (`project/authority.py`) | revision, proposal, Model and audit files | bootstrap, propose, accept, observe | three files per acceptance; hand edits; unhosted processes | accepted history is one compare-and-append sequence |
| Catalog, audit log and observed reality (`project/`, `reality/`) | last revision per Project; append-only logs | register, record, append, observe, resolve | separate from the acceptance; appends without a lock that are cut off | never claim more than was accepted; an append is there or the log refuses |
| Documentation (`documentation/`, `compilation/`) | documents and their manifest | baseline, mark, regenerate, status | files one by one, manifest last | CURRENT is current |
| Workflow and liveness guard (`workflow/core.py`) | stages, observations | transition, start, claim, observe | counters at limits | a loop that is observed ends |
| Standard workflow, ChangeSets (`integrations/claude.py`, `hermes.py`) | files, evidence, ChangeSet | execute stage, check, record, verify | two harnesses over one directory | VERIFIED rests on evidence |
| Validation (`validation/`) | evidence journals, waivers | append, invalidate, reopen, evaluate | lines cut off; staleness | no evidence is forgotten; a pass is earned |
| Knowledge (`knowledge/`) | lessons, records, recommendations | record, promote, recommend, adopt | stale recommendations, racing adoptions | whatever Model is accepted adopted as recommended, once |
| Installation (`distribution/`) | files, manifest, backups, registration, task, approval tokens | install, upgrade, roll back, uninstall, register, consume | file by file, compensations that fail, death, failures before the first compensation | one whole version or nothing; some bundle survives; once files are touched the service comes back |
| Migration (`migration/`) | backup, record, catalog, RunStore | plan, apply, validate, roll back | failure and death at any file; people go on working | migrated or original; no work done between commands is discarded |
| Research (`integrations/pandora.py`) | request directories | export, import, propose | files replaced during an import | nothing that outlives the import: its checks are of the same reading, and nothing binds the report to the bundle |
| Integrations (`integrations/`) | adapters and their health | register, select, verify continuity, install pack | files read one by one while others change them | a route that passed saw one state, unless a file was changed and changed back |
| Setup, doctor, discovery, rendering, parsing, index | derived values | probe, render, parse | sequential | not modelled; see section 7 |

Interactions: requests reach the service host, which dispatches them one at a
time under its authority lock to the application API; that calls the managed
runtime service (gates, then coordinator, then acceptance) and the project
control service (authority, then catalog, then reality). The heartbeat thread of
the host competes for the same lock and renews the lease every third of its
life. A promotion writes the Project repository, then the RunStore, then the
capability evidence of the machine.

## 2. Modules

```
FencingAuthority <--implements-- CoordinatorLease
      ^
   RunStore <- ExecutionCoordinator <- ServiceCall <- Governance
                                                   <- EnvelopeApproval
FencedWorkers <- ProviderExecution (uses ProviderAdapters, CapabilityGraph)
              <- Promotion         (uses CapabilityGraph)
              <- InteractionSessions
              <- DispatchAuthority
Transport, ServiceHost
SemanticHistory <--implements-- ProjectAuthority
Approvals <- Installation, Migration
Documentation, Workflow, StageWorkflow (uses ProviderAdapters), Validation,
Knowledge, ResearchExchange, Integrations, ObservedReality
```

The proofs stand in modules of their own. `ExecutionCoordinator_proofs`,
`ProjectAuthority_proofs`, `ServiceHost_proofs` and `Installation_proofs` belong
to the module they are named for; `LeaseAndPromotion_proofs` to CoordinatorLease
and Promotion; `Governance_proofs` to Governance and EnvelopeApproval;
`Requests_proofs` to DispatchAuthority, InteractionSessions, Transport and
ProviderExecution; `Records_proofs` to Knowledge, Documentation, Migration,
StageWorkflow, ObservedReality, Integrations and Validation.

The runtime:

* **FencingAuthority**: what everything else needs of the lease: grants with
  growing generations, writes by the newest only. Time has disappeared.
* **CoordinatorLease**: the row of `coordinator_lease` and one reading of the
  clock per process. `ReadClock` is the `now = self.clock()` at the head of a
  call and any number of steps may pass before the transaction uses it.
  `Refused` is `CoordinatorFencedError`.
* **RunStore**: `db` is the state column of each row; `seen` is what a call read
  at its head; `TransitionBatch`, `Transition`, `Insert` and `RecordEvent` are
  fenced transactions. `Abort` ends a call whose transaction failed, `Crash` a
  process. It stands on FencingAuthority: lease expiry is an `Abort`.
* **ExecutionCoordinator**: every public call of `coordinator.py`, `decide` of
  `acceptance.py` and the settlement that follows it. `Call...` is the reads at
  the head, the action of the same name without `Call` is the transaction. A
  call with several transactions has a `call` label for each.
* **ServiceCall**: calls that carry values they are about to write (`plan`).
* **Governance**: decision requests, controls, and the gates of
  `runtime/service.py` before dispatch and acceptance.
* **EnvelopeApproval**: proposals, the two transactions of an approval, and Runs
  that name an approved version.
* **DispatchAuthority**: who may approve, count and dispatch: actors as a request
  gives them or as `actor_principal` adapts an identity, grants, credentials and
  deadlines against a clock. `desk` is what a request prepared before its
  transaction.
* **FencedWorkers**: the same fence for modules whose transactions take one step:
  one worker holds it, a transaction of any other raises.
* **CapabilityGraph**, **ProviderAdapters**: what the loader and the adapters make
  of the machine, of a provider process and of the worktree it leaves; operators
  without state.
* **ProviderExecution**: `_runtime_provider_execute` step by step. `child` is the
  provider process, which goes on as an orphan when its worker dies.
* **Promotion**: workspaces, promotion with its conflict branches, receipts. The
  acceptance of the promoted Model is two steps: finding that the revision has no
  file (`FindRevisionFree`) and replacing that file (`PublishPromoted`). In
  between another incarnation, or another process (`FindFreeElsewhere`,
  `PublishElsewhere`), may have written it. `origin` says what the revision files
  hold, `published` is the history of what was ever written.
* **InteractionSessions**: sessions and the revisions submitted through them,
  which are accepted in the same two steps.
* **Transport**: where an operation runs and what its caller is told. An operation
  is what its handler opens. A call that its client gave up on (`GiveUp`) keeps
  its credential: the host may still run it, once, after the caller was told that
  the transport is unavailable, which is what he is told of a refused connection.
* **ServiceHost**: processes over one state directory, each with a main thread, a
  heartbeat thread and a request in progress, which is being read (without a time
  limit) or runs under the authority lock, and need not end.

The Project and the stores beside the runtime:

* **SemanticHistory**: an append-only history that a proposal enters only if it
  was made for its present length.
* **ProjectAuthority**: revision, proposal, Model and audit files, the catalog
  row and the divergences; one step per file write. `Hosted` clients run under
  the authority lock, the others are command line processes without any lock.
* **ObservedReality**: the audit, observation and divergence logs line by line;
  an append is the reading of the log and then a write, which may be cut off.
* **Documentation**: documents, the manifest beside them and the readings that
  processes hold of both.
* **Workflow**, **StageWorkflow**: the engine with its guard, and stages carried
  out without the managed runtime. A stage loads the ledger of its evidence, which
  may be refused, and then appends to it; a ChangeSet may be saved by any caller
  in any status, so its state remembers who saved it.
* **Validation**: the journals as lines with and without an end, the ledger in
  memory, waivers and the graph of gates.
* **Knowledge**: lessons as a file without a lock, records and recommendations
  as rows, adoption through the acceptance of a proposal, which finds its revision
  free and writes it later. A Model is the sequence of what its edits adopted.
* **Approvals**: single-use tokens; **Installation**: the install root file by
  file, manifest, backups, registration record, task and running service, with
  a compensation for every step that has one in the code; **Migration**: the files of
  a version 1 Project, the backup, catalog, RunStore and record. Its users may work
  at any time; `raced` is the history of the work they did during a command.
* **ResearchExchange**: request directories that Pandora (external) writes into.
* **Integrations**: detection, registration and selection of adapters, the
  continuity check, the interface pack of Hermes. The edits that run beside a
  continuity check bring any contents, former ones included (`Former`).

PROJECT.json maps each definition to the lines it models. Operators that end in
a word like `Any`, `Forgotten`, `InPart`, `Again` and stand before the definition
they vary are the mutants used to see that each property can fail.

### Data that is abstracted

A Project Model is its fingerprint, or what it says for each document; an
Envelope's payload is one of two contents in EnvelopeApproval and its fields in
DispatchAuthority; evidence is a flag per Attempt ("passing on every gate") in
ExecutionCoordinator and a row per gate in ProviderExecution; a bundle is its
set of files, a file of a worktree is as in the baseline, edited or absent;
digests and signatures tell contents apart; audit rows that commit with their
transaction are not kept, transactions that write nothing else are kept as
steps.

## 3. Runs

| Run | Instance | Shows |
|---|---|---|
| coordinator_lease | 3 processes, 2 identities, lease of 2 ticks, 4 ticks, 3 generations | fencing is by generation, no theft of a live lease, takeover of an orphaned one, refinement of FencingAuthority |
| execution_lifecycle | 2 incarnations, 1 Run with durable evidence, 2 ProjectJobs with an Attempt each, 2 generations | agreement of the tables, currency of reads under the fence, acceptance on evidence |
| retry_races | 1 ProjectJob, 3 Attempts, providers, 2 actors, 2 incarnations | one result although two Attempts are live at once; nothing reopened |
| uncertain_cancelled (violation) | 1 incarnation, 3 Attempts | finding 1 below |
| decision_gates | 2 requests over 2 Workstreams, 1 Run, 2 incarnations | blocking and release; nothing starts or is accepted while blocked |
| services | 7 parts with 2 incarnations each (below) | the requests around an Attempt |
| borrowed_certification (violation) | the promotion part of *services* | finding 4 |
| hosted_authority | 2 requests, 3 Models, 3 proposals, 4 revisions, 2 hand edits | refinement of SemanticHistory; healing drift; derived state truthful |
| unhosted_acceptance (violation) | 2 command line processes, 2 proposals | finding 2 |
| service_host | 3 processes started one after the other, 1 foreign fence | single owner, superseded host stops, serving host is found |
| racing_hosts (violation) | the same with 2 at a time starting | finding 3 |
| records | 12 parts (below) | the stores beside the runtime |

*services* and *records* are sums: a variable that never changes says which part
a behaviour is about, so that one run checks parts that share no state.

| Part of *services* | Instance | Property |
|---|---|---|
| gates | 2 Attempts, 1 controlled scope | `NoStartUnderControl` |
| envelopes | 1 version, 2 payloads | `ApprovedProposalsAreInForce` |
| execution | 3 providers, every ending of a process, 3 paths, 2 gates | `LaunchedAtMostOnce`, `PassingEvidenceIsEarned` |
| promotion | 2 workspaces, 2 Attempts dispatched by different actors, 3 revisions | `PromotedOnceAndEarned` |
| sessions | 2 sessions, 3 revisions | `SessionsKeepTheirPlace` |
| calls | 2 callers, 2 incarnations of the host on one port | `AnswersAreTrue` |
| authority | 4 kinds of actors and 3 bare identities, 4 Envelopes, 2 Attempts, a clock that passes every expiry | `DispatchedWithinAuthority` |

| Part of *records* | Instance | Property |
|---|---|---|
| installation | 2 bundles of 2 files, 1 command at a time | `CommandsAreTransactional`, `SomeBundleSurvives`, `UpgradeBringsServiceBack` |
| migration | 2 attempts at a Project of 1 file, 1 edit, 1 Run, 2 tokens | `MigratedOrOriginal`, `NoWorkIsDiscarded` |
| documentation | 1 document, 2 processes, 3 revisions | `CurrentDocumentsAreCurrent` |
| workflow | 1 stage, limits 4, 2 and 2 | `GuardedLoopsEnd` |
| validation | a gate over another, 2 bindings, 6 pieces of evidence, 3 lines, 1 cut | `NoEvidenceIsForgotten`, `PassIsEarned` |
| knowledge | 2 requests, 2 Projects, 2 lessons, 2 recommendations of one record | `AdoptedAsRecommended` |
| stages | 2 harnesses, an owned file and the Model, Projects of either lifecycle, callers that save PROPOSED and IMPLEMENTING | `VerifiedOnEvidence` |
| continuity | 4 semantic files changed twice, also back, 4 routes | `PassedRouteIsASnapshot` |
| reality | 2 processes, 2 observations, 1 proposal | `AppendedOrRefused` |
| research, selection, pack | 1 request, 2 instances of Pandora, 6 bundles; 4 adapters; 2 files | none |

Why these bounds: two incarnations are enough for one to be superseded in the
middle of a call by the other, and one takeover (`MaxGeneration = 2`,
`MaxTakeovers = 1`) lets the second follow a crash or a restart of the first.
Three Attempts are the least for which two are live together (one retryable,
retried twice). Two ProjectJobs are the least for which a Run settles on
something other than the ProjectJob at hand. Three hosts are the least for which
two newcomers meet a stale lock. Revisions: a first one, two competing
proposals, and one more so that an old proposal is stale. Two bundles that share
one file and differ in one each are the least for which an upgrade replaces,
adds and removes. A migration writes three kinds of files besides the one of the
Project, so a command or its restoration can stop half way. Two processes and one
cut are the least for which a line runs into a torn one. Two edits are the least
for which a file is changed and changed back. The parts *research*, *selection*
and *pack* carry no property; they are run to see that their actions happen and
leave the other state alone. Of research a property would only repeat the checks
of the import on the values it has just read: neither the files it read them from
nor its request are compared again afterwards.

`CHECK_DEADLOCK FALSE` stands where the bounds, or the system itself, let
everything come to rest (all ProjectJobs done and no generation left; all hosts
dead; all documents written). The lease and the hosted authority never rest and
are checked for deadlock.

### Fairness

* CoordinatorLease: time passes; a process under another identity keeps asking
  for the lease; a fenced incarnation is refused at its next renewal and stops,
  because the heartbeat turns the first refusal into a shutdown
  (`managed_service.py`, `_heartbeat`). Nothing is assumed of the dead owner.
* ServiceHost: the main thread runs (weak fairness); the heartbeat gets the
  authority lock infinitely often tried (strong fairness), since the transport
  serves one connection at a time and waits on the network between two requests
  without the lock. Nothing is assumed of requests: the transport reads a request
  without a time limit and an operation may run for ever. What the two liveness
  properties need of them is their hypothesis: `SupersededHostStops` that the
  transport is free again and again, for stopping waits for the request it
  handles, `ServingHostIsFound` that no operation keeps the authority lock.
  Starting, failing, killing and asking for shutdown are not fair.
* Workflow: a worker that loops goes on being observed (weak fairness of
  `Observe`): the guard is called by the loop it guards.
* Everything else is safety only. `UpgradeBringsServiceBack` is an action
  property: it says what holds when a command ends, not that it does, and of
  upgrades that came past their first stop and the reading of the manifest.

## 4. Findings

1. *uncertain_cancelled.* `docs/architecture/DURABLE_RUNTIME.md` says an UNKNOWN
   result cannot be cancelled as though it were known. `cancel_attempt` checks
   the Attempt it is given and cancels the ProjectJob from whatever state it was
   read in; through a second Attempt a ProjectJob with an uncertain one is
   cancelled. After that `reconcile_attempt` never finds the ProjectJob UNKNOWN
   and the Run waits for ever. (In the same way a ProjectJob can be retried again
   while a retry of it is uncertain: `retry_attempt` looks at the previous
   Attempt only.)
2. *unhosted_acceptance.* `docs/architecture/COLLABORATIVE_GOVERNANCE.md` excludes
   last-write-wins. Two command line processes that accept for the same revision
   both find its file missing and the second replaces the first. Under the
   authority lock of the service it cannot happen (proved).
3. *racing_hosts.* `docs/architecture/MANAGED_SERVICE_INSTALLATION.md` says a
   second host fails closed. Between reading the owner of a stale lock and
   unlinking the file another host may have taken the lock over.
4. *borrowed_certification.* `docs/architecture/DEEPSEEK_PROVIDER.md` says that only
   an accepted and promoted result can create a certification receipt. The
   acceptance is that of the ProjectJob, the provider that of the promoted
   workspace's Attempt, and nothing compares the two Attempts.

Observations that contradict no run above:

* Runtime. A crash between the acceptance of the last ProjectJob and its
  settlement leaves the Run RUNNING; a Run whose Attempts were all cancelled
  before a start stays PENDING; an Attempt whose authorization was committed
  without a start can only be cancelled; a Workstream that was blocked when its
  Run settled becomes ACTIVE again on approval and stays so; REJECT and REWORK
  leave a Workstream BLOCKED for good. The time of an authorization is read
  once and `start_attempt` asks neither deadline nor grant again;
  `DelegationGrant.permits` does not look at `issued_at`.
* Promotion. A crash between the accepted revision and PROMOTED, or a second
  workspace of the same Attempt, turns a promoted result into
  PROMOTION_CONFLICT; a promoted revision may be overwritten by an incarnation
  that was replaced, or by another process, that found its file missing before
  (as in finding 2, on another path); a crash after PROMOTED leaves it without a receipt; a
  workspace whose insertion fails leaves a directory that blocks its identity;
  the rule that the dispatcher does not promote is about the Attempt of the
  workspace at hand.
* Providers. An orphan goes on writing after its Attempt was recovered; changes
  of Codex outside its ownership are not looked for; a time-out of DeepSeek is
  reported CANCELLED while descendants may still write.
* Sessions and calls. A session that fell behind can never submit again. A client
  that gave up may have its request run later, and is told the same as one that
  was refused the connection: of "unavailable" nothing follows. A command line call with the
  default service identity and the host's store fences the live host, also to
  read. The socket is served by one thread without a time limit: a client that sends no
  line blocks serving, and keeps a superseded host from stopping.
* Project. A lock file without a readable owner refuses every host; a truncated
  log refuses every later append until it is repaired by hand; a divergence
  without a proposal can never be resolved; `accept` of the control service does
  not compare the catalog's identity with the Project it finds at the location.
* Documents. The fields of accepted governance, knowledge adoptions and research
  adoptions are not among `_TYPED_MODEL_FIELDS` (`compilation/projection.py`),
  so the documents do not show them.
* Installation and migration. An upgrade whose first stop runs into its time limit,
  or that cannot read the manifest after it, leaves the service stopped: both
  come before the block that starts it again. Work that people do while `apply`
  or `rollback` is active may be overwritten by what the command restores.
* Others. `WorkflowEngine.transition` can take a stage past its prerequisites;
  two lessons recorded at a time may become one; two ChangeSets saved from one
  reading likewise; two stages that append evidence of one identity leave a journal that
  no longer loads; contents that change and change back are not noticed by a
  continuity check, which may pass a state that never was; nothing binds a research report to its bundle; the interface
  pack is written file by file without a way back.

## 5. Proofs

TLAPS proves the following for every value of the constants that satisfies the
ASSUMEs of the module; nothing is assumed about the number of processes or rows
beyond that Attempts and hosts are finite. The other ASSUMEs tell apart what the
code tells apart: disjoint tables, foreign keys that are functions, a model value
for "none" that is none of the values (`NoHost`, `NoFile`, `PlainEdit`,
`Absent`, `NoVersion`, `NotInstalled`), for Migration, that a file of version 1 is
none of the files this version writes, for StageWorkflow, that a caller is no
harness, for Installation, that every bundle has the program among its files, and,
for Validation, that a gate's children are one level below it, as `GateGraph`
demands of its definitions. Theorems that hold only
under a condition have it among their hypotheses, and the text below says what
happens without it.

**LeaseAndPromotion_proofs, the lease.** `LeaseInv` adds to `TypeOK` and `OneFenceHolder` that no
token exceeds the generation and the last writer does not either, and that every
clock reading lies in the past while the expiry never lies more than a lease time
ahead of it. The last part is what makes stale readings harmless:
`expires <= read[p]` implies `expires <= clock`. From it: unique fence holder, no
theft of a live lease, ordered writes, renewals only extend, and the refinement
of FencingAuthority.

**ExecutionCoordinator_proofs.** `CoordinatorInv` has three parts: types; `DataInv`,
how the four tables and the columns agree (one uncertain Attempt per waiting
Run, one result per ProjectJob, undecided ProjectJobs carry no decision,
accepted ones are evidenced and independently judged); and `SessionInv`, which
says of each call in progress what it read and that for the fence holder it is
current. `FenceHolderReadsAreCurrent` is not inductive alone: it needs that two
processes never share a token (`TokensOK`), that each label goes with an
argument from the right table (`ControlOK`), and that an Attempt that is being
authorized is still PENDING (`AuthorizesPending`). There is one lemma per
action; the transactions share `WriteThenReturn`, `WriteThenContinue` and
`WriteThenSettle`, the data part shares `ResultsKept` and `ResultArrives`. The
action properties (`RunsCompleteSettled`, `TerminalJobsStayTerminal`) follow from
the same invariant by looking at which rows can move (`RowsThatMove`).

**ProjectAuthority_proofs.** All theorems assume `Hosted = Client`, that is, every
request runs under the authority lock; without it they are false (finding 2).
`AuthorityInv` says that one client at most is active (`OneActive`), what its
`work` record has to do with the files at each of its steps (`WorkOK`), and the
derived properties. Hand edits may still happen between any two steps. The
refinement of SemanticHistory shows that a write of a revision is the append of
a proposal made for exactly this length, and every other step is a stutter or an
offer.

**ServiceHost_proofs.** `TypeOK` holds for any number of starting processes.
`OneOwner` is proved under `MaxStarters = 1`: `_InstanceLock.acquire` removes a
lock it judged stale without looking again, so of two processes that start at the
same time both may own it (finding 3). With one starter at a
time the invariant (`LockOK`) is that the lock file is there, written, and names
its owner for as long as a process owns it, that the file a starting process read
can only have gone since, and that a lock is taken for stale only when nobody
owns one.

**Governance_proofs.** Extends the lifecycle's proofs: every step of Governance is
one of the coordinator, under a gate, or leaves its tables alone. `GovernanceInv`
says that the plan a call carries and the row it is about fit its label, that for
the holder of the fence the gate it passed is still open (`set_operational_control`
and `create_decision_request` need the same fence), and that a BLOCKED Workstream
has exactly one open DecisionRequest that blocks it. It gives
`BlockedByOneDecision`, and the two action properties: no start and no acceptance
in a BLOCKED Workstream, no start under a control. For EnvelopeApproval,
`ApprovalInv` says what each call relies on (`ReliesOn`): no row of `envelopes` is
ever overwritten and a proposal only goes from PROPOSED to APPROVED, so a call
that was interrupted between the two transactions of an approval can be repeated
by any incarnation.

Promotion and the first two parts of Requests_proofs share one idea. A fenced
incarnation serves one request at a time and it alone can write, so what it
checked before its transaction is still so at the transaction. The invariant says
what each step of a request has checked, for the holder of the fence; a replaced
incarnation may hold anything, because its write is refused.

**Requests_proofs, dispatch authority.** `AuthorityInv` says of the rows that Attempts are
counted within the Envelope in force (`CountedWithin`) and that authorizations
are sound and given before an Attempt runs (`AuthorizedSoundly`), and of the
holder that what it counted, drew up or looked up is current
(`HolderIsCurrent`). It gives `DispatchedWithinAuthority`, and that an Envelope in
force and an authorization given never change. The number of Attempts must be
finite.

**LeaseAndPromotion_proofs, promotion.** The Project repository asks for no fence and no lock, so `PromotionInv`
says of every request, replaced or not, that the Project is not behind it
(`Fits`): a workspace that is written is written as the first revision after its
baseline, whatever it replaces there. That at most one workspace counts as
PROMOTED rests on the fence of the mark: while the holder is between finding the
revision free and marking, no workspace is PROMOTED (`OnePromoted`), because one
that was before it took the fence had its revision written, so that it would not
have been found free, and nobody else can mark since. `OneInserter` (a workspace
row is inserted by the request that made its directory) keeps the Attempt of a
workspace fixed, on which the receipts rest (`ReceiptsEarned`).

**Requests_proofs, interaction sessions.** `SessionInv` says that each revision was made for
the one before it (`InStep`) and that what the newest incarnation read of a
session is in its row (`OnCourse`); after a submission the row may be behind
what is about to be recorded, never ahead. A submission that found its revision
free and is overtaken writes the same number again, which leaves both as they
are. The update compares the state alone,
and it is this invariant that makes the revision written back no older than the
one in the row.

**Requests_proofs, transports.** `TransportInv` follows each call with what it has
done (`CallOK`): its operation has not run while the call waits for the host, even when
the caller has given up; a reply of "ok" is there only once it has run, once and
in the store it had to; a caller that was refused or turned away ran nothing. Of
one that was told "unavailable" nothing is claimed but that its operation runs at
most once, and as it was asked. This holds of each call by itself, whatever other
callers and hosts do in between, and gives `AnswersAreTrue`.

**Requests_proofs, provider executions.** The worktree is not fenced, so the
invariant is about the one call that committed the authorization. `ExecutionInv`
says that of all calls for an Attempt at most one is past the authorization
(`LiveSteps`), that it is for the provider in the row, that up to the launch
nothing was launched and nothing recorded, and that a verdict of SUCCESS is borne
out by the process, its answer and the worktree (`Earned`) until the call ends.
A process that has exited changes no file any more, so what was judged stays so;
one killed for its time may go on, but is never a SUCCESS (`SuccessIsEarned`, by
adapter). `ResolvedIsAllowed` shows that whatever the capability graph looks
like, what is resolved is allowed by the Envelope. From it `LaunchedAtMostOnce` and
`PassingEvidenceIsEarned`.

**Records_proofs.** One section for each store.
*Knowledge*: records and recommendations are never replaced. An acceptance may
overwrite a revision, so nothing can be said of how a history grows; but it does
not change the Model it writes, and every Model that is accepted or on its way
there adopted each record once, on a recommendation for what it extends
(`ModelOK`), from which `AdoptedAsRecommended` follows for every history.
*Documentation*: manifests, also those about to be written by a process that was
overtaken, name Models as the sources of documents (`EntriesOK`), and the digest
ties an entry to the document beside it (`CurrentDocumentsAreCurrent`).
*Migration*: backups are of Projects that were not migrated, also when an earlier
command died (`ArchivesOK`), and the step of a command says which files are
already written or restored (`AdoptingOK`, `RestoringOK`); it gives
`MigratedOrOriginal`, whatever users do meanwhile. For `NoWorkIsDiscarded` the
backup of a command that is active, and that of every migration on record, has
all the work there is except what was done during a command (`WorkOK`), which a
restoration may overwrite: nothing in the code keeps users from working then.
*Stages*: what an invocation claims was checked before it was recorded and
recorded before its ChangeSet is saved, whatever others record in between, so the
evidence of the workflow that saved a ChangeSet as VERIFIED is in the journal
(`VerifiedOnEvidence`).
*Logs*: a log that became illegible stays so, and a legible one has what was
confirmed (`ConfirmedKept`). A divergence about to be opened has no line yet and
one process to open it (`OpenedOnce`, `OpenedByOne`): a second process can reuse
the identifier only when the observations are illegible, and is then `Stuck` before
its own observation. So nothing opens again what was resolved
(`AppendedOrRefused`).
*Continuity*: two hops that follow each other have read each file before and after
a common moment (`Between`). When they read the same and no file was changed and
changed back (`NothingReturned`, the condition in `PassedRouteIsASnapshot`), all
of it was there at that moment; a route has two hops at least. Without the
condition it remains that each file had the reported contents at some moment of
the walk. `IntegrationsSpec` lets the selection and the packs step as well.
*Validation*: an event whose call returned is in the journal for good, though
perhaps on a line that an earlier cut-off write began (`JournalKeeps`). A journal
is replayed only when every line is one event, so one that is opened again
either knows all that returned or is refused
(`NoEvidenceIsForgotten`). The states of gates and the gates
that count for a gate are recursive functions; no induction is needed for them,
since `GateLevel` has four levels: the proof shows the equations of both functions level
by level (`GateStateSteps`), and from them that the recursive verdict and the
evidence of all gates that count say the same (`PassIsEarned`, for every graph of
gates).

**Installation_proofs.** The theorems assume `OneCommand`, that at most one command
is active, as in the run. Nothing in the code locks the install root; two
commands on it at a time are outside of what is checked and of what is proved.
`InstallationInv` has two halves. `SurvivalInv` holds whatever dies or fails: for
each step of each kind of command it says where a whole bundle is
(`KeepsABundle`), that is, in the root until the backup is complete, in the
backup while the root is overwritten, and in the root or renamed beside it during
an uninstall; a death leaves the files where they are, so `SomeBundleSurvives`
outlasts it. `Steady` holds until a process dies or a compensation fails: between
commands the disk, the manifest, the key, the registration record and the task
agree (`AtRest`), and during a command each step says which files are already
copied, removed, renamed or put back, and what the service is registered and
running as (`InstallWhole`, `UpgradeWhole`, `UninstallWhole`). There is one
lemma for each action and each half, and the recoveries have lemmas of their own,
since a step that raises goes to the compensation its progress calls for. It
gives `CommandsAreTransactional`, and the action property
`UpgradeBringsServiceBack` from the invariant before and after the step that ends
the upgrade; its first stop and the reading of the manifest are outside of it,
since the code undoes neither. The proof attempt showed that an undone uninstall must put back
only what it renamed itself (`moved` in `_perform_uninstall`), not what an
uninstall that died earlier left renamed; the model keeps the two apart.

**Only model-checked**: liveness (`OrphanedLeaseIsTakenOver`,
`SupersededHostStops` and `ServingHostIsFound` under their hypotheses about
requests, `GuardedLoopsEnd`), because the prover does not reason about fairness
and ENABLED. Every safety property of the
passing runs has a theorem.

## 6. Plan

1. An abstract specification of an installation (the old or the new version)
   that Installation implements as long as no compensation fails.
2. The composition of Promotion, InteractionSessions and Knowledge with
   ProjectAuthority: each has the two steps of an acceptance, finding the revision
   free and writing it, but not the Model, audit and catalog files beside it.
3. Two commands at a time over one install root.

## 7. Not modelled

Setup, doctor, discovery, bootstrap and the installers: they probe and present
the machine and keep no state beyond what the lifecycle keeps. Parsing and
validation of documents, the project index, git access, path checks, the
dashboard, packets and prompts: they compute values from accepted state and
change none of it. Catalog moves and reachability. Search, quarantine of
version 1 instances and evolution proposals in `knowledge/`. The programs that
validators run; their outcome is an input. File permissions, signatures and the
line format of the transport. Process ids that are reused. The scripts and
tools of the repository that build and test releases (`scripts/`, `tools/`),
which are not part of the program.
