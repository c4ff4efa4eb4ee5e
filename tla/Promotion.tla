----------------------------- MODULE Promotion -----------------------------
(***************************************************************************)
(* Execution Workspaces from their creation to their promotion             *)
(* (runtime/workspace.py), and the receipts by which a provider counts as  *)
(* certified for a role (capabilities/evidence.py, interaction.py,         *)
(* application/api.py), for the Attempts of one ProjectJob.                *)
(*                                                                         *)
(* Three stores are written one after the other and none of them knows of  *)
(* the others: the RunStore behind the fence, the accepted revisions of    *)
(* the Project, which the fence does not protect, and the machine's own    *)
(* capability evidence.  The revision an Attempt was executed for is the   *)
(* baseline of its Envelope, here 1.  An acceptance finds the file of the  *)
(* next revision missing and replaces it later, without a lock, so that    *)
(* two processes may both write one revision (project/authority.py).       *)
(***************************************************************************)
EXTENDS FencedWorkers, CapabilityGraph, Sequences

CONSTANTS
    Workspace,
    Execution,       \* Attempts of the ProjectJob
    DispatchedTo,    \* DispatchedTo[a]: the provider in its authorization
    DispatchedBy,    \* DispatchedBy[a]: the actor in its authorization
    Promoter,        \* actors that ask for a promotion
    Interlocutor,    \* providers that are asked something
    Elsewhere,       \* a revision accepted on some other way
    Nobody,
    MaxNumber        \* bound on the revisions of the Project

ASSUME PromotionAssumption ==
    /\ DispatchedTo \in [Execution -> ProviderId]
    /\ Interlocutor \subseteq {"claude", "codex"}
    /\ Elsewhere \notin Workspace /\ Nobody \notin Workspace \cup Execution
    /\ MaxNumber \in Nat /\ MaxNumber > 1

VARIABLES
    directory,       \* workspaces whose directory exists
    workspace,       \* workspace[s]: its state and its Attempt
    decided,         \* the Attempt whose result an ACCEPT rests on, or Nobody
    jobState,        \* the ProjectJob
    origin,          \* origin[i]: where revision i + 1 of the Project comes from
    published,       \* workspaces whose Model has ever been written as a revision
    found,           \* the number another process found free, or 0
    receipts,        \* capability_receipts
    errand           \* errand[w]: how far the request of w is

promotionVars ==
    <<fenceVars, directory, workspace, decided, jobState, origin, published, found, receipts,
      errand>>

(* The number of the current revision.                                     *)
Number == Len(origin) + 1

AtHome ==
    [step |-> "idle", ws |-> Nobody, attempt |-> Nobody, provider |-> "none", number |-> 0,
     bound |-> FALSE]

PromotionInit ==
    /\ FencedInit
    /\ directory = {}
    /\ workspace = [s \in Workspace |-> [state |-> "ABSENT", attempt |-> Nobody]]
    /\ decided = Nobody /\ jobState = "FINISHED"
    /\ origin = << >> /\ published = {} /\ found = 0
    /\ receipts = {}
    /\ errand = [w \in Worker |-> AtHome]

Busy(w, step) == errand[w].step = step

Proceeds(w, step) == errand' = [errand EXCEPT ![w] = [@ EXCEPT !.step = step]]

Returns(w) == errand' = [errand EXCEPT ![w] = AtHome]

revisionVars == <<origin, published, found>>

projectVars == <<decided, revisionVars>>

(* _write_revision, its second half: the file is replaced, whatever became *)
(* of it since it was found missing.  A chain that no longer links makes   *)
(* every later reading of it raise, unless both revisions hold one Model.  *)
Replaced(number, from) ==
    IF number - 1 \in DOMAIN origin THEN [origin EXCEPT ![number - 1] = from]
                                    ELSE Append(origin, from)

-----------------------------------------------------------------------------
(* create: the directory is made, or removed again by an exception, before *)
(* the row is inserted; from then on it stays.                             *)
CreateDirectory(w, s, a) ==
    /\ Busy(w, "idle")
    /\ s \notin directory
    /\ Number = 1
    /\ directory' = directory \cup {s}
    /\ errand' = [errand EXCEPT ![w] =
          [AtHome EXCEPT !.step = "insert", !.ws = s, !.attempt = a]]
    /\ UNCHANGED <<fenceVars, workspace, jobState, projectVars, receipts>>

InsertWorkspace(w) ==
    LET s == errand[w].ws
    IN /\ Busy(w, "insert")
       /\ workspace' = IF fence = w
                       THEN [workspace EXCEPT ![s] =
                               [state |-> "ACTIVE", attempt |-> errand[w].attempt]]
                       ELSE workspace
       /\ Returns(w)
       /\ UNCHANGED <<fenceVars, directory, jobState, projectVars, receipts>>

(* The Acceptance Authority accepts the ProjectJob on the result and the   *)
(* evidence of one of its Attempts.                                        *)
DecideAccept(a) ==
    /\ jobState = "FINISHED"
    /\ jobState' = "ACCEPTED" /\ decided' = a
    /\ UNCHANGED <<fenceVars, directory, workspace, revisionVars, receipts, errand>>

(* Another process has a revision accepted.                                *)
FindFreeElsewhere ==
    /\ found = 0 /\ Number < MaxNumber
    /\ found' = Number + 1
    /\ UNCHANGED <<fenceVars, directory, workspace, decided, jobState, origin, published,
                   receipts, errand>>

PublishElsewhere ==
    /\ found # 0
    /\ origin' = Replaced(found, Elsewhere)
    /\ found' = 0
    /\ UNCHANGED <<fenceVars, directory, workspace, decided, jobState, published, receipts,
                   errand>>

-----------------------------------------------------------------------------
PromotableBy(s, actor) ==
    /\ workspace[s].state = "ACTIVE"
    /\ decided # Nobody /\ jobState = "ACCEPTED"
    /\ DispatchedBy[workspace[s].attempt] # actor

(* promote: whether the baseline is still current is read before anything  *)
(* is written.  The Attempt of the workspace and the accepted one need     *)
(* only belong to the same ProjectJob.                                     *)
BeginPromote(w, s, actor) ==
    /\ Busy(w, "idle")
    /\ PromotableBy(s, actor)
    /\ errand' = [errand EXCEPT ![w] =
          [AtHome EXCEPT !.step = IF Number = 1 THEN "accept" ELSE "conflict", !.ws = s]]
    /\ UNCHANGED <<fenceVars, directory, workspace, jobState, projectVars, receipts>>

(* The stale baseline is put on record in two transactions.                *)
MarkWorkspaceConflict(w) ==
    LET s == errand[w].ws
    IN /\ Busy(w, "conflict")
       /\ IF fence = w /\ workspace[s].state = "ACTIVE"
          THEN /\ workspace' = [workspace EXCEPT ![s].state = "PROMOTION_CONFLICT"]
               /\ Proceeds(w, "conflict_job")
          ELSE UNCHANGED workspace /\ Returns(w)
       /\ UNCHANGED <<fenceVars, directory, jobState, projectVars, receipts>>

MarkJobConflict(w) ==
    /\ Busy(w, "conflict_job")
    /\ jobState' = IF fence = w /\ jobState = "ACCEPTED" THEN "PROMOTION_CONFLICT" ELSE jobState
    /\ Returns(w)
    /\ UNCHANGED <<fenceVars, directory, workspace, projectVars, receipts>>

(* propose and accept against the baseline: both read the current number,  *)
(* and accept finds the file of the next revision missing.  A Model that   *)
(* was changed by hand meanwhile raises, which is Abandon.                 *)
FindRevisionFree(w) ==
    /\ Busy(w, "accept")
    /\ errand' = [errand EXCEPT ![w] =
          IF Number = 1 THEN [@ EXCEPT !.step = "publish", !.number = Number + 1] ELSE AtHome]
    /\ UNCHANGED <<fenceVars, directory, workspace, jobState, projectVars, receipts>>

(* The revision is written; no fence is asked.                             *)
PublishPromoted(w) ==
    /\ Busy(w, "publish")
    /\ origin' = Replaced(errand[w].number, errand[w].ws)
    /\ published' = published \cup {errand[w].ws}
    /\ Proceeds(w, "promoted")
    /\ UNCHANGED <<fenceVars, directory, workspace, decided, jobState, found, receipts>>

MarkPromotedUnfenced(w) ==
    LET s == errand[w].ws
    IN /\ Busy(w, "promoted")
       /\ IF workspace[s].state = "ACTIVE"
          THEN workspace' = [workspace EXCEPT ![s].state = "PROMOTED"] /\ Proceeds(w, "event")
          ELSE UNCHANGED workspace /\ Returns(w)
       /\ UNCHANGED <<fenceVars, directory, jobState, projectVars, receipts>>

MarkPromoted(w) ==
    LET s == errand[w].ws
    IN /\ Busy(w, "promoted")
       /\ IF fence = w /\ workspace[s].state = "ACTIVE"
          THEN workspace' = [workspace EXCEPT ![s].state = "PROMOTED"] /\ Proceeds(w, "event")
          ELSE UNCHANGED workspace /\ Returns(w)
       /\ UNCHANGED <<fenceVars, directory, jobState, projectVars, receipts>>

RecordPromotion(w) ==
    /\ Busy(w, "event")
    /\ IF fence = w THEN Proceeds(w, "certify") ELSE Returns(w)
    /\ UNCHANGED <<fenceVars, directory, workspace, jobState, projectVars, receipts>>

-----------------------------------------------------------------------------
(* _provider_certification_binding: complete or nothing.                   *)
CertificationBinding(id, m, shipped) ==
    Readiness(id, m, DefaultConfiguration(id)) = "AVAILABLE" /\ shipped

(* The identity of what was shipped is known only in an installation.      *)
Bindings ==
    [id \in ProviderId |->
        {CertificationBinding(id, m, shipped) : m \in Machine, shipped \in BOOLEAN}]

(* CapabilityReceipt.issue: `before` is the revision the work was done     *)
(* for, `number` the one it is certified at.                               *)
Receipt(id, role, before, number, bound) ==
    [provider |-> id, role |-> role, before |-> before, number |-> number, bound |-> bound]

(* _record_promoted_provider_certification: for the provider in the        *)
(* authorization of the workspace's Attempt.  It raises when the Project   *)
(* has moved on; a receipt of DeepSeek must be bound.                      *)
CertifyExecution(w, bound) ==
    LET id == DispatchedTo[workspace[errand[w].ws].attempt]
    IN /\ Busy(w, "certify")
       /\ bound \in Bindings[id]
       /\ receipts' =
             IF Number = errand[w].number /\ (id # "deepseek" \/ bound)
             THEN receipts \cup
                    {Receipt(id, "EXECUTION_IMPLEMENTER", errand[w].number, Number, bound)}
             ELSE receipts
       /\ Returns(w)
       /\ UNCHANGED <<fenceVars, directory, workspace, jobState, projectVars>>

-----------------------------------------------------------------------------
(* interact: the repository is captured, the provider runs and is asked    *)
(* for one answer, and the repository is captured again.  Of what is       *)
(* captured the revision of the Project Model is told apart.  One          *)
(* interaction at a time, and one that is put on record, is enough.        *)
Uninterviewed ==
    /\ \A r \in receipts : r.role # "INTERACTION"
    /\ \A w \in Worker : ~Busy(w, "interact")

(* What the process printed: nothing usable, a turn with several messages, *)
(* of which Codex means the last one, or one answer.                       *)
Reply == {"unusable", "several", "one"}

CodexReplies(reply) == reply \in {"several", "one"}

ClaudeReplies(reply) == reply = "one"

BeginInteraction(w, id, bound) ==
    /\ Busy(w, "idle") /\ Uninterviewed
    /\ bound \in Bindings[id]
    /\ errand' = [errand EXCEPT ![w] = [AtHome EXCEPT !.step = "interact", !.provider = id,
                                          !.number = Number, !.bound = bound]]
    /\ UNCHANGED <<fenceVars, directory, workspace, jobState, projectVars, receipts>>

Interviewed(w) ==
    Receipt(errand[w].provider, "INTERACTION", errand[w].number, Number, errand[w].bound)

(* The receipt carries the versions probed before the run.                 *)
EndInteraction(w, reply) ==
    /\ Busy(w, "interact")
    /\ LET replied == IF errand[w].provider = "codex" THEN CodexReplies(reply)
                                                      ELSE ClaudeReplies(reply)
       IN receipts' = IF replied /\ Number = errand[w].number
                      THEN receipts \cup {Interviewed(w)} ELSE receipts
    /\ Returns(w)
    /\ UNCHANGED <<fenceVars, directory, workspace, jobState, projectVars>>

(* Any request may raise between two of its steps, or die with its worker. *)
Abandon(w) ==
    /\ ~Busy(w, "idle")
    /\ Returns(w)
    /\ UNCHANGED <<fenceVars, directory, workspace, jobState, projectVars, receipts>>

ReplaceWorker(w) ==
    /\ Busy(w, "idle") /\ TakeFence(w)
    /\ UNCHANGED <<directory, workspace, jobState, projectVars, receipts, errand>>

(* providers.certifications: LIVE_ROLE_CERTIFIED.                          *)
LiveCertified(id, role) ==
    \E r \in receipts : r.provider = id /\ r.role = role /\ r.bound

-----------------------------------------------------------------------------
PromotionNext ==
    \/ \E w \in Worker :
          \/ \E s \in Workspace, a \in Execution : CreateDirectory(w, s, a)
          \/ InsertWorkspace(w)
          \/ \E s \in Workspace, actor \in Promoter : BeginPromote(w, s, actor)
          \/ MarkWorkspaceConflict(w)
          \/ MarkJobConflict(w)
          \/ FindRevisionFree(w)
          \/ PublishPromoted(w)
          \/ MarkPromoted(w)
          \/ RecordPromotion(w)
          \/ \E bound \in BOOLEAN : CertifyExecution(w, bound)
          \/ \E id \in Interlocutor, bound \in BOOLEAN : BeginInteraction(w, id, bound)
          \/ \E reply \in Reply : EndInteraction(w, reply)
          \/ Abandon(w)
          \/ ReplaceWorker(w)
    \/ \E a \in Execution : DecideAccept(a)
    \/ FindFreeElsewhere
    \/ PublishElsewhere

PromotionSpec == PromotionInit /\ [][PromotionNext]_promotionVars

-----------------------------------------------------------------------------
(* Whichever incarnations promote at the same time: a workspace is only    *)
(* ever written as the first revision after its own baseline, and only     *)
(* after an ACCEPT; of all workspaces of a ProjectJob at most one counts   *)
(* as PROMOTED, and that one was written.  It is the fence at the mark     *)
(* that decides which: the revision itself may have been overwritten, by   *)
(* an incarnation that was replaced or by another process that had found   *)
(* it free before.  A receipt for execution exists only for the provider   *)
(* whose Attempt has the promoted workspace, and names its revision; no    *)
(* receipt is issued for work during which the Project moved on.           *)
PromotedOnceAndEarned ==
    /\ \A i \in DOMAIN origin : origin[i] \in Workspace => i = 1 /\ decided # Nobody
    /\ \A s \in Workspace : workspace[s].state = "PROMOTED" => s \in published /\ Number > 1
    /\ \A s, t \in Workspace :
          workspace[s].state = "PROMOTED" /\ workspace[t].state = "PROMOTED" => s = t
    /\ \A r \in receipts : r.role = "EXECUTION_IMPLEMENTER" =>
          /\ r.number = 2
          /\ \E s \in Workspace : /\ workspace[s].state = "PROMOTED"
                                  /\ DispatchedTo[workspace[s].attempt] = r.provider
    /\ \A r \in receipts : r.before = r.number
    /\ LiveCertified("deepseek", "EXECUTION_IMPLEMENTER") =
          \E r \in receipts : r.provider = "deepseek"

(* A receipt for execution rests on a result of that provider which was    *)
(* accepted (docs/architecture/DEEPSEEK_PROVIDER.md).                      *)
CertifiedOnItsOwnResult ==
    \A r \in receipts : r.role = "EXECUTION_IMPLEMENTER" => DispatchedTo[decided] = r.provider
=============================================================================
