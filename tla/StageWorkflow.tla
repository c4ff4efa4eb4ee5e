--------------------------- MODULE StageWorkflow ---------------------------
(***************************************************************************)
(* Stages that an integration carries out in a Project without the managed *)
(* runtime: a packet given to Hermes (integrations/hermes.py), a result    *)
(* handed in by a person (manual.py), and the STANDARD workflows of Claude *)
(* (claude.py), which validate what was done, record evidence and, in a    *)
(* Project with a past, carry a ChangeSet to VERIFIED.  Nothing is locked: *)
(* several harnesses and people work on the same files, and the journal of *)
(* evidence is loaded and appended to with others in between.              *)
(***************************************************************************)
EXTENDS Naturals, ProviderAdapters

CONSTANTS
    Harness,             \* concurrent invocations
    StageEvidenceId,
    NoEvidenceId,        \* no identity of evidence
    SavedStatus,         \* what callers save a ChangeSet with
    MaxMeddling          \* bound on what others change

VARIABLES
    lifecycle,           \* of the Project: one with a past is BROWNFIELD
    site,                \* the worktree of the Project
    changeset,           \* the ChangeSet: its status or "NONE", and who saved it
    stageJournal,        \* claude-standard.jsonl
    invocation,          \* invocation[h]: the invocation of h
    meddling

stageWorkflowVars == <<lifecycle, site, changeset, stageJournal, invocation, meddling>>

AsBuilt == [head |-> "base", content |-> [p \in Path |-> "base"]]

Unstarted == [kind |-> "none", step |-> "none", first |-> AsBuilt, before |-> AsBuilt,
              read |-> "NONE", claimed |-> {}, evidence |-> NoEvidenceId]

StageWorkflowInit ==
    /\ lifecycle \in {"GREENFIELD", "BROWNFIELD"}
    /\ site = AsBuilt
    /\ changeset = [status |-> "NONE", by |-> "nobody"]
    /\ stageJournal = {}
    /\ invocation = [h \in Harness |-> Unstarted]
    /\ meddling = 0

StageAt(h, step) == invocation[h].step = step

StageGoes(h, step) == invocation' = [invocation EXCEPT ![h].step = step]

(* An invocation that returns or raises; what it returned is all the       *)
(* caller keeps.                                                           *)
StageEnds(h) == invocation' = [invocation EXCEPT ![h] = Unstarted]

(* ExecutionPacket.__post_init__ and _owned_artifact_paths.                *)
PacketIsComplete == OwnedPath # {}

(* _snapshot_owned_artifacts.                                              *)
OwnedSnapshot ==
    [AsBuilt EXCEPT !.content = [p \in Path |-> IF p \in OwnedPath THEN site.content[p] ELSE @[p]]]

-----------------------------------------------------------------------------
(* ChangeSet.transition: one status after the other.                       *)
NextStatus == [PROPOSED |-> "ACCEPTED", ACCEPTED |-> "IMPLEMENTING",
               IMPLEMENTING |-> "VERIFIED", VERIFIED |-> "APPLIED", APPLIED |-> "ARCHIVED"]

ChangeSetStatus == DOMAIN NextStatus \cup {"ARCHIVED"}

ASSUME StageWorkflowAssumption == SavedStatus \subseteq ChangeSetStatus /\ "caller" \notin Harness

(* save_changeset replaces the file, whatever it says and with any status: *)
(* a caller makes and saves transitions without a workflow.                *)
SaveChangeset(status) ==
    /\ changeset' = [status |-> status, by |-> "caller"]
    /\ UNCHANGED <<lifecycle, site, stageJournal, invocation, meddling>>

(* execute_stage of Hermes asks for a current Model, not for a commit.     *)
HermesStage(h) ==
    /\ StageAt(h, "none") /\ PacketIsComplete
    /\ site.content[ModelPath] = "base"
    /\ invocation' = [invocation EXCEPT ![h] = [Unstarted EXCEPT !.kind = "hermes", !.step = "running",
                                                      !.before = site]]
    /\ UNCHANGED <<lifecycle, site, changeset, stageJournal, meddling>>

(* run_greenfield_standard_workflow and run_brownfield_changeset_workflow  *)
(* up to the first snapshot.                                               *)
GreenfieldWorkflow(h) ==
    /\ StageAt(h, "none") /\ PacketIsComplete /\ lifecycle = "GREENFIELD"
    /\ invocation' = [invocation EXCEPT ![h] = [Unstarted EXCEPT !.kind = "greenfield", !.step = "begun",
                                                      !.first = OwnedSnapshot]]
    /\ UNCHANGED <<lifecycle, site, changeset, stageJournal, meddling>>

BrownfieldWorkflow(h) ==
    /\ StageAt(h, "none") /\ PacketIsComplete /\ lifecycle = "BROWNFIELD"
    /\ changeset.status \in {"PROPOSED", "IMPLEMENTING"}
    /\ invocation' = [invocation EXCEPT ![h] = [Unstarted EXCEPT !.kind = "brownfield", !.step = "begun",
                                                      !.first = OwnedSnapshot, !.read = changeset.status]]
    /\ UNCHANGED <<lifecycle, site, changeset, stageJournal, meddling>>

(* execute_stage inspects the worktree and takes the second snapshot.      *)
ExecuteStage(h) ==
    /\ StageAt(h, "begun")
    /\ IF AtBaseline(site)
       THEN invocation' = [invocation EXCEPT ![h] = [@ EXCEPT !.step = "running", !.before = site]]
       ELSE StageEnds(h)
    /\ UNCHANGED <<lifecycle, site, changeset, stageJournal, meddling>>

(* The provider, while an invocation waits for it, and everybody else.     *)
HarnessWrites(h, p, content) ==
    /\ StageAt(h, "running") /\ site.content[p] # content
    /\ content = "absent" => p \in OwnedPath
    /\ site' = [site EXCEPT !.content[p] = content]
    /\ UNCHANGED <<lifecycle, changeset, stageJournal, invocation, meddling>>

OthersWrite(p) ==
    /\ meddling < MaxMeddling
    /\ site' = [site EXCEPT !.content[p] = IF @ = "base" THEN "edited" ELSE "base"]
    /\ meddling' = meddling + 1
    /\ UNCHANGED <<lifecycle, changeset, stageJournal, invocation>>

OthersCommit ==
    /\ meddling < MaxMeddling
    /\ site' = [site EXCEPT !.head = "moved"]
    /\ meddling' = meddling + 1
    /\ UNCHANGED <<lifecycle, changeset, stageJournal, invocation>>

(* The runner returns; the adapter judges what it finds.                   *)
StageOutcome(hermes, before, after, answer) ==
    IF hermes THEN HermesOutcome(before, after, answer) ELSE ClaudeOutcome(before, after, answer)

(* The answers that may come, by what they are taken for.                  *)
SuccessfulAnswer ==
    [hermes \in BOOLEAN, before \in Worktree, after \in Worktree |->
        {x \in Answer : StageOutcome(hermes, before, after, x) = "SUCCESS"}]

Successful(h) == SuccessfulAnswer[invocation[h].kind = "hermes", invocation[h].before, site]

StageSucceeds(h) ==
    /\ StageAt(h, "running")
    /\ \E claimed \in {answer.claimed : answer \in Successful(h)} :
          IF invocation[h].kind = "hermes" THEN StageEnds(h)
          ELSE invocation' = [invocation EXCEPT ![h] = [@ EXCEPT !.step = "returned",
                                      !.claimed = claimed, !.before = AsBuilt]]
    /\ UNCHANGED <<lifecycle, site, changeset, stageJournal, meddling>>

StageFails(h) ==
    /\ StageAt(h, "running")
    /\ Answer \ Successful(h) # {}
    /\ StageEnds(h)
    /\ UNCHANGED <<lifecycle, site, changeset, stageJournal, meddling>>

(* _run_standard_workflow looks at the artifacts once more, against its    *)
(* own snapshot.                                                           *)
CheckArtifacts(h) ==
    /\ StageAt(h, "returned")
    /\ IF ClaudeArtifactsHold(invocation[h].first, site, invocation[h].claimed)
       THEN invocation' = [invocation EXCEPT ![h] = [@ EXCEPT !.step = "checked", !.first = AsBuilt]]
       ELSE StageEnds(h)
    /\ UNCHANGED <<lifecycle, site, changeset, stageJournal, meddling>>

(* The journal of evidence is loaded, which refuses one that holds an      *)
(* identity twice; an identity that is taken raises.                       *)
IsRecorded(id) == \E e \in stageJournal : e.id = id

JournalLoads == \A e, f \in stageJournal : e.id = f.id => e = f

LoadJournal(h, id) ==
    /\ StageAt(h, "checked")
    /\ IF JournalLoads /\ ~IsRecorded(id)
       THEN invocation' = [invocation EXCEPT ![h] = [@ EXCEPT !.step = "loaded", !.evidence = id]]
       ELSE StageEnds(h)
    /\ UNCHANGED <<lifecycle, site, changeset, stageJournal, meddling>>

RecordUnlessRecorded(h) ==
    /\ StageAt(h, "loaded")
    /\ stageJournal' = IF IsRecorded(invocation[h].evidence) THEN stageJournal
                       ELSE stageJournal \cup {[id |-> invocation[h].evidence, by |-> h,
                                                packet |-> invocation[h].kind,
                                                claimed |-> invocation[h].claimed]}
    /\ StageGoes(h, "accepted")
    /\ UNCHANGED <<lifecycle, site, changeset, meddling>>

(* Evidence of a structured inspection is appended, whoever has recorded   *)
(* what since the journal was loaded.  It then satisfies the gate of the   *)
(* stage, which is evaluated on what this process holds.                   *)
RecordStageEvidence(h) ==
    /\ StageAt(h, "loaded")
    /\ stageJournal' = stageJournal \cup {[id |-> invocation[h].evidence, by |-> h,
                                           packet |-> invocation[h].kind,
                                           claimed |-> invocation[h].claimed]}
    /\ StageGoes(h, "accepted")
    /\ UNCHANGED <<lifecycle, site, changeset, meddling>>

(* The ChangeSet that was read at the start goes through its transitions   *)
(* in memory and is saved once.                                            *)
Verified(read) == IF read = "PROPOSED" THEN NextStatus[NextStatus[NextStatus[read]]]
                                       ELSE NextStatus[read]

SaveVerified(h) ==
    /\ StageAt(h, "accepted")
    /\ changeset' = IF invocation[h].kind = "brownfield"
                    THEN [status |-> Verified(invocation[h].read), by |-> h]
                    ELSE changeset
    /\ StageEnds(h)
    /\ UNCHANGED <<lifecycle, site, stageJournal, meddling>>

HarnessDies(h) ==
    /\ ~StageAt(h, "none")
    /\ StageEnds(h)
    /\ UNCHANGED <<lifecycle, site, changeset, stageJournal, meddling>>

StageWorkflowNext ==
    \/ \E status \in SavedStatus : SaveChangeset(status)
    \/ OthersCommit
    \/ \E p \in Path : OthersWrite(p)
    \/ \E h \in Harness :
          \/ HermesStage(h) \/ GreenfieldWorkflow(h) \/ BrownfieldWorkflow(h)
          \/ ExecuteStage(h) \/ CheckArtifacts(h) \/ RecordStageEvidence(h) \/ SaveVerified(h)
          \/ HarnessDies(h)
          \/ \E p \in Path, c \in {"edited", "absent"} : HarnessWrites(h, p, c)
          \/ StageSucceeds(h) \/ StageFails(h)
          \/ \E id \in StageEvidenceId : LoadJournal(h, id)

StageWorkflowSpec == StageWorkflowInit /\ [][StageWorkflowNext]_stageWorkflowVars

-----------------------------------------------------------------------------
(* A ChangeSet that a workflow has made VERIFIED rests on evidence which   *)
(* that workflow has put into the journal, and not another one, for a      *)
(* ChangeSet's packet, and which names artifacts the packet owns           *)
(* (run_brownfield_changeset_workflow, _run_standard_workflow), with       *)
(* invocations that race on one worktree and one journal, under one        *)
(* identity of evidence too, replace the ChangeSet of each other, and die  *)
(* between evidence and ChangeSet.                                         *)
VerifiedOnEvidence ==
    changeset.status = "VERIFIED" /\ changeset.by \in Harness =>
        \E e \in stageJournal :
            /\ e.by = changeset.by /\ e.packet = "brownfield"
            /\ e.claimed # {} /\ e.claimed \subseteq OwnedPath \ {ModelPath}
=============================================================================
