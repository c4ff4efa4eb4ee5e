-------------------------- MODULE ProviderAdapters --------------------------
(***************************************************************************)
(* What the adapters of the three execution providers                      *)
(* (src/artifex/integrations/codex.py, claude.py, deepseek.py) make of a   *)
(* provider process: the status it is reported under, or "RAISES" when the *)
(* adapter raises and the outcome is unknown.                              *)
(*                                                                         *)
(* A worktree is the commit HEAD is on and the content of each path: as in *)
(* the baseline, edited since, or absent.  The answer of a process is how  *)
(* it ended and, if it printed one usable object, the object's status,     *)
(* whether it is bound to the packet, and the artifacts it claims.         *)
(***************************************************************************)
EXTENDS FiniteSets

CONSTANTS
    Path,            \* files of the worktree
    OwnedPath,       \* the packet's ownership
    CorePath,        \* what ARTIFEX keeps for itself under .artifex
    ModelPath        \* .artifex/project-model.json

ASSUME AdapterAssumption ==
    OwnedPath \subseteq Path /\ CorePath \subseteq Path /\ ModelPath \in CorePath

ExecutionStatus == {"SUCCESS", "FAIL", "BLOCKED", "CANCELLED", "REBASE_REQUIRED"}

Worktree == [head : {"base", "moved"}, content : [Path -> {"base", "edited", "absent"}]]

(* A process is killed for its time, cannot be started, exits with another *)
(* code than zero, prints what cannot be parsed or has a key twice, or     *)
(* prints an object that lacks what every provider is asked for; or it     *)
(* prints a proper object, which may be larger than the bound on output.   *)
Ending == {"timeout", "not_launched", "nonzero", "malformed", "misfit", "object"}

Answer ==
    [ended : Ending \ {"object"}, status : {"FAIL"}, bound : {TRUE}, large : {FALSE},
     claimed : {{}}]
    \cup [ended : {"object"}, status : ExecutionStatus, bound : BOOLEAN, large : BOOLEAN,
          claimed : {{}, OwnedPath, Path \ OwnedPath}]

Present(tree, p) == tree.content[p] # "absent"

Changed(before, after) == {p \in Path : before.content[p] # after.content[p]}

-----------------------------------------------------------------------------
(* inspect_worktree: HEAD and the Project Model are those of the packet.   *)
AtBaseline(tree) == tree.head = "base" /\ tree.content[ModelPath] = "base"

(* require_clean: nothing differs from the commit.                         *)
Clean(tree) == \A p \in Path : tree.content[p] = "base"

(* prepare_stage of Codex and plan_stage_execution of Claude inspect the   *)
(* worktree; plan_execution of DeepSeek only asks for the directory.       *)
CodexMayPrepare(tree) == AtBaseline(tree) /\ Clean(tree)

ClaudeMayPrepare(tree) == AtBaseline(tree) /\ Clean(tree)

DeepSeekMayPrepare(tree) == TRUE

MayPrepare(id, tree) ==
    IF id = "codex" THEN CodexMayPrepare(tree)
    ELSE IF id = "claude" THEN ClaudeMayPrepare(tree) ELSE DeepSeekMayPrepare(tree)

(* execute_stage inspects it again, and no longer asks for a clean one.    *)
MayLaunch(id, tree) == id = "deepseek" \/ AtBaseline(tree)

(* classify_execution_result.                                              *)
Classified(status, matches) == IF matches THEN status ELSE "REBASE_REQUIRED"

-----------------------------------------------------------------------------
(* The runners.  A process that did not come to a regular end within the   *)
(* bound on its output cannot be trusted.                                  *)
Completed(answer) == answer.ended \notin {"timeout", "not_launched", "nonzero"} /\ ~answer.large

(* Codex prints one event a line and writes its result to a file of its    *)
(* own; neither may be malformed.                                          *)
CodexParses(answer) == answer.ended # "malformed"

(* The schema pins baseline and fingerprint to those of the packet.        *)
CodexFits(answer) == answer.ended = "object" /\ answer.bound

CodexRunner(answer) ==
    IF Completed(answer) /\ CodexParses(answer) /\ CodexFits(answer)
    THEN answer.status ELSE "RAISES"

(* Claude's object holds the structured result in one of several places.   *)
ClaudeExtracts(answer) == answer.ended # "malformed"

ClaudeFits(answer) == answer.ended = "object" /\ answer.bound

ClaudeRunner(answer) ==
    IF Completed(answer) /\ ClaudeExtracts(answer) /\ ClaudeFits(answer)
    THEN answer.status ELSE "RAISES"

(* _core_authority_reason: the Model, and what governs it.                 *)
CoreAuthority(p) == p \in CorePath

(* _verify_success_artifacts.                                              *)
CodexArtifactsHold(before, after, claimed) ==
    /\ claimed # {}
    /\ claimed \subseteq OwnedPath
    /\ \A p \in claimed :
          ~CoreAuthority(p) /\ Present(after, p) /\ p \in Changed(before, after)

(* execute_stage: a worktree that left the baseline is a rebase, and only  *)
(* then are the artifacts looked at.                                       *)
CodexOutcome(before, after, answer) ==
    LET reported == CodexRunner(answer)
        status == IF reported = "RAISES" THEN "RAISES"
                  ELSE Classified(reported, AtBaseline(after))
    IN IF status = "SUCCESS" /\ ~CodexArtifactsHold(before, after, answer.claimed)
       THEN "RAISES" ELSE status

(* _assert_only_owned_workspace_changes.                                   *)
ClaudeStayedInside(before, after) ==
    Changed(before, after) \subseteq OwnedPath \ {ModelPath}

(* _artifacts_are_owned_changed_and_present.                               *)
ClaudeArtifactsHold(before, after, claimed) ==
    /\ claimed # {}
    /\ ModelPath \notin claimed
    /\ claimed \subseteq OwnedPath
    /\ \A p \in claimed : Present(after, p) /\ p \in Changed(before, after)

(* execute_stage plans again after the run: a worktree that left the       *)
(* baseline raises, and so does a change outside the ownership.            *)
ClaudeOutcome(before, after, answer) ==
    LET status == ClaudeRunner(answer)
    IN IF \/ status = "RAISES" \/ ~AtBaseline(after) \/ ~ClaudeStayedInside(before, after)
          \/ status = "SUCCESS" /\ ~ClaudeArtifactsHold(before, after, answer.claimed)
       THEN "RAISES" ELSE status

(* normalize_deepseek_result: there is no schema, so the object may be     *)
(* bound to another packet.                                                *)
DeepSeekNormalized(answer) == Classified(answer.status, answer.bound)

(* execute never raises: a timeout is a cancellation, everything else that *)
(* is not a proper object a failure, and no output is too large.           *)
DeepSeekOutcome(answer) ==
    IF answer.ended = "timeout" THEN "CANCELLED"
    ELSE IF answer.ended = "object" THEN DeepSeekNormalized(answer) ELSE "FAIL"

(* execute_stage of Hermes, whose runner is given by the caller: the HEAD  *)
(* is not looked at, and an artifact that does not hold is a failure.      *)
HermesArtifactsHold(before, after, claimed) ==
    /\ claimed # {} /\ claimed \subseteq OwnedPath
    /\ \A p \in claimed : Present(after, p) /\ p \in Changed(before, after)

HermesOutcome(before, after, answer) ==
    LET status == Classified(answer.status, answer.bound)
    IN IF answer.ended # "object" THEN "RAISES"
       ELSE IF after.content[ModelPath] # before.content[ModelPath] THEN "REBASE_REQUIRED"
       ELSE IF status = "SUCCESS" /\ ~HermesArtifactsHold(before, after, answer.claimed)
       THEN "FAIL" ELSE status

AdapterOutcome(id, before, after, answer) ==
    IF id = "codex" THEN CodexOutcome(before, after, answer)
    ELSE IF id = "claude" THEN ClaudeOutcome(before, after, answer)
    ELSE DeepSeekOutcome(answer)
=============================================================================
