----------------------------- MODULE MC_Records -----------------------------
(***************************************************************************)
(* Stores beside the runtime and the authority, which share no state: one  *)
(* run checks them all, each on its own small instance.  `component` says  *)
(* which of them a behaviour is about.                                     *)
(***************************************************************************)
EXTENDS Installation, Migration, Documentation, Workflow, Validation, Knowledge,
        ResearchExchange, StageWorkflow, Integrations, ObservedReality

CONSTANTS v1, v2, exe, lib, doc, g1, g2, e0, e1, e2, e3, b1, b2, t1, rq1, rq2, n1, n2,
          src1, pf1, pf2

VARIABLE component

(* Two bundles that share the program and differ in one file each.         *)
MC_FilesOf == v1 :> {exe, lib} @@ v2 :> {exe, doc}

MC_Below == g1 :> {} @@ g2 :> {g1}

MC_GateLevel == g1 :> 0 @@ g2 :> 1

MC_Entry(i, g, o, b, x) ==
    [id |-> i, claim |-> g, outcome |-> o, binding |-> b, independent |-> x]

(* Evidence for both gates and bindings, against a gate, not independent   *)
(* of the executor, and under an identity of the journal of version 1.     *)
MC_Evidence ==
    {MC_Entry(e1, g1, "PASS", b1, TRUE), MC_Entry(e2, g2, "PASS", b1, TRUE),
     MC_Entry(e3, g1, "FAIL", b1, TRUE), MC_Entry(e2, g1, "BLOCKED", b2, TRUE),
     MC_Entry(e3, g2, "PASS", b1, FALSE), MC_Entry(e0, g1, "PASS", b1, TRUE)}

(* Bundles of either instance that hold, and one for each way not to: a    *)
(* source that is not listed, another request, a source twice, no finding. *)
MC_Bundle(r, c, u, b) ==
    [request |-> r, findings |-> TRUE, cites |-> c, sources |-> {src1}, unique |-> u, by |-> b]

MC_ResearchBundles ==
    {MC_Bundle(rq1, {src1}, TRUE, n1), MC_Bundle(rq1, {src1}, TRUE, n2),
     [MC_Bundle(rq1, {src1}, TRUE, n1) EXCEPT !.sources = {}], MC_Bundle(rq2, {}, TRUE, n1),
     MC_Bundle(rq1, {}, FALSE, n1), [MC_Bundle(rq1, {}, TRUE, n1) EXCEPT !.findings = FALSE]}

(* Installation and Migration both use the approval tokens.                *)
setUpVars == <<installationVars, migrationVars>>

(* A route too short, one with an interface nobody provides, one whose     *)
(* adapter is another one.                                                 *)
MC_Routes ==
    {<<"codex", "claude">>, <<"claude">>, <<"pandora", "codex">>, <<"manual", "codex">>}

MC_Factory ==
    "hermes" :> "hermes" @@ "claude" :> "claude" @@ "codex" :> "codex" @@ "manual" :> "hermes"

integrationVars == <<researchVars, stageWorkflowVars, integrationsVars, realityVars>>

recordVars ==
    <<component, setUpVars, documentationVars, workflowVars, validationVars, knowledgeVars,
      integrationVars>>

RecordsInit ==
    /\ component \in {"installation", "migration", "documentation", "workflow", "validation",
                      "knowledge", "research", "stages", "continuity", "selection", "pack",
                      "reality"}
    /\ InstallationInit /\ MigrationInit /\ DocumentationInit /\ WorkflowInit
    /\ ValidationInit /\ KnowledgeInit /\ ResearchInit /\ StageWorkflowInit
    /\ IntegrationsInit /\ RealityInit
    /\ component = "continuity" <=> Now["status"] # NoContent
    /\ component # "documentation" => accepted[1].says \in [Document -> {t1}]
    /\ binding = b1 /\ (component # "stages" => lifecycle = "BROWNFIELD")

Installing ==
    /\ component = "installation" /\ InstallationNext
    /\ UNCHANGED <<component, stores, files, phase, current, spoiled, raced>>
    /\ UNCHANGED <<documentationVars, workflowVars, validationVars, knowledgeVars,
                   integrationVars>>

(* Two of the approval tokens are enough for a migration.                  *)
Migrating ==
    /\ component = "migration" /\ MigrationNext
    /\ \E t \in Token : token'[t] = Unissued
    /\ UNCHANGED <<component, bundle, service, request, step, op, mishap>>
    /\ UNCHANGED <<documentationVars, workflowVars, validationVars, knowledgeVars,
                   integrationVars>>

Documenting ==
    /\ component = "documentation" /\ DocumentationNext
    /\ UNCHANGED <<component, setUpVars, workflowVars, validationVars, knowledgeVars,
                   integrationVars>>

Working ==
    /\ component = "workflow" /\ WorkflowNext
    /\ UNCHANGED <<component, setUpVars, documentationVars, validationVars, knowledgeVars,
                   integrationVars>>

Validating ==
    /\ component = "validation" /\ ValidationNext
    /\ UNCHANGED <<component, setUpVars, documentationVars, workflowVars, knowledgeVars,
                   integrationVars>>

Learning ==
    /\ component = "knowledge" /\ KnowledgeNext
    /\ UNCHANGED <<component, setUpVars, documentationVars, workflowVars, validationVars,
                   integrationVars>>

Researching ==
    /\ component = "research" /\ ResearchNext
    /\ UNCHANGED <<component, setUpVars, documentationVars, workflowVars, validationVars,
                   knowledgeVars, stageWorkflowVars, integrationsVars, realityVars>>

Staging ==
    /\ component = "stages" /\ StageWorkflowNext
    /\ UNCHANGED <<component, setUpVars, documentationVars, workflowVars, validationVars,
                   knowledgeVars, researchVars, integrationsVars, realityVars>>

Integrating ==
    /\ \/ component = "continuity" /\ ContinuityNext
       \/ component = "selection" /\ SelectionNext
       \/ component = "pack" /\ PackNext
    /\ UNCHANGED <<component, setUpVars, documentationVars, workflowVars, validationVars,
                   knowledgeVars, researchVars, stageWorkflowVars, realityVars>>

Logging ==
    /\ component = "reality" /\ RealityNext
    /\ UNCHANGED <<component, setUpVars, documentationVars, workflowVars, validationVars,
                   knowledgeVars, researchVars, stageWorkflowVars, integrationsVars>>

RecordsNext ==
    \/ Installing \/ Migrating \/ Documenting \/ Working \/ Validating \/ Learning
    \/ Researching \/ Staging \/ Integrating \/ Logging

(* Workers that loop go on until the guard stops them.                     *)
Observing(s) ==
    /\ component = "workflow" /\ Observe(s)
    /\ UNCHANGED <<component, setUpVars, documentationVars, validationVars, knowledgeVars,
                   integrationVars>>

RecordsSpec ==
    /\ RecordsInit /\ [][RecordsNext]_recordVars
    /\ \A s \in Stage : WF_recordVars(Observing(s))
=============================================================================
