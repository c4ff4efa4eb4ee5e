-------------------------- MODULE CapabilityGraph --------------------------
(***************************************************************************)
(* The Capability Graph (src/artifex/capabilities): what the loader finds  *)
(* out about a configured provider by probing the machine                  *)
(* (composition.py), and which provider a request may use (resolver.py).   *)
(* Nothing here is kept: every request composes the graph anew.            *)
(***************************************************************************)
EXTENDS Naturals, FiniteSets

ProviderId == {"claude", "codex", "deepseek"}

ProviderRole == {"INTERACTION", "EXECUTION_IMPLEMENTER"}

(* What probing a provider's command shows: whether the executable answers *)
(* --version with a version, whether that version is one ARTIFEX supports, *)
(* whether its help text tells of a stable headless interface and of       *)
(* writing, and whether its native session is logged in.                   *)
Machine ==
    [answers : BOOLEAN, supported : BOOLEAN, headless : BOOLEAN, writes : BOOLEAN,
     session : BOOLEAN]

CodexDetected(m) == m.answers

ClaudeDetected(m) == m.answers

DeepSeekDetected(m) == m.answers

(* The native session is asked only where the configuration names a        *)
(* credential reference.                                                   *)
CodexAuthenticated(m, conf) == conf.reference /\ m.session

ClaudeAuthenticated(m, conf) == conf.reference /\ m.session

DeepSeekAuthenticated(m, conf) == conf.reference /\ m.session

CodexReadiness(m, conf) ==
    IF ~CodexDetected(m) THEN "NOT_DETECTED"
    ELSE IF CodexAuthenticated(m, conf) THEN "AVAILABLE" ELSE "CONFIGURED"

(* Claude must be of a range of versions, DeepSeek of one major version.   *)
ClaudeReadiness(m, conf) ==
    IF ~ClaudeDetected(m) THEN "NOT_DETECTED"
    ELSE IF m.supported /\ ClaudeAuthenticated(m, conf) THEN "AVAILABLE" ELSE "CONFIGURED"

(* _classify_compatibility.                                                *)
DeepSeekStable(m) == m.supported /\ m.headless

DeepSeekReadiness(m, conf) ==
    IF ~DeepSeekDetected(m) THEN "NOT_DETECTED"
    ELSE IF DeepSeekStable(m) /\ DeepSeekAuthenticated(m, conf)
         THEN "AVAILABLE" ELSE "CONFIGURED"

Readiness(id, m, conf) ==
    IF id = "codex" THEN CodexReadiness(m, conf)
    ELSE IF id = "claude" THEN ClaudeReadiness(m, conf) ELSE DeepSeekReadiness(m, conf)

(* The defaults of a version 1.0 setup file.                               *)
DefaultConfiguration(id) ==
    [enabled |-> TRUE, reference |-> TRUE, governed |-> FALSE,
     roles |-> IF id = "deepseek" THEN {"EXECUTION_IMPLEMENTER"} ELSE ProviderRole]

(* DeepSeek's capabilities are read off its help text.                     *)
Capabilities(id, m) ==
    IF id # "deepseek" \/ m.writes THEN {"repository_read", "repository_write"}
    ELSE {"repository_read"}

(* load: the enabled providers, each with what was probed just now.        *)
LoadGraph(machine, configuration, certified) ==
    {[provider |-> id, available |-> Readiness(id, machine[id], configuration[id]) = "AVAILABLE",
      roles |-> configuration[id].roles, governed |-> configuration[id].governed,
      capabilities |-> Capabilities(id, machine[id]),
      certified |-> certified[id] \cap configuration[id].roles] :
        id \in {i \in ProviderId : configuration[i].enabled}}

(* _ineligibility_reasons is empty.  Restricted data needs a provider that *)
(* Atlas governs, and of those the loader composes none.                   *)
Eligible(instance, request) ==
    /\ instance.available
    /\ request.role \in instance.roles \cap instance.certified \cap request.delegated
    /\ request.capabilities \subseteq instance.capabilities \cap request.envelopeCapabilities
    /\ request.allowed = {} \/ instance.provider \in request.allowed
    /\ request.projectAllowed = {} \/ instance.provider \in request.projectAllowed
    /\ request.projectRoles = {} \/ request.role \in request.projectRoles
    /\ ~instance.governed /\ ~request.restricted

(* Providers in the order of their names.                                  *)
Place(id) == IF id = "claude" THEN 1 ELSE IF id = "codex" THEN 2 ELSE 3

(* resolve: the preferred provider if it is eligible, else the first one.  *)
Resolve(graph, request) ==
    LET candidates == {i.provider : i \in {j \in graph : Eligible(j, request)}}
    IN IF candidates = {} THEN "NONE"
       ELSE IF request.preferred \in candidates THEN request.preferred
       ELSE CHOOSE id \in candidates : \A other \in candidates : Place(id) <= Place(other)
=============================================================================
