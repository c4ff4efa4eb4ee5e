---------------------------- MODULE Integrations ----------------------------
(***************************************************************************)
(* What an integration is asked besides executing a stage: which one is    *)
(* detected, registered and selected (integrations/registry.py,            *)
(* selection.py, conformance.py), how the interface pack of Hermes is      *)
(* installed, and whether the semantic files of a Project look the same    *)
(* through every interface of a route (continuity.py).  A route reads the  *)
(* files one by one while other processes change them.                     *)
(***************************************************************************)
EXTENDS Integers, Sequences, FiniteSets

CONSTANTS
    Route,           \* routes a caller may name
    Factory,         \* Factory[i]: the identity of the adapter made for i
    PackFile,        \* files of the interface pack
    MaxEdits         \* bound on the changes of other processes

ASSUME IntegrationsAssumption ==
    /\ MaxEdits \in Nat
    /\ \A r \in Route : r \in Seq(STRING)
    /\ DOMAIN Factory \subseteq STRING

VARIABLES
    past,            \* the states of the semantic files, the last is now
    walk,            \* the verification or snapshot under way
    reported,        \* the routes that passed
    probe,           \* what probing the machine finds for an integration
    registry,        \* the detection each registered integration was made with
    selected,        \* the integration selected last
    pack             \* the destination of the interface pack, and its installer

continuityVars == <<past, walk, reported>>

selectionVars == <<probe, registry, selected>>

integrationsVars == <<continuityVars, selectionVars, pack>>

-----------------------------------------------------------------------------
(* The semantic files in the order of their names: a ChangeSet, the Model, *)
(* project.yaml and status.yaml.  A file that is missing is NoContent, a   *)
(* positive number stands for contents that parse, a negative for others.  *)
SemanticFile == <<"changeset", "model", "project", "status">>

FileName == {SemanticFile[k] : k \in DOMAIN SemanticFile}

NoContent == 0

Parses(content) == content > 0

NothingRead == [f \in FileName |-> NoContent]

Now == past[Len(past)]

NotWalking ==
    [kind |-> "none", via |-> <<>>, hop |-> 1, step |-> "none", since |-> 1,
     model |-> NoContent, source |-> "none", state |-> NoContent, unread |-> {},
     surface |-> NothingRead, route |-> NothingRead]

(* repository.load and model_fingerprint.                                  *)
ModelNow == Now["model"]

(* read_project_status of every adapter: the first of three files decides. *)
StatusSource ==
    IF Now["status"] # NoContent THEN "status"
    ELSE IF Now["model"] # NoContent THEN "model" ELSE "project"

StatusReads == Parses(Now[StatusSource])

WalkEnds == walk' = NotWalking

(* verify_continuity_route, before the first hop.                          *)
RouteOfAnyLength(r) == r # <<>>

RouteIsLong(r) == Len(r) >= 2

RouteMayStart(r, expected) == RouteIsLong(r) /\ Parses(ModelNow) /\ ModelNow = expected

StartRoute(kind, r) ==
    walk' = [NotWalking EXCEPT !.kind = kind, !.via = r, !.step = "status",
                               !.since = Len(past), !.model = ModelNow]

(* The caller names the Model it expects, the current one or a former one. *)
VerifyRoute(r, expected) ==
    /\ walk = NotWalking
    /\ RouteMayStart(r, expected)
    /\ StartRoute("route", r) /\ reported' = {}
    /\ UNCHANGED <<past, selectionVars, pack>>

(* verify_cross_interface_continuity: the primary route, then another.     *)
Primary == <<"hermes", "claude", "codex", "hermes">>

VerifyCrossInterface(expected) ==
    /\ walk = NotWalking
    /\ RouteMayStart(Primary, expected)
    /\ StartRoute("primary", Primary) /\ reported' = {}
    /\ UNCHANGED <<past, selectionVars, pack>>

(* continuity_snapshot of Codex reads the status first, that of Claude the *)
(* files only.                                                             *)
TakeSnapshot(kind) ==
    /\ walk = NotWalking
    /\ walk' = [NotWalking EXCEPT !.kind = kind, !.since = Len(past),
                                  !.step = IF kind = "codex" THEN "status" ELSE "list"]
    /\ UNCHANGED <<past, reported, selectionVars, pack>>

(* A fresh adapter of the right identity reads the status of the Project.  *)
AdapterIsThere ==
    walk.kind = "codex"
    \/ LET i == walk.via[walk.hop] IN i \in DOMAIN Factory /\ Factory[i] = i

ReadStatus ==
    /\ walk.step = "status"
    /\ IF AdapterIsThere /\ StatusReads
       THEN walk' = [walk EXCEPT !.step = "list", !.source = StatusSource,
                                 !.state = Now[StatusSource]]
       ELSE WalkEnds
    /\ UNCHANGED <<past, reported, selectionVars, pack>>

(* _portable_semantic_surface, _semantic_file_manifest: the files are      *)
(* listed, then read in the order of their names.                          *)
ListSurface ==
    /\ walk.step = "list"
    /\ walk' = [walk EXCEPT !.step = "read", !.surface = NothingRead,
                            !.unread = {f \in FileName : Now[f] # NoContent}]
    /\ UNCHANGED <<past, reported, selectionVars, pack>>

(* Codex hashes bytes; the others refuse what does not parse.              *)
Readable(content) == IF walk.kind = "codex" THEN content # NoContent ELSE Parses(content)

(* The first name in their order that is still to be read.                 *)
NextUnread(f) ==
    \E k \in DOMAIN SemanticFile :
        /\ f = SemanticFile[k] /\ f \in walk.unread
        /\ \A j \in 1 .. k - 1 : SemanticFile[j] \notin walk.unread

ReadSurface(f) ==
    /\ walk.step = "read" /\ NextUnread(f)
    /\ IF Readable(Now[f])
       THEN walk' = [walk EXCEPT !.surface = [walk.surface EXCEPT ![f] = Now[f]],
                                 !.unread = walk.unread \ {f}]
       ELSE WalkEnds
    /\ UNCHANGED <<past, reported, selectionVars, pack>>

(* The status must be what the surface says, the surface that of the first *)
(* hop, and the Model the one the route began with.                        *)
HopHolds ==
    /\ walk.surface # NothingRead
    /\ walk.surface[walk.source] = walk.state
    /\ walk.hop > 1 => walk.surface = walk.route
    /\ ModelNow = walk.model

LastHop == walk.hop = Len(walk.via)

NextHop ==
    /\ walk.kind \in {"route", "primary"} /\ walk.step = "read" /\ walk.unread = {}
    /\ HopHolds /\ ~LastHop
    /\ walk' = [walk EXCEPT !.hop = walk.hop + 1, !.step = "status", !.route = walk.surface,
                            !.surface = NothingRead, !.source = "none", !.state = NoContent]
    /\ UNCHANGED <<past, reported, selectionVars, pack>>

(* After the primary route the other one of the caller starts from the     *)
(* Model as it is then, which must still be the expected one.              *)
RoutePasses(r) ==
    /\ walk.kind \in {"route", "primary"} /\ walk.step = "read" /\ walk.unread = {}
    /\ HopHolds /\ LastHop
    /\ reported' = reported \cup
          {[surface |-> walk.surface, model |-> walk.model,
            since |-> walk.since, until |-> Len(past)]}
    /\ IF walk.kind = "primary" /\ RouteMayStart(r, walk.model)
       THEN StartRoute("route", r) ELSE WalkEnds
    /\ UNCHANGED <<past, selectionVars, pack>>

RouteFails ==
    /\ walk.kind \in {"route", "primary"} /\ walk.step = "read" /\ walk.unread = {}
    /\ ~HopHolds
    /\ WalkEnds
    /\ UNCHANGED <<past, reported, selectionVars, pack>>

SnapshotEnds ==
    /\ walk.kind \in {"claude", "codex"} /\ walk.step = "read" /\ walk.unread = {}
    /\ WalkEnds
    /\ UNCHANGED <<past, reported, selectionVars, pack>>

(* Other processes and people write new contents, bring former ones back,  *)
(* or remove a file.                                                       *)
Former(f) == {past[k][f] : k \in DOMAIN past} \ {NoContent}

EditSemanticFile(f) ==
    /\ Len(past) <= MaxEdits
    /\ LET fresh == Len(past) + 1
       IN \E content \in Former(f) \cup {fresh, -fresh} :
             /\ content # Now[f]
             /\ past' = Append(past, [Now EXCEPT ![f] = content])
    /\ UNCHANGED <<walk, reported, selectionVars, pack>>

RemoveSemanticFile(f) ==
    /\ Len(past) <= MaxEdits /\ Now[f] # NoContent
    /\ past' = Append(past, [Now EXCEPT ![f] = NoContent])
    /\ UNCHANGED <<walk, reported, selectionVars, pack>>

-----------------------------------------------------------------------------
(* Detection: nothing found or a probe that fails, an answer that names no *)
(* version, and one that does.                                             *)
Probe == {"missing", "unversioned", "versioned"}

HermesHealth(found) == IF found = "versioned" THEN "PASS" ELSE "DEGRADED"

CodexHealth(found) == IF found = "versioned" THEN "PASS" ELSE "DEGRADED"

ClaudeHealth(found) == IF found \in {"unversioned", "versioned"} THEN "PASS" ELSE "DEGRADED"

HealthOf(i, found) ==
    CASE i = "hermes" -> HermesHealth(found)
      [] i = "codex"  -> CodexHealth(found)
      [] i = "claude" -> ClaudeHealth(found)
      [] OTHER        -> "PASS"

(* The identities in the order of the registry.                            *)
Integration == <<"claude", "codex", "hermes", "manual">>

Common == {"interface", "harness", "implementer"}

ManualMetadata == [roles |-> Common, capabilities |-> {"structured_output", "repository_read"}]

AgentCapabilities == {"structured_output", "repository_read", "repository_write"}

HermesMetadata ==
    [roles |-> Common \cup {"research_provider"}, capabilities |-> AgentCapabilities \cup {"MCP"}]

CodexMetadata == [roles |-> Common, capabilities |-> AgentCapabilities \cup {"MCP"}]

ClaudeMetadata(found) ==
    [roles |-> Common,
     capabilities |-> AgentCapabilities \cup (IF found = "versioned" THEN {"MCP"} ELSE {})]

MetadataOf(i) ==
    CASE i = "hermes" -> HermesMetadata
      [] i = "codex"  -> CodexMetadata
      [] i = "claude" -> ClaudeMetadata(registry[i])
      [] OTHER        -> ManualMetadata

(* register: an identity once.                                             *)
RegisterIntegration(i) ==
    /\ i \notin DOMAIN registry
    /\ registry' = [x \in DOMAIN registry \cup {i} |->
                       IF x = i THEN probe[i] ELSE registry[x]]
    /\ UNCHANGED <<continuityVars, probe, selected, pack>>

(* compatible, in the order of the identities; the range of Core versions  *)
(* of every adapter holds this one.                                        *)
Compatible(role, capabilities) ==
    SelectSeq(Integration, LAMBDA i : /\ i \in DOMAIN registry
                                      /\ role \in MetadataOf(i).roles
                                      /\ capabilities \subseteq MetadataOf(i).capabilities)

(* SelectionPolicy with its defaults, and SelectionRequest.                *)
Allowed(policy, i) == policy.allowed = {} \/ i \in policy.allowed

Healthy(role, capabilities, policy) ==
    SelectSeq(Compatible(role, capabilities),
              LAMBDA i : Allowed(policy, i) /\ HealthOf(i, registry[i]) = "PASS")

(* select_integration: the one asked for or none; else the first that is   *)
(* preferred, else the first of all.                                       *)
Selection(healthy, wanted, policy) ==
    LET among == {healthy[k] : k \in DOMAIN healthy}
        preferred == SelectSeq(policy.preferred, LAMBDA i : i \in among)
    IN IF wanted # "any" THEN IF wanted \in among THEN wanted ELSE "none"
       ELSE IF preferred # <<>> THEN Head(preferred)
       ELSE IF policy.fallback /\ healthy # <<>> THEN Head(healthy) ELSE "none"

SelectIntegration(role, capabilities, wanted, policy) ==
    /\ selected' = Selection(Healthy(role, capabilities, policy), wanted, policy)
    /\ UNCHANGED <<continuityVars, probe, registry, pack>>

MachineChanges(i, found) ==
    /\ i # "manual" /\ probe[i] # found
    /\ probe' = [probe EXCEPT ![i] = found]
    /\ UNCHANGED <<continuityVars, registry, selected, pack>>

-----------------------------------------------------------------------------
(* install_interface_pack: every source is checked first, then the files   *)
(* are written one by one; a file that differs stops the rest unless it    *)
(* may be replaced.  An error leaves what was written.                     *)
BeginPack(replace) ==
    /\ ~pack.busy
    /\ pack' = [pack EXCEPT !.busy = TRUE, !.replace = replace, !.written = {}]
    /\ UNCHANGED <<continuityVars, selectionVars>>

WritePackFile(f) ==
    /\ pack.busy /\ f \notin pack.written
    /\ pack' = IF pack.file[f] = "other" /\ ~pack.replace THEN [pack EXCEPT !.busy = FALSE]
               ELSE [pack EXCEPT !.file[f] = "pack", !.written = @ \cup {f},
                                 !.busy = @ /\ pack.written \cup {f} # PackFile]
    /\ UNCHANGED <<continuityVars, selectionVars>>

EditPack(f, content) ==
    /\ pack.file[f] # content
    /\ pack' = [pack EXCEPT !.file[f] = content]
    /\ UNCHANGED <<continuityVars, selectionVars>>

-----------------------------------------------------------------------------
IntegrationsInit ==
    /\ past \in {<<[[f \in FileName |-> 1] EXCEPT !["status"] = s]>> : s \in {NoContent, 1}}
    /\ walk = NotWalking /\ reported = {}
    /\ probe = [i \in {"claude", "codex", "hermes", "manual"} |-> "missing"]
    /\ registry = [i \in {"manual"} |-> "missing"]
    /\ selected = "none"
    /\ pack = [busy |-> FALSE, replace |-> FALSE, written |-> {},
               file |-> [f \in PackFile |-> "absent"]]

ContinuityNext ==
    \/ \E k \in DOMAIN past :
          \/ \E r \in Route : VerifyRoute(r, past[k]["model"])
          \/ VerifyCrossInterface(past[k]["model"])
    \/ \E k \in {"claude", "codex"} : TakeSnapshot(k)
    \/ ReadStatus \/ ListSurface
    \/ NextHop \/ RouteFails \/ SnapshotEnds
    \/ \E r \in Route : RoutePasses(r)
    \/ \E f \in FileName :
          ReadSurface(f) \/ EditSemanticFile(f) \/ RemoveSemanticFile(f)

Policy ==
    {[allowed |-> {}, preferred |-> <<"manual">>, fallback |-> TRUE],
     [allowed |-> {"claude", "codex"}, preferred |-> <<"hermes", "codex">>, fallback |-> TRUE],
     [allowed |-> {}, preferred |-> <<"hermes">>, fallback |-> FALSE]}

SelectionNext ==
    \/ \E i \in DOMAIN probe :
          RegisterIntegration(i) \/ \E found \in Probe : MachineChanges(i, found)
    \/ \E role \in {"implementer", "research_provider"}, cs \in {{}, {"MCP"}},
          wanted \in {"any", "claude"}, policy \in Policy :
          SelectIntegration(role, cs, wanted, policy)

PackNext ==
    \/ \E replace \in BOOLEAN : BeginPack(replace)
    \/ \E f \in PackFile : WritePackFile(f) \/ \E c \in {"pack", "other"} : EditPack(f, c)

IntegrationsNext == ContinuityNext \/ SelectionNext \/ PackNext

IntegrationsSpec == IntegrationsInit /\ [][IntegrationsNext]_integrationsVars

-----------------------------------------------------------------------------
(* No file had the same contents before and after other ones.              *)
NothingReturned(states, from, to) ==
    \A i, j, k \in from .. to, f \in FileName :
        i <= j /\ j <= k /\ states[i][f] = states[k][f] => states[j][f] = states[i][f]

(* A route that passes describes a state the Project was in while it was   *)
(* walked: the semantic files its report stands for were there together,   *)
(* and the Model it names was among them (verify_continuity_route), though *)
(* no hop reads them at once and other processes change them in between.   *)
(* That holds if no file was changed and changed back during the walk; if  *)
(* one was, the report still names no contents that were not there while   *)
(* it was walked, but perhaps never together.                              *)
PassedRouteIsASnapshot ==
    \A r \in reported :
        /\ \A f \in FileName : \E k \in r.since .. r.until : past[k][f] = r.surface[f]
        /\ NothingReturned(past, r.since, r.until) =>
              /\ \E k \in r.since .. r.until : past[k] = r.surface
              /\ r.surface["model"] = r.model
=============================================================================
