-------------------------- MODULE ResearchExchange --------------------------
(***************************************************************************)
(* Research through Pandora (integrations/pandora.py, research.py): a      *)
(* request is exported to a directory, Pandora (external) writes a bundle  *)
(* and a report into it, and an import reads the manifest of the provider, *)
(* the bundle and the report one after the other.  What is imported is     *)
(* evidence only: nothing here changes a Project.                          *)
(***************************************************************************)
EXTENDS Naturals, FiniteSets

CONSTANTS
    RequestId,
    Question,            \* contents of a request, the blank one included
    BlankQuestion,
    Instance,            \* instances of Pandora, with their versions
    ResearchBundle,      \* what Pandora may write as a bundle
    Report,              \* texts of a report
    BlankReport,
    Oversized,           \* a file past its size limit
    Unreadable,          \* a file that is not what the contract asks for
    NoFile,
    Researcher,          \* concurrent requests of the product surface
    NoImport

ASSUME ResearchAssumption ==
    /\ BlankQuestion \in Question /\ BlankReport \in Report
    /\ NoFile \notin Question
    /\ {NoFile, Unreadable, Oversized} \cap (Instance \cup Report \cup ResearchBundle) = {}
    /\ \A b \in ResearchBundle :
          /\ DOMAIN b = {"request", "findings", "cites", "sources", "unique", "by"}
          /\ {b.findings, b.unique} \subseteq BOOLEAN

VARIABLES
    exchange,    \* the files under the exchange root
    importing,   \* importing[c]: what an import has read so far
    reply,       \* reply[c]: how the last operation of c ended, "NONE" before it does
    evidence     \* evidence[c]: what the last import of c returned

researchVars == <<exchange, importing, reply, evidence>>

ResearchInit ==
    /\ exchange = [manifest |-> NoFile,
                   request |-> [q \in RequestId |-> NoFile],
                   bundle |-> [q \in RequestId |-> NoFile],
                   report |-> [q \in RequestId |-> NoFile]]
    /\ importing = [c \in Researcher |-> NoImport]
    /\ reply = [c \in Researcher |-> "NONE"]
    /\ evidence = [c \in Researcher |-> NoImport]

(* _read_regular_file refuses what is missing or too large; the reader of  *)
(* the contents what it cannot parse.                                      *)
IsRegular(f) == f \notin {NoFile, Oversized}

(* PandoraProviderManifest: schema, identity, contract, role, timestamp.   *)
ManifestReads(f) == IsRegular(f) /\ f # Unreadable

(* ResearchRequest.__post_init__.                                          *)
RequestIsComplete(question) == question # BlankQuestion

(* ResearchClaim: the evidence a claim cites is listed (an empty bundle of *)
(* claims cites nothing).  ResearchSource: what is listed is identified.   *)
ClaimsStand(b) == b.cites \subseteq b.sources

SourcesStand(b) == b.unique

(* ResearchBundle.__post_init__: findings, sources and claims.             *)
BundleIsComplete(b) == b.findings /\ SourcesStand(b) /\ ClaimsStand(b)

(* _validate_provider_generation.                                          *)
GenerationMatches(b, manifest) == b.by = manifest

-----------------------------------------------------------------------------
Ready(c) == importing[c] = NoImport

Replies(c, r) == reply' = [reply EXCEPT ![c] = r]

(* readiness: CONFIGURED once the root is a directory, and never AVAILABLE *)
(* since no authority certifies Pandora.                                   *)
ReadinessChecks == [exchange_root_safe |-> TRUE,
                    provider_manifest_valid |-> ManifestReads(exchange.manifest),
                    certification_authority_configured |-> FALSE,
                    live_role_certified |-> FALSE]

AvailableForResearch == \A k \in DOMAIN ReadinessChecks : ReadinessChecks[k]

(* _atomic_write: readers of a request see the old one or the new one.     *)
ReplaceRequest(q, question) == exchange' = [exchange EXCEPT !.request[q] = question]

(* export_request: the manifest must read, then the request is replaced.   *)
ExportRequest(c, q, question) ==
    /\ Ready(c) /\ RequestIsComplete(question) /\ ManifestReads(exchange.manifest)
    /\ ReplaceRequest(q, question)
    /\ Replies(c, "EXPORTED")
    /\ UNCHANGED <<importing, evidence>>

ExportRefused(c, question) ==
    /\ Ready(c)
    /\ ~RequestIsComplete(question) \/ ~ManifestReads(exchange.manifest)
    /\ Replies(c, "FAILED")
    /\ UNCHANGED <<exchange, importing, evidence>>

(* propose_adoption.                                                       *)
ProposeAdoption(c) ==
    /\ Ready(c) /\ ~AvailableForResearch
    /\ Replies(c, "REFUSED")
    /\ UNCHANGED <<exchange, importing, evidence>>

(* select_research_route: the adapter calls Pandora available whenever its *)
(* root is not something else than a directory.                            *)
ResearchRoute(depth, available, escalate) ==
    CASE depth = "DEEP" /\ available -> "PANDORA_PREFERRED"
      [] depth = "STANDARD" /\ escalate /\ available -> "PANDORA_ESCALATION"
      [] OTHER -> "NATIVE"

SelectRoute(c, depth, escalate) ==
    /\ Ready(c)
    /\ Replies(c, ResearchRoute(depth, TRUE, escalate))
    /\ UNCHANGED <<exchange, importing, evidence>>

-----------------------------------------------------------------------------
ImportFails(c) ==
    /\ importing' = [importing EXCEPT ![c] = NoImport]
    /\ Replies(c, "FAILED")
    /\ UNCHANGED evidence

(* import_evidence reads the manifest ...                                  *)
ImportEvidence(c, q) ==
    /\ Ready(c)
    /\ \/ /\ ManifestReads(exchange.manifest)
          /\ importing' = [importing EXCEPT ![c] =
                 [request |-> q, manifest |-> exchange.manifest, bundle |-> NoFile]]
          /\ Replies(c, "NONE") /\ UNCHANGED evidence
       \/ ~ManifestReads(exchange.manifest) /\ ImportFails(c)
    /\ UNCHANGED exchange

(* ... import_bundle the bundle ...                                        *)
ReadBundle(c) ==
    LET f == exchange.bundle[importing[c].request] IN
    /\ ~Ready(c) /\ importing[c].bundle = NoFile
    /\ \/ IsRegular(f) /\ importing' = [importing EXCEPT ![c].bundle = f]
             /\ UNCHANGED <<reply, evidence>>
       \/ ~IsRegular(f) /\ ImportFails(c)
    /\ UNCHANGED exchange

(* ... and the report, and then everything that was read is validated.     *)
ImportIsValid(i, report) ==
    /\ IsRegular(report) /\ report # Unreadable
    /\ i.bundle # Unreadable /\ BundleIsComplete(i.bundle)
    /\ i.bundle.request = i.request
    /\ report # BlankReport
    /\ GenerationMatches(i.bundle, i.manifest)

ReadReport(c) ==
    LET i == importing[c]
        f == exchange.report[i.request]
    IN
    /\ ~Ready(c) /\ i.bundle # NoFile
    /\ \/ /\ ImportIsValid(i, f)
          /\ importing' = [importing EXCEPT ![c] = NoImport]
          /\ evidence' = [evidence EXCEPT ![c] =
                 [request |-> i.request, manifest |-> i.manifest,
                  bundle |-> i.bundle, report |-> f]]
          /\ Replies(c, "IMPORTED")
       \/ ~ImportIsValid(i, f) /\ ImportFails(c)
    /\ UNCHANGED exchange

-----------------------------------------------------------------------------
(* Pandora, outside the repository: an instance replaces another, and what *)
(* it writes may be anything at any time: no import asks whether a request *)
(* was exported.                                                           *)
PandoraAnnounces(f) ==
    /\ exchange' = [exchange EXCEPT !.manifest = f]
    /\ UNCHANGED <<importing, reply, evidence>>

PandoraAnswers(q, f) ==
    /\ exchange' = [exchange EXCEPT !.bundle[q] = f]
    /\ UNCHANGED <<importing, reply, evidence>>

PandoraReports(q, f) ==
    /\ exchange' = [exchange EXCEPT !.report[q] = f]
    /\ UNCHANGED <<importing, reply, evidence>>

Pandora ==
    \/ \E f \in Instance \cup {Unreadable, Oversized} : PandoraAnnounces(f)
    \/ \E q \in RequestId, f \in ResearchBundle \cup {Unreadable, Oversized} : PandoraAnswers(q, f)
    \/ \E q \in RequestId, f \in Report \cup {Oversized} : PandoraReports(q, f)

ResearchNext ==
    \/ \E c \in Researcher, q \in RequestId, x \in Question : ExportRequest(c, q, x)
    \/ \E c \in Researcher, x \in Question : ExportRefused(c, x)
    \/ \E c \in Researcher, q \in RequestId : ImportEvidence(c, q)
    \/ \E c \in Researcher : ReadBundle(c) \/ ReadReport(c) \/ ProposeAdoption(c)
    \/ \E c \in Researcher, d \in {"QUICK", "STANDARD", "DEEP"}, e \in BOOLEAN :
          SelectRoute(c, d, e)
    \/ Pandora

ResearchSpec == ResearchInit /\ [][ResearchNext]_researchVars

=============================================================================
