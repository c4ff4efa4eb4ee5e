-------------------------- MODULE ProjectAuthority --------------------------
(***************************************************************************)
(* The semantic authority of one Project: ProjectAuthority                 *)
(* (project/authority.py) over the files of the Project repository, and    *)
(* the calls of ProjectControlService (project/service.py) that update the *)
(* Project Catalog and the divergences of Observed Reality after it.       *)
(*                                                                         *)
(* Revision records, proposals and the materialized Project Model are      *)
(* separate files.  write_atomic replaces one file as a whole; nothing is  *)
(* atomic across two of them.  Clients are the requests in progress.       *)
(* Hosted ones run inside the managed service, which takes its authority   *)
(* lock around every request; the others are command line processes of     *)
(* their own and take no lock at all.  The Model file may also be edited   *)
(* by hand at any time.                                                    *)
(*                                                                         *)
(* A Project Model stands for its fingerprint.                             *)
(***************************************************************************)
EXTENDS Naturals, Sequences

CONSTANTS
    Client, Hosted,          \* requests, and those that run in the service
    Content, NoContent,      \* Project Models
    Proposal, NoProposal,    \* proposal identifiers, never reused (uuid4)
    MaxRevision,             \* bound on the number of revisions
    MaxEdits                 \* bound on edits by hand

ASSUME AuthorityAssumption ==
    /\ Hosted \subseteq Client
    /\ NoContent \notin Content
    /\ NoProposal \notin Proposal
    /\ \A e \in 1..MaxRevision, m \in Content : NoProposal # [expected |-> e, content |-> m]
    /\ MaxRevision \in Nat \ {0} /\ MaxEdits \in Nat

VARIABLES
    model,           \* project-model.json
    chain,           \* semantic-revisions/*.json in the order of their names
    proposals,       \* semantic-proposals/*.json
    audited,         \* SEMANTIC_REVISION_ACCEPTED events of audit.jsonl
    catalog,         \* last_semantic_revision, 0 while not registered
    divergence,      \* latest state of the divergence that led to a proposal
    edits,           \* number of edits by hand so far
    step, work       \* next step of a request, and the revision it is about

files == <<model, chain, proposals, audited>>
derived == <<catalog, divergence>>
vars == <<files, derived, edits, step, work>>

Nothing == [number |-> 0, content |-> NoContent, parent |-> NoContent, proposal |-> NoProposal]

Init ==
    /\ model = NoContent
    /\ chain = <<>>
    /\ proposals = [p \in Proposal |-> NoProposal]
    /\ audited = {}
    /\ catalog = 0
    /\ divergence = [p \in Proposal |-> "NONE"]
    /\ edits = 0
    /\ step = [c \in Client |-> "idle"]
    /\ work = [c \in Client |-> Nothing]

-----------------------------------------------------------------------------
(* Control of a request.                                                   *)
FreeWithoutLock(c) == step[c] = "idle"

(* The managed service dispatches under its authority lock.                *)
Free(c) ==
    /\ step[c] = "idle"
    /\ c \in Hosted => \A d \in Hosted : step[d] = "idle"

Begin(c, name, revision) ==
    /\ Free(c)
    /\ step' = [step EXCEPT ![c] = name]
    /\ work' = [work EXCEPT ![c] = revision]

Continue(c, name) == step' = [step EXCEPT ![c] = name] /\ UNCHANGED work

Return(c) ==
    /\ step' = [step EXCEPT ![c] = "idle"]
    /\ work' = [work EXCEPT ![c] = Nothing]

(* An exception, or the death of the process.                              *)
Stop(c) ==
    /\ step[c] # "idle"
    /\ Return(c)
    /\ UNCHANGED <<files, derived, edits>>

ContentAt(n) == IF n = 0 THEN NoContent ELSE chain[n].content

(* current() reads the whole chain and refuses one that does not link up.  *)
Linked ==
    \A n \in 1..Len(chain) : chain[n].parent = ContentAt(n - 1)

Current == Len(chain)

Readable == chain # <<>> /\ Linked

-----------------------------------------------------------------------------
(* Creation and adoption.                                                  *)
CallCreate(c) ==
    /\ model = NoContent
    /\ Begin(c, "initialize", Nothing)
    /\ UNCHANGED <<files, derived, edits>>

Initialize(c, m) ==
    /\ step[c] = "initialize"
    /\ model' = m
    /\ Continue(c, "bootstrap")
    /\ UNCHANGED <<chain, proposals, audited, derived, edits>>

CallAdopt(c) ==
    /\ model # NoContent
    /\ Begin(c, "bootstrap", Nothing)
    /\ UNCHANGED <<files, derived, edits>>

(* bootstrap keeps an existing chain.                                      *)
Bootstrap(c) ==
    /\ step[c] = "bootstrap"
    /\ IF chain # <<>>
       THEN Continue(c, "current")
       ELSE /\ step' = [step EXCEPT ![c] = "exists"]
            /\ work' = [work EXCEPT ![c].number = 1, ![c].content = model]
    /\ UNCHANGED <<files, derived, edits>>

(* create and adopt then read the chain for the catalog.                   *)
ReadCurrent(c) ==
    /\ step[c] = "current"
    /\ Readable
    /\ step' = [step EXCEPT ![c] = "register"]
    /\ work' = [work EXCEPT ![c].number = Current]
    /\ UNCHANGED <<files, derived, edits>>

(* The catalog refuses a Project it already has.                           *)
Register(c) ==
    /\ step[c] = "register"
    /\ catalog = 0
    /\ catalog' = work[c].number
    /\ Return(c)
    /\ UNCHANGED <<files, divergence, edits>>

-----------------------------------------------------------------------------
(* Proposals.  The write depends on nothing that was read, so the request  *)
(* is one step.  expected_revision is the client's word.                   *)
Propose(c, p, basis, m) ==
    /\ Free(c) /\ Readable
    /\ proposals[p] = NoProposal
    /\ proposals' = [proposals EXCEPT ![p] = [expected |-> basis, content |-> m]]
    /\ UNCHANGED <<model, chain, audited, derived, edits, step, work>>

-----------------------------------------------------------------------------
(* Acceptance.  Authority.accept is reached through the service, which     *)
(* looks the Project up in the catalog, and from the promotion of a        *)
(* workspace, which does not; the latter ends before the catalog.          *)
CallAcceptAnyBasis(c, p) ==
    /\ Readable /\ Current < MaxRevision
    /\ proposals[p] # NoProposal
    /\ Begin(c, "load", [number |-> Current + 1, content |-> proposals[p].content,
                         parent |-> ContentAt(Current), proposal |-> p])
    /\ UNCHANGED <<files, derived, edits>>

(* The proposal was made against the current revision.                     *)
CallAccept(c, p) ==
    /\ Readable /\ Current < MaxRevision
    /\ proposals[p] # NoProposal
    /\ proposals[p].expected = Current
    /\ Begin(c, "load", [number |-> Current + 1, content |-> proposals[p].content,
                         parent |-> ContentAt(Current), proposal |-> p])
    /\ UNCHANGED <<files, derived, edits>>

(* The materialized Model must be that of the current revision or, after   *)
(* an acceptance that was cut short, already the proposed one.             *)
LoadMaterialized(c) ==
    /\ step[c] = "load"
    /\ Continue(c, IF model \in {work[c].parent, work[c].content} THEN "save" ELSE "refuse")
    /\ UNCHANGED <<files, derived, edits>>

(* Otherwise the Model on disk becomes a proposal of its own, read again   *)
(* together with the chain, and the acceptance is refused.                 *)
RefuseExternalMutation(c, p) ==
    /\ step[c] = "refuse"
    /\ Readable /\ model # ContentAt(Current)
    /\ proposals[p] = NoProposal
    /\ proposals' = [proposals EXCEPT ![p] = [expected |-> Current, content |-> model]]
    /\ Return(c)
    /\ UNCHANGED <<model, chain, audited, derived, edits>>

SaveModelForgotten(c) ==
    /\ step[c] = "save"
    /\ Continue(c, "exists")
    /\ UNCHANGED <<files, derived, edits>>

SaveModel(c) ==
    /\ step[c] = "save"
    /\ model' = work[c].content
    /\ Continue(c, "exists")
    /\ UNCHANGED <<chain, proposals, audited, derived, edits>>

RevisionIsNewAudited(c) ==
    /\ step[c] = "exists"
    /\ Len(chain) < work[c].number
    /\ audited' = audited \cup {[number |-> work[c].number, proposal |-> work[c].proposal]}
    /\ Continue(c, "write")
    /\ UNCHANGED <<model, chain, proposals, derived, edits>>

(* _write_revision looks for the file first ...                            *)
RevisionIsNew(c) ==
    /\ step[c] = "exists"
    /\ Len(chain) < work[c].number
    /\ Continue(c, "write")
    /\ UNCHANGED <<files, derived, edits>>

(* ... and then replaces it.                                               *)
WriteRevision(c) ==
    LET n == work[c].number
        revision == [content |-> work[c].content, parent |-> work[c].parent,
                     proposal |-> work[c].proposal]
    IN /\ step[c] = "write"
       /\ chain' = IF n \in 1..Len(chain) THEN [chain EXCEPT ![n] = revision]
                                          ELSE Append(chain, revision)
       /\ Continue(c, "audit")
       /\ UNCHANGED <<model, proposals, audited, derived, edits>>

AppendAudit(c) ==
    /\ step[c] = "audit"
    /\ audited' = audited \cup {[number |-> work[c].number, proposal |-> work[c].proposal]}
    /\ Continue(c, IF work[c].proposal = NoProposal THEN "current" ELSE "record")
    /\ UNCHANGED <<model, chain, proposals, derived, edits>>

RecordRevision(c) ==
    /\ step[c] = "record"
    /\ catalog # 0
    /\ catalog' = work[c].number
    /\ IF work[c].proposal = NoProposal THEN Return(c) ELSE Continue(c, "resolve")
    /\ UNCHANGED <<files, divergence, edits>>

ResolveProposal(c) ==
    /\ step[c] = "resolve"
    /\ divergence' = [divergence EXCEPT ![work[c].proposal] =
                        IF @ = "PROPOSED" THEN "RESOLVED" ELSE @]
    /\ Return(c)
    /\ UNCHANGED <<files, catalog, edits>>

-----------------------------------------------------------------------------
(* continue_by_name copies the number of the current revision into the     *)
(* catalog.                                                                *)
CallContinue(c) ==
    /\ Readable /\ catalog # 0
    /\ Begin(c, "record", [Nothing EXCEPT !.number = Current])
    /\ UNCHANGED <<files, derived, edits>>

(* observe_repository: a Model that is not the accepted one becomes a      *)
(* proposal, then a divergence.                                            *)
CallObserve(c) ==
    /\ catalog # 0
    /\ Readable /\ model # ContentAt(Current)
    /\ Begin(c, "observe", Nothing)
    /\ UNCHANGED <<files, derived, edits>>

ObserveExternalMutation(c, p) ==
    /\ step[c] = "observe"
    /\ Readable /\ model # ContentAt(Current)
    /\ proposals[p] = NoProposal
    /\ proposals' = [proposals EXCEPT ![p] = [expected |-> Current, content |-> model]]
    /\ step' = [step EXCEPT ![c] = "diverge"]
    /\ work' = [work EXCEPT ![c].proposal = p]
    /\ UNCHANGED <<model, chain, audited, derived, edits>>

AppendDivergence(c) ==
    /\ step[c] = "diverge"
    /\ divergence' = [divergence EXCEPT ![work[c].proposal] = "PROPOSED"]
    /\ Return(c)
    /\ UNCHANGED <<files, catalog, edits>>

ExternalEdit(m) ==
    /\ model # NoContent /\ m # model
    /\ edits < MaxEdits
    /\ edits' = edits + 1
    /\ model' = m
    /\ UNCHANGED <<chain, proposals, audited, derived, step, work>>

-----------------------------------------------------------------------------
Establish(c) ==
    \/ CallCreate(c)
    \/ \E m \in Content : Initialize(c, m)
    \/ CallAdopt(c)
    \/ Bootstrap(c)
    \/ ReadCurrent(c)
    \/ Register(c)

Accept(c) ==
    \/ \E p \in Proposal : CallAccept(c, p)
    \/ LoadMaterialized(c)
    \/ \E p \in Proposal : RefuseExternalMutation(c, p)
    \/ SaveModel(c)
    \/ RevisionIsNew(c)
    \/ WriteRevision(c)
    \/ AppendAudit(c)
    \/ RecordRevision(c)
    \/ ResolveProposal(c)

Observe(c) ==
    \/ CallContinue(c)
    \/ CallObserve(c)
    \/ \E p \in Proposal : ObserveExternalMutation(c, p)
    \/ AppendDivergence(c)

Next ==
    \/ \E c \in Client :
          \/ Establish(c)
          \/ \E p \in Proposal, basis \in 1..MaxRevision, m \in Content : Propose(c, p, basis, m)
          \/ Accept(c)
          \/ Observe(c)
          \/ Stop(c)
    \/ \E m \in Content : ExternalEdit(m)

Spec == Init /\ [][Next]_vars

-----------------------------------------------------------------------------
Revision == [content : Content, parent : Content \cup {NoContent},
             proposal : Proposal \cup {NoProposal}]

Work == [number : 0..MaxRevision, content : Content \cup {NoContent},
         parent : Content \cup {NoContent}, proposal : Proposal \cup {NoProposal}]

Step == {"idle", "initialize", "bootstrap", "current", "register", "load", "refuse", "save",
         "exists", "write", "audit", "record", "resolve", "observe", "diverge"}

TypeOK ==
    /\ model \in Content \cup {NoContent}
    /\ chain \in Seq(Revision)
    /\ proposals \in [Proposal ->
          [expected : 1..MaxRevision, content : Content] \cup {NoProposal}]
    /\ audited \subseteq [number : 1..MaxRevision, proposal : Proposal \cup {NoProposal}]
    /\ catalog \in 0..MaxRevision
    /\ divergence \in [Proposal -> {"NONE", "PROPOSED", "RESOLVED"}]
    /\ edits \in 0..MaxEdits
    /\ step \in [Client -> Step]
    /\ work \in [Client -> Work]

(* Every reader can read the accepted state: the chain links up from its   *)
(* first revision, whatever was interrupted, edited or raced (current).    *)
RevisionChainLinked == Linked

(* Unless somebody edited the Model by hand, a Model that differs from the *)
(* accepted one is that of a proposal which can still be accepted: an      *)
(* acceptance that was cut short left drift that its repetition heals, and *)
(* no accepted revision without its Model (accept).                        *)
DriftIsAPendingProposal ==
    edits = 0 /\ chain # <<>> =>
        \/ model = ContentAt(Current)
        \/ \E p \in Proposal : proposals[p] = [expected |-> Current, content |-> model]

AuditedRevisionsExist ==
    \A e \in audited : e.number \in 1..Len(chain) /\ chain[e.number].proposal = e.proposal

ResolvedByAcceptance ==
    \A p \in Proposal : divergence[p] = "RESOLVED" =>
        \E n \in 1..Len(chain) : chain[n].proposal = p

(* What is derived from the chain never claims more than it: the audit     *)
(* history and the divergences tell of no acceptance that did not happen,  *)
(* and the catalog of no revision that is not there, wherever a request    *)
(* was cut short (accept, record_revision, resolve_proposal).              *)
DerivedIsTruthful ==
    AuditedRevisionsExist /\ ResolvedByAcceptance /\ catalog <= Len(chain)

(* The catalog never falls back to an earlier revision, although its value *)
(* is read in one step and written in another (record_revision).           *)
CatalogNeverGoesBack == [][catalog <= catalog']_vars

(* The files of the repository behave as one history into which proposals  *)
(* enter by compare-and-append.                                            *)
History == INSTANCE SemanticHistory WITH
    history <- [n \in 1..Len(chain) |-> chain[n].content],
    offered <- proposals

ImplementsHistory == History!HistorySpec

-----------------------------------------------------------------------------
(* docs/architecture/COLLABORATIVE_GOVERNANCE.md: "ARTIFEX never uses      *)
(* last-write-wins for accepted semantics".  An accepted proposal keeps    *)
(* its place in the chain; two command line processes can break it, see    *)
(* the findings in PROJECT.json (_write_revision).                         *)
NoLastWriteWins ==
    [][\A n \in 2..Len(chain) : chain'[n] = chain[n]]_vars
=============================================================================
