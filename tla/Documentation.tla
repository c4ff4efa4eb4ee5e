--------------------------- MODULE Documentation ---------------------------
(***************************************************************************)
(* Generated documentation of a Project (documentation/lifecycle.py and    *)
(* compilation/): files rendered from accepted Models, and a manifest that *)
(* says what each was rendered from.  Files are written one by one, the    *)
(* manifest last, by processes that hold older readings of both, may die   *)
(* at any step and do not know of each other or of people who edit files.  *)
(***************************************************************************)
EXTENDS Naturals, Sequences, TLC

CONSTANTS
    Document,        \* names of generated documents
    Text,            \* what an accepted artifact says for a document
    Writer,          \* processes
    Unwritten,       \* a file or a manifest entry that is not there
    ByHand,          \* content no renderer wrote
    Nothing,         \* sources of a document the Model says nothing about
    Resting,         \* state of a process that is not at work
    MaxRevisions     \* bound on accepted revisions

ASSUME DocumentationAssumption == MaxRevisions \in Nat \ {0}

VARIABLES
    accepted,        \* accepted Models, by revision number
    document,        \* document[d]: the file, named by what it was rendered from
    docManifest,     \* docManifest[d]: [state, content]
    writer,          \* writer[w]: the files and the manifest a process is writing
    marking          \* marking[w]: the change it has yet to mark, <<before, after>>

documentationVars == <<accepted, document, docManifest, writer, marking>>

(* What the Model says for each document, and whether it has fields beyond *)
(* the closed version 1 schema: governance state or adoptions.             *)
Model == [says : [Document -> Text], governed : BOOLEAN]

Latest == accepted[Len(accepted)]

NoManifest == [d \in Document |-> Unwritten]

(* Projects start with no governance state, by create or adopt.            *)
DocumentationInit ==
    /\ \E s \in [Document -> Text] : accepted = <<[says |-> s, governed |-> FALSE]>>
    /\ document = NoManifest /\ docManifest = NoManifest
    /\ writer = [w \in Writer |-> Resting]
    /\ marking = [w \in Writer |-> <<>>]

-----------------------------------------------------------------------------
(* project_understanding reads artifacts of a Model that has only fields   *)
(* of the closed schema, and copies any other mapping as it is;            *)
(* human_document_sources selects what a document consumes of the result.  *)
SourcesOf(m, d) == IF m.governed THEN Nothing ELSE m.says[d]

Entry(m) == [state |-> "CURRENT", content |-> m]

StatusWithoutDigest(m, d) ==
    LET e == docManifest[d]
    IN CASE document[d] = Unwritten -> "MISSING"
         [] document[d] # Unwritten /\ e = Unwritten -> "STALE"
         [] OTHER -> IF SourcesOf(e.content, d) # SourcesOf(m, d) THEN "STALE" ELSE e.state

(* status: the state the manifest records, unless the file or the sources  *)
(* are not the recorded ones.  A file shows a fingerprint of the whole     *)
(* Model, so its digest tells Models apart that give it equal sources.     *)
Status(m, d) ==
    LET e == docManifest[d]
    IN CASE document[d] = Unwritten -> "MISSING"
         [] document[d] # Unwritten /\ e = Unwritten -> "STALE"
         [] OTHER -> IF e.content # document[d] \/ SourcesOf(e.content, d) # SourcesOf(m, d)
                     THEN "STALE" ELSE e.state

-----------------------------------------------------------------------------
(* The documents a process has yet to write, from which Model, and the     *)
(* manifest it will write.                                                 *)
Writing(m, names, entries) == [todo |-> names, model |-> m, entries |-> entries]

EstablishBaseline(m) == Writing(m, Document, NoManifest)

Works(w, op) == writer' = [writer EXCEPT ![w] = op]

AtRest(w) == writer[w] = Resting /\ marking[w] = <<>>

(* create, adopt and continue_by_name where nothing was rendered yet.      *)
Baseline(w) ==
    /\ AtRest(w) /\ docManifest = NoManifest
    /\ Works(w, EstablishBaseline(Latest))
    /\ UNCHANGED <<accepted, document, docManifest, marking>>

NewRevision(m) == Len(accepted) < MaxRevisions /\ accepted' = Append(accepted, m)

(* accept: the authority first, then the documents.                        *)
AcceptRevision(w, m) ==
    /\ AtRest(w) /\ NewRevision(m)
    /\ m.governed = Latest.governed
    /\ marking' = [marking EXCEPT ![w] = <<Latest, m>>]
    /\ UNCHANGED <<document, docManifest, writer>>

(* mark_accepted_change; where there is no manifest, the documents of the  *)
(* earlier revision are rendered first.                                    *)
MarkAcceptedChange(w) ==
    LET before == marking[w][1]
        after == marking[w][2]
        Marked(d) == IF docManifest[d] # Unwritten /\ SourcesOf(before, d) # SourcesOf(after, d)
                     THEN [docManifest[d] EXCEPT !.state = "STALE"] ELSE docManifest[d]
    IN /\ writer[w] = Resting /\ marking[w] # <<>>
       /\ IF docManifest = NoManifest
          THEN Works(w, EstablishBaseline(before)) /\ UNCHANGED marking
          ELSE /\ Works(w, Writing(after, {}, [d \in Document |-> Marked(d)]))
               /\ marking' = [marking EXCEPT ![w] = <<>>]
       /\ UNCHANGED <<accepted, document, docManifest>>

(* advance_lifecycle puts governance state into the Model and renders      *)
(* everything again.                                                       *)
AdvanceLifecycle(w) ==
    LET m == [Latest EXCEPT !.governed = TRUE]
    IN /\ AtRest(w) /\ NewRevision(m)
       /\ Works(w, EstablishBaseline(m))
       /\ UNCHANGED <<document, docManifest, marking>>

(* Adoptions accept a revision and leave the documents alone.              *)
AcceptElsewhere ==
    /\ NewRevision([Latest EXCEPT !.governed = TRUE])
    /\ UNCHANGED <<document, docManifest, writer, marking>>

Regenerate(w, names) ==
    LET stale == {d \in Document : Status(Latest, d) \in {"STALE", "MISSING"}}
    IN /\ AtRest(w)
       /\ Works(w, Writing(Latest, IF names = {} THEN stale ELSE names, docManifest))
       /\ UNCHANGED <<accepted, document, docManifest, marking>>

WriteDocument(w) ==
    /\ writer[w] # Resting
    /\ \E d \in writer[w].todo :
          /\ document' = [document EXCEPT ![d] = writer[w].model]
          /\ Works(w, Writing(writer[w].model, writer[w].todo \ {d},
                              [writer[w].entries EXCEPT ![d] = Entry(writer[w].model)]))
    /\ UNCHANGED <<accepted, docManifest, marking>>

WriteDocManifest(w) ==
    /\ writer[w] # Resting /\ writer[w].todo = {}
    /\ docManifest' = writer[w].entries
    /\ Works(w, Resting)
    /\ UNCHANGED <<accepted, document, marking>>

WriterDies(w) ==
    /\ ~AtRest(w)
    /\ Works(w, Resting) /\ marking' = [marking EXCEPT ![w] = <<>>]
    /\ UNCHANGED <<accepted, document, docManifest>>

(* People edit and delete generated files.                                 *)
EditDocument(d) ==
    /\ \E c \in {ByHand, Unwritten} : document' = [document EXCEPT ![d] = c]
    /\ UNCHANGED <<accepted, docManifest, writer, marking>>

DocumentationNext ==
    \/ \E w \in Writer :
          \/ Baseline(w) \/ AdvanceLifecycle(w)
          \/ \E m \in Model : AcceptRevision(w, m)
          \/ \E names \in SUBSET Document : Regenerate(w, names)
          \/ MarkAcceptedChange(w) \/ WriteDocument(w) \/ WriteDocManifest(w) \/ WriterDies(w)
    \/ AcceptElsewhere
    \/ \E d \in Document : EditDocument(d)

DocumentationSpec == DocumentationInit /\ [][DocumentationNext]_documentationVars

-----------------------------------------------------------------------------
(* A document that is reported CURRENT is a rendering of what the accepted *)
(* Model gives it, whoever wrote, died or edited in between (status).      *)
CurrentDocumentsAreCurrent ==
    \A d \in Document : Status(Latest, d) = "CURRENT" =>
        document[d] \in Model /\ SourcesOf(document[d], d) = SourcesOf(Latest, d)
=============================================================================
