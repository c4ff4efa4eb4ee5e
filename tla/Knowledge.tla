----------------------------- MODULE Knowledge -----------------------------
(***************************************************************************)
(* Organizational knowledge (knowledge/organizational.py): lessons of one  *)
(* Project are promoted to records, recommended to another Project and     *)
(* adopted into its Model by a proposal that its authority accepts.  The   *)
(* records and recommendations are rows of a database; lessons are a file  *)
(* that is read and written without a lock; and so are the revisions of a  *)
(* Project, whose acceptance (ProjectAuthority.accept) finds the next one  *)
(* free and writes it later.  A Model is the sequence of what its edits    *)
(* adopted, and its fingerprint is the Model itself: two that adopted the  *)
(* same are taken for equal, which lets more be read than the code does.   *)
(***************************************************************************)
EXTENDS Naturals, Sequences, FiniteSets

CONSTANTS
    Project,
    Lesson,              \* identities of lessons
    Promotable,          \* lessons that _validate_promotable lets pass
    KnowledgeId,         \* identities of records
    RecommendationId,
    Client,              \* concurrent requests
    AtEase,              \* state of a client without a request
    Untaken,             \* an identity not used yet
    PlainEdit,           \* an edit of the Model that adopts nothing
    MaxHistory,          \* bound on revisions of a Project
    MaxTime              \* bound on the clock

ASSUME KnowledgeAssumption ==
    /\ Promotable \subseteq Lesson
    /\ {MaxHistory, MaxTime} \subseteq Nat
    /\ PlainEdit \notin RecommendationId

VARIABLES
    lessons,        \* lessons[p]: lessons.json of a Project
    knowledge,      \* knowledge[k]: a record, or Untaken
    recommended,    \* recommended[r]: a recommendation, or Untaken
    history,        \* history[p]: the accepted revisions, [model, parent]
    client,         \* client[c]: a request that is under way
    clock

knowledgeVars == <<lessons, knowledge, recommended, history, client, clock>>

KnowledgeInit ==
    /\ lessons = [p \in Project |-> {}]
    /\ knowledge = [k \in KnowledgeId |-> Untaken]
    /\ recommended = [r \in RecommendationId |-> Untaken]
    /\ history = [p \in Project |-> <<[model |-> <<PlainEdit>>, parent |-> <<>>]>>]
    /\ client = [c \in Client |-> AtEase]
    /\ clock = 0

(* current: reading refuses a chain that is not linked.                    *)
Current(p) == Len(history[p])

CurrentModel(p) == history[p][Current(p)].model

Linked(p) == \A n \in 2 .. Current(p) : history[p][n].parent = history[p][n - 1].model

(* knowledge_adoptions of a Model.                                         *)
AdoptedIn(model) ==
    {recommended[r].knowledge : r \in {model[n] : n \in 1 .. Len(model)} \ {PlainEdit}}

IsFresh(k) == clock < knowledge[k].until

AppliesTo(k, p) == p \in knowledge[k].targets

-----------------------------------------------------------------------------
(* record_project_lesson: append_unique reads the collection ...           *)
ReadLessons(c, p, l) ==
    /\ client[c] = AtEase /\ l \in Promotable \ lessons[p]
    /\ client' = [client EXCEPT ![c] = [op |-> "lesson", project |-> p, file |-> lessons[p] \cup {l}]]
    /\ UNCHANGED <<lessons, knowledge, recommended, history, clock>>

(* ... and writes the whole of it.                                         *)
WriteLessons(c) ==
    /\ client[c] # AtEase /\ client[c].op = "lesson"
    /\ lessons' = [lessons EXCEPT ![client[c].project] = client[c].file]
    /\ client' = [client EXCEPT ![c] = AtEase]
    /\ UNCHANGED <<knowledge, recommended, history, clock>>

(* promote: a record bound to the Project, revision and lesson it is from, *)
(* for the Projects it applies to.  Its INSERT is one transaction.         *)
PromoteLesson(k, p, l, targets, until) ==
    /\ knowledge[k] = Untaken /\ l \in lessons[p] \cap Promotable /\ Linked(p)
    /\ knowledge' = [knowledge EXCEPT ![k] =
                       [project |-> p, revision |-> Current(p), lesson |-> l,
                        targets |-> targets, until |-> until]]
    /\ UNCHANGED <<lessons, recommended, history, client, clock>>

(* recommend: bound to the current revision of the target.  The identity   *)
(* is a new one, and any stands for them all.                              *)
Recommend(r, k, p) ==
    /\ recommended[r] = Untaken /\ r = CHOOSE u \in RecommendationId : recommended[u] = Untaken
    /\ knowledge[k] # Untaken
    /\ IsFresh(k) /\ AppliesTo(k, p) /\ Linked(p)
    /\ recommended' = [recommended EXCEPT ![r] =
                         [knowledge |-> k, project |-> p, model |-> CurrentModel(p)]]
    /\ UNCHANGED <<lessons, knowledge, history, client, clock>>

(* propose, for a Model that extends the one that was read.                *)
Propose(c, p, entry) ==
    /\ client[c] = AtEase /\ Linked(p)
    /\ client' = [client EXCEPT ![c] =
                    [op |-> "accept", project |-> p, model |-> Append(CurrentModel(p), entry)]]
    /\ UNCHANGED <<lessons, knowledge, recommended, history, clock>>

AdoptAnyRevision(c, r) ==
    LET p == recommended[r].project
        k == recommended[r].knowledge
    IN /\ recommended[r] # Untaken
       /\ IsFresh(k) /\ AppliesTo(k, p)
       /\ k \notin AdoptedIn(CurrentModel(p))
       /\ Propose(c, p, r)

(* adopt up to and with its proposal: the Project is at the revision, by   *)
(* number and fingerprint, that was recommended to, the record is fresh    *)
(* and applies, and the Model has not adopted it before.                   *)
Adopt(c, r) ==
    LET p == recommended[r].project
        k == recommended[r].knowledge
    IN /\ recommended[r] # Untaken
       /\ CurrentModel(p) = recommended[r].model
       /\ IsFresh(k) /\ AppliesTo(k, p)
       /\ k \notin AdoptedIn(CurrentModel(p))
       /\ Propose(c, p, r)

(* Other proposals.                                                        *)
EditProject(c, p) ==
    /\ Current(p) < MaxHistory
    /\ Propose(c, p, PlainEdit)

(* accept of the proposal: the Project is still at the revision it expects *)
(* by number, whose Model becomes the parent, and the next one is free.    *)
AcceptFindsFree(c) ==
    LET a == client[c]
    IN /\ a # AtEase /\ a.op = "accept"
       /\ Linked(a.project) /\ Len(a.model) = Current(a.project) + 1
       /\ client' = [client EXCEPT ![c] =
                       [op |-> "publish", project |-> a.project, model |-> a.model,
                        parent |-> CurrentModel(a.project)]]
       /\ UNCHANGED <<lessons, knowledge, recommended, history, clock>>

(* Its last write, which replaces what another one wrote there since.      *)
PublishAccepted(c) ==
    LET a == client[c]
        n == Len(a.model)
        revision == [model |-> a.model, parent |-> a.parent]
    IN /\ a # AtEase /\ a.op = "publish"
       /\ history' = [history EXCEPT ![a.project] =
                        IF n <= Len(@) THEN [@ EXCEPT ![n] = revision] ELSE Append(@, revision)]
       /\ client' = [client EXCEPT ![c] = AtEase]
       /\ UNCHANGED <<lessons, knowledge, recommended, clock>>

(* A conflict, another exception, or the end of the process.               *)
RequestFails(c) ==
    /\ client[c] # AtEase /\ client' = [client EXCEPT ![c] = AtEase]
    /\ UNCHANGED <<lessons, knowledge, recommended, history, clock>>

TimePasses ==
    /\ clock < MaxTime /\ clock' = clock + 1
    /\ UNCHANGED <<lessons, knowledge, recommended, history, client>>

KnowledgeNext ==
    \/ \E c \in Client :
          \/ \E p \in Project, l \in Lesson : ReadLessons(c, p, l)
          \/ WriteLessons(c)
          \/ \E r \in RecommendationId : Adopt(c, r)
          \/ \E p \in Project : EditProject(c, p)
          \/ AcceptFindsFree(c) \/ PublishAccepted(c) \/ RequestFails(c)
    \/ \E k \in KnowledgeId, p \in Project, l \in Lesson, targets \in SUBSET Project,
          until \in 0 .. MaxTime : PromoteLesson(k, p, l, targets, until)
    \/ \E r \in RecommendationId, k \in KnowledgeId, p \in Project : Recommend(r, k, p)
    \/ TimePasses

KnowledgeSpec == KnowledgeInit /\ [][KnowledgeNext]_knowledgeVars

-----------------------------------------------------------------------------
Before(model, n) == [i \in 1 .. n - 1 |-> model[i]]

(* What the Model of any accepted revision adopted was recommended for its *)
(* Project and for the very Model that the adoption extends, and no record *)
(* is adopted twice, also when several requests adopt the same             *)
(* recommendation or overwrite the revisions of each other (adopt).        *)
AdoptedAsRecommended ==
    \A p \in Project : \A v \in 1 .. Current(p) :
        LET model == history[p][v].model
        IN \A n \in 1 .. Len(model) : model[n] # PlainEdit =>
              LET r == recommended[model[n]]
              IN /\ r.project = p /\ r.model = Before(model, n)
                 /\ AppliesTo(r.knowledge, p)
                 /\ \A m \in 1 .. Len(model) \ {n} : model[m] # PlainEdit =>
                       recommended[model[m]].knowledge # r.knowledge
=============================================================================
