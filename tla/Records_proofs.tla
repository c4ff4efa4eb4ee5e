--------------------------- MODULE Records_proofs ---------------------------
(***************************************************************************)
(* Proofs about the stores beside the runtime: organizational knowledge,   *)
(* generated documentation, migration, the stages that integrations carry  *)
(* out, the logs of a Project and its semantic files, and the evidence     *)
(* that gates are evaluated on.  They share no state, and each section is  *)
(* about the specification of one of them.                                 *)
(***************************************************************************)
EXTENDS Knowledge, Documentation, Migration, StageWorkflow, ObservedReality,
        Integrations, Validation, FiniteSetTheorems, TLAPS

-----------------------------------------------------------------------------
(* Knowledge.                                                              *)

(* What a recommendation says; it and the record it is about stay as they  *)
(* are once they are taken.                                                *)
RecommendationsOK ==
    /\ DOMAIN knowledge = KnowledgeId /\ DOMAIN recommended = RecommendationId
    /\ \A r \in RecommendationId : recommended[r] # Untaken =>
          /\ recommended[r].knowledge \in KnowledgeId
          /\ recommended[r].project \in Project
          /\ knowledge[recommended[r].knowledge] # Untaken
          /\ AppliesTo(recommended[r].knowledge, recommended[r].project)

Lineage == Seq(RecommendationId \cup {PlainEdit})

(* One entry of a Model of the Project p, under the recommendations recs.  *)
EntryOK(recs, model, p, n) ==
    model[n] # PlainEdit =>
        /\ recs[model[n]] # Untaken
        /\ recs[model[n]].project = p
        /\ recs[model[n]].model = Before(model, n)
        /\ \A m \in 1 .. Len(model) \ {n} : model[m] # PlainEdit =>
              recs[model[m]].knowledge # recs[model[n]].knowledge

(* A Model, accepted or on its way to be: all that it adopted was          *)
(* recommended for what it extends.  No acceptance changes a Model, so     *)
(* this does not depend on which revision it becomes, or whose it          *)
(* replaces.                                                               *)
ModelOK(recs, model, p) ==
    /\ model \in Lineage
    /\ \A n \in 1 .. Len(model) : EntryOK(recs, model, p, n)

HistoriesOK ==
    /\ history \in [Project -> Seq([model : Lineage, parent : Lineage])]
    /\ \A p \in Project :
          /\ Len(history[p]) > 0
          /\ \A v \in 1 .. Len(history[p]) : ModelOK(recommended, history[p][v].model, p)

(* A request that submits a proposal or writes its revision.  What it      *)
(* writes replaces a revision or comes next: no history shrinks.           *)
RequestOK(a, recs, hist) ==
    a # AtEase /\ a.op \in {"accept", "publish"} =>
        /\ a.project \in Project /\ ModelOK(recs, a.model, a.project)
        /\ a.op = "publish" =>
              a.parent \in Lineage /\ Len(a.model) \in 1 .. Len(hist[a.project]) + 1

RequestsOK ==
    /\ DOMAIN client = Client
    /\ \A c \in Client : RequestOK(client[c], recommended, history)

KnowledgeInv == RecommendationsOK /\ HistoriesOK /\ RequestsOK

LEMMA KnowledgeInitOK == KnowledgeInit => KnowledgeInv
<1> SUFFICES ASSUME KnowledgeInit PROVE KnowledgeInv
  OBVIOUS
<1> USE DEF KnowledgeInit
<1>1. <<PlainEdit>> \in Lineage /\ <<>> \in Lineage
  BY DEF Lineage
<1>2. \A p \in Project : ModelOK(recommended, <<PlainEdit>>, p)
  BY <1>1 DEF ModelOK, EntryOK
<1>3. \A p \in Project : history[p] = <<[model |-> <<PlainEdit>>, parent |-> <<>>]>>
  OBVIOUS
<1>4. HistoriesOK
  <2>1. history \in [Project -> Seq([model : Lineage, parent : Lineage])]
    BY <1>1
  <2>2. ASSUME NEW p \in Project
        PROVE  /\ Len(history[p]) = 1 /\ history[p][1].model = <<PlainEdit>>
    BY <1>3
  <2> QED
    BY <1>2, <2>1, <2>2 DEF HistoriesOK
<1> QED
  BY <1>4 DEF KnowledgeInv, RecommendationsOK, RequestsOK, RequestOK

(* Knowledge.adopt and any other edit: what a Model is extended by was     *)
(* recommended for it and is of a record it has not adopted.               *)
LEMMA ModelGrows ==
    ASSUME NEW recs, NEW p, NEW model, ModelOK(recs, model, p),
           NEW entry \in RecommendationId \cup {PlainEdit},
           entry # PlainEdit =>
              /\ recs[entry] # Untaken
              /\ recs[entry].project = p /\ recs[entry].model = model
              /\ \A n \in 1 .. Len(model) : model[n] # PlainEdit =>
                    recs[model[n]].knowledge # recs[entry].knowledge
    PROVE  ModelOK(recs, Append(model, entry), p)
<1> DEFINE new == Append(model, entry)
           L == Len(model)
<1>1. /\ model \in Seq(RecommendationId \cup {PlainEdit}) /\ L \in Nat
      /\ model = [i \in 1 .. L |-> model[i]]
  BY DEF ModelOK, Lineage
<1>2. /\ new \in Lineage /\ Len(new) = L + 1 /\ new[L + 1] = entry
      /\ \A n \in 1 .. L : new[n] = model[n]
  BY <1>1 DEF Lineage
<1>3. \A n \in 1 .. L : EntryOK(recs, model, p, n)
  BY DEF ModelOK
<1> HIDE DEF new, L
<1>4. ASSUME NEW n \in 1 .. L + 1
      PROVE  Before(new, n) = Before(model, n)
  <2>1. \A i \in 1 .. n - 1 : i \in 1 .. L
    BY <1>1
  <2>2. \A i \in 1 .. n - 1 : new[i] = model[i]
    BY <1>2, <2>1
  <2>3. [i \in 1 .. n - 1 |-> new[i]] = [i \in 1 .. n - 1 |-> model[i]]
    BY <2>2, Zenon
  <2> QED
    BY <2>3, Zenon DEF Before
<1>5. ASSUME NEW n \in 1 .. L PROVE EntryOK(recs, new, p, n)
  <2>1. EntryOK(recs, model, p, n) /\ new[n] = model[n] /\ n \in 1 .. L + 1
    BY <1>1, <1>2, <1>3
  <2>2. Before(new, n) = Before(model, n)
    BY <1>4, <2>1
  <2>3. ASSUME NEW m \in 1 .. Len(new) \ {n}, new[m] # PlainEdit, model[n] # PlainEdit
        PROVE  recs[new[m]].knowledge # recs[model[n]].knowledge
    <3>1. CASE m = L + 1
      BY <1>2, <2>1, <2>3, <3>1 DEF L
    <3>2. CASE m # L + 1
      <4>1. m \in 1 .. L \ {n} /\ new[m] = model[m]
        BY <1>1, <1>2, <3>2
      <4> QED
        BY <2>1, <2>3, <4>1 DEF EntryOK, L
    <3> QED
      BY <3>1, <3>2
  <2> QED
    BY <2>1, <2>2, <2>3 DEF EntryOK
<1>6. EntryOK(recs, new, p, L + 1)
  <2>1. Before(new, L + 1) = model
    <3>1. (L + 1) - 1 = L /\ L + 1 \in 1 .. L + 1
      BY <1>1
    <3>2. Before(model, L + 1) = model
      BY <1>1, <3>1, Zenon DEF Before
    <3> QED
      BY <1>4, <3>1, <3>2
  <2>2. ASSUME NEW m \in 1 .. Len(new) \ {L + 1}, new[m] # PlainEdit, entry # PlainEdit
        PROVE  recs[new[m]].knowledge # recs[entry].knowledge
    <3>1. m \in 1 .. L /\ new[m] = model[m]
      BY <1>1, <1>2
    <3> QED
      BY <2>2, <3>1 DEF L
  <2> QED
    BY <1>2, <2>1, <2>2 DEF EntryOK
<1>7. \A n \in 1 .. Len(new) : EntryOK(recs, new, p, n)
  <2>1. \A n \in 1 .. L + 1 : n \in 1 .. L \/ n = L + 1
    BY <1>1
  <2> QED
    BY <1>2, <1>5, <1>6, <2>1
<1>8. ModelOK(recs, new, p)
  BY <1>2, <1>7 DEF ModelOK
<1> QED
  BY <1>8 DEF new

(* New recommendations take nothing back from a Model.                     *)
LEMMA ModelStands ==
    ASSUME NEW recs, NEW new, NEW p, NEW model, ModelOK(recs, model, p),
           \A r \in RecommendationId : recs[r] # Untaken => new[r] = recs[r]
    PROVE  ModelOK(new, model, p)
<1>1. ASSUME NEW n \in 1 .. Len(model), model[n] # PlainEdit
      PROVE  new[model[n]] = recs[model[n]]
  <2>1. model[n] \in RecommendationId
    BY <1>1 DEF ModelOK, Lineage
  <2> QED
    BY <1>1, <2>1 DEF ModelOK, EntryOK
<1>2. ASSUME NEW n \in 1 .. Len(model) PROVE EntryOK(new, model, p, n)
  <2>1. EntryOK(recs, model, p, n)
    BY DEF ModelOK
  <2> QED
    BY <1>1, <2>1 DEF EntryOK
<1> QED
  BY <1>2 DEF ModelOK

(* Records and recommendations are only added, and the rest stays.         *)
LEMMA RecordsGrow ==
    ASSUME KnowledgeInv, UNCHANGED <<history, client>>, RecommendationsOK',
           \A r \in RecommendationId : recommended[r] # Untaken => recommended'[r] = recommended[r]
    PROVE  KnowledgeInv'
<1>1. HistoriesOK'
  <2>1. ASSUME NEW p \in Project, NEW v \in 1 .. Len(history[p])
        PROVE  ModelOK(recommended', history[p][v].model, p)
    BY ModelStands DEF KnowledgeInv, HistoriesOK
  <2> QED
    BY <2>1 DEF KnowledgeInv, HistoriesOK
<1>2. RequestsOK'
  <2>1. ASSUME NEW c \in Client PROVE RequestOK(client[c], recommended', history)
    <3>1. RequestOK(client[c], recommended, history)
      BY DEF KnowledgeInv, RequestsOK
    <3> QED
      BY <3>1, ModelStands DEF RequestOK
  <2> QED
    BY <2>1 DEF KnowledgeInv, RequestsOK
<1> QED
  BY <1>1, <1>2 DEF KnowledgeInv

(* The request of c begins, goes on or ends.                               *)
LEMMA RequestMoves ==
    ASSUME KnowledgeInv, NEW c \in Client, NEW a, client' = [client EXCEPT ![c] = a],
           UNCHANGED <<knowledge, recommended, history>>, RequestOK(a, recommended, history)
    PROVE  KnowledgeInv'
<1>1. RecommendationsOK' /\ HistoriesOK'
  BY DEF KnowledgeInv, RecommendationsOK, HistoriesOK, AppliesTo
<1>2. /\ DOMAIN client' = Client
      /\ \A d \in Client : client'[d] = IF d = c THEN a ELSE client[d]
  BY DEF KnowledgeInv, RequestsOK
<1>3. \A d \in Client : RequestOK(client'[d], recommended, history)
  BY <1>2 DEF KnowledgeInv, RequestsOK
<1>4. RequestsOK'
  BY <1>2, <1>3 DEF RequestsOK
<1> QED
  BY <1>1, <1>4 DEF KnowledgeInv

LEMMA CurrentIsOK ==
    ASSUME KnowledgeInv, NEW p \in Project
    PROVE  /\ ModelOK(recommended, CurrentModel(p), p) /\ CurrentModel(p) \in Lineage
           /\ Current(p) \in Nat
<1>1. history[p] \in Seq([model : Lineage, parent : Lineage]) /\ Len(history[p]) > 0
  BY DEF KnowledgeInv, HistoriesOK
<1>2. Len(history[p]) \in 1 .. Len(history[p]) /\ Len(history[p]) \in Nat
  BY <1>1
<1>3. ModelOK(recommended, CurrentModel(p), p)
  BY <1>2 DEF KnowledgeInv, HistoriesOK, CurrentModel, Current
<1> QED
  BY <1>2, <1>3 DEF ModelOK, Current

(* propose: a request with a Model that grew by one entry.                 *)
LEMMA ProposeOK ==
    ASSUME KnowledgeInv, NEW c \in Client, NEW p \in Project,
           NEW entry \in RecommendationId \cup {PlainEdit}, Propose(c, p, entry),
           entry # PlainEdit =>
              /\ recommended[entry] # Untaken
              /\ recommended[entry].project = p /\ recommended[entry].model = CurrentModel(p)
              /\ recommended[entry].knowledge \notin AdoptedIn(CurrentModel(p))
    PROVE  KnowledgeInv'
<1> DEFINE model == CurrentModel(p)
           a == [op |-> "accept", project |-> p, model |-> Append(model, entry)]
<1>1. ModelOK(recommended, model, p) /\ model \in Lineage
  BY CurrentIsOK
<1>2. ASSUME NEW n \in 1 .. Len(model), model[n] # PlainEdit, entry # PlainEdit
      PROVE  recommended[model[n]].knowledge # recommended[entry].knowledge
  <2>1. recommended[model[n]].knowledge \in AdoptedIn(model)
    BY <1>2 DEF AdoptedIn
  <2> QED
    BY <1>2, <2>1
<1> HIDE DEF model
<1>3. ModelOK(recommended, Append(model, entry), p)
  BY <1>1, <1>2, ModelGrows DEF model
<1>4. a.op = "accept" /\ a.project = p /\ a.model = Append(model, entry)
  OBVIOUS
<1>5. client' = [client EXCEPT ![c] = a] /\ UNCHANGED <<knowledge, recommended, history>>
  BY DEF Propose, model
<1> HIDE DEF a
<1>6. RequestOK(a, recommended, history)
  BY <1>3, <1>4 DEF RequestOK
<1> QED
  BY <1>5, <1>6, RequestMoves

(* accept, the last write: whatever revision it replaces, the Model that   *)
(* becomes one was proposed.                                               *)
LEMMA PublishOK ==
    ASSUME KnowledgeInv, NEW c \in Client, PublishAccepted(c)
    PROVE  KnowledgeInv'
<1> DEFINE a == client[c]
           p == a.project
           n == Len(a.model)
           revision == [model |-> a.model, parent |-> a.parent]
           H == history[p]
           new == IF n <= Len(H) THEN [H EXCEPT ![n] = revision] ELSE Append(H, revision)
<1>1. /\ p \in Project /\ ModelOK(recommended, a.model, p) /\ a.parent \in Lineage
      /\ n \in 1 .. Len(H) + 1
  BY DEF PublishAccepted, KnowledgeInv, RequestsOK, RequestOK
<1>2. /\ H \in Seq([model : Lineage, parent : Lineage]) /\ Len(H) > 0 /\ Len(H) \in Nat
      /\ history \in [Project -> Seq([model : Lineage, parent : Lineage])]
      /\ \A q \in Project : Len(history[q]) \in Nat
  <2>1. /\ history \in [Project -> Seq([model : Lineage, parent : Lineage])]
        /\ \A q \in Project : Len(history[q]) > 0
    BY DEF KnowledgeInv, HistoriesOK
  <2>2. ASSUME NEW q \in Project
        PROVE  history[q] \in Seq([model : Lineage, parent : Lineage]) /\ Len(history[q]) \in Nat
    <3>1. history[q] \in Seq([model : Lineage, parent : Lineage])
      BY <2>1
    <3> QED
      BY <3>1
  <2> QED
    BY <1>1, <2>1, <2>2
<1>3. /\ revision \in [model : Lineage, parent : Lineage] /\ revision.model = a.model
  BY <1>1 DEF ModelOK
<1>4. /\ history' = [history EXCEPT ![p] = new] /\ client' = [client EXCEPT ![c] = AtEase]
      /\ UNCHANGED <<knowledge, recommended>>
  BY DEF PublishAccepted
<1> HIDE DEF revision, n, H, p, a
<1>5. /\ new \in Seq([model : Lineage, parent : Lineage]) /\ Len(new) >= Len(H)
      /\ \A v \in 1 .. Len(new) : new[v] = IF v = n THEN revision ELSE H[v]
      /\ \A v \in 1 .. Len(new) : v # n => v \in 1 .. Len(H)
  <2>1. CASE n <= Len(H)
    BY <1>1, <1>2, <1>3, <2>1
  <2>2. CASE ~(n <= Len(H))
    <3>1. n = Len(H) + 1
      BY <1>1, <1>2, <2>2
    <3> QED
      BY <1>2, <1>3, <2>2, <3>1
  <2> QED
    BY <2>1, <2>2
<1> HIDE DEF new
<1>6. /\ history' \in [Project -> Seq([model : Lineage, parent : Lineage])]
      /\ history'[p] = new /\ \A q \in Project : q # p => history'[q] = history[q]
  BY <1>1, <1>2, <1>4, <1>5
<1>7. ASSUME NEW q \in Project
      PROVE  /\ Len(history'[q]) >= Len(history[q]) /\ Len(history'[q]) \in Nat
             /\ \A v \in 1 .. Len(history'[q]) : ModelOK(recommended, history'[q][v].model, q)
  <2>1. CASE q = p
    <3>1. ASSUME NEW v \in 1 .. Len(new) PROVE ModelOK(recommended, new[v].model, p)
      <4>1. CASE v = n
        BY <1>1, <1>3, <1>5, <4>1 DEF a
      <4>2. CASE v # n
        <5>1. new[v] = history[p][v] /\ v \in 1 .. Len(history[p])
          BY <1>5, <4>2 DEF H
        <5> QED
          BY <1>1, <5>1 DEF KnowledgeInv, HistoriesOK
      <4> QED
        BY <4>1, <4>2
    <3> QED
      BY <1>5, <1>6, <2>1, <3>1 DEF H
  <2>2. CASE q # p
    BY <1>2, <1>6, <2>2 DEF KnowledgeInv, HistoriesOK
  <2> QED
    BY <2>1, <2>2
<1>8. HistoriesOK'
  <2>1. \A q \in Project : Len(history'[q]) > 0
    BY <1>2, <1>7 DEF KnowledgeInv, HistoriesOK
  <2> QED
    BY <1>4, <1>6, <1>7, <2>1 DEF HistoriesOK
<1>9. RequestsOK'
  <2>1. DOMAIN client' = Client /\ \A d \in Client : client'[d] \in {client[d], AtEase}
    BY <1>4 DEF KnowledgeInv, RequestsOK
  <2>2. ASSUME NEW d \in Client PROVE RequestOK(client[d], recommended, history')
    <3>1. RequestOK(client[d], recommended, history)
      BY DEF KnowledgeInv, RequestsOK
    <3>2. \A q \in Project : \A x \in 1 .. Len(history[q]) + 1 : x \in 1 .. Len(history'[q]) + 1
      BY <1>2, <1>7
    <3> QED
      BY <3>1, <3>2 DEF RequestOK
  <2>3. ASSUME NEW d \in Client PROVE RequestOK(client'[d], recommended', history')
    BY <1>4, <2>1, <2>2 DEF RequestOK
  <2> QED
    BY <2>1, <2>3 DEF RequestsOK
<1>10. RecommendationsOK'
  BY <1>4 DEF KnowledgeInv, RecommendationsOK, AppliesTo
<1> QED
  BY <1>8, <1>9, <1>10 DEF KnowledgeInv

LEMMA KnowledgeStepOK == KnowledgeInv /\ [KnowledgeNext]_knowledgeVars => KnowledgeInv'
<1> SUFFICES ASSUME KnowledgeInv, [KnowledgeNext]_knowledgeVars PROVE KnowledgeInv'
  OBVIOUS
<1> USE KnowledgeAssumption
<1>1. ASSUME NEW c \in Client, NEW p \in Project, NEW l \in Lesson, ReadLessons(c, p, l)
      PROVE  KnowledgeInv'
  <2> DEFINE a == [op |-> "lesson", project |-> p, file |-> lessons[p] \cup {l}]
  <2>1. a.op \notin {"accept", "publish"}
    OBVIOUS
  <2>2. client' = [client EXCEPT ![c] = a] /\ UNCHANGED <<knowledge, recommended, history>>
    BY <1>1 DEF ReadLessons
  <2> HIDE DEF a
  <2> QED
    BY <2>1, <2>2, RequestMoves DEF RequestOK
<1>2. ASSUME NEW c \in Client, WriteLessons(c) \/ RequestFails(c) PROVE KnowledgeInv'
  BY <1>2, RequestMoves DEF WriteLessons, RequestFails, RequestOK
<1>3. ASSUME NEW c \in Client, NEW r \in RecommendationId, Adopt(c, r) PROVE KnowledgeInv'
  <2>1. /\ recommended[r] # Untaken /\ Propose(c, recommended[r].project, r)
        /\ recommended[r].model = CurrentModel(recommended[r].project)
        /\ recommended[r].knowledge \notin AdoptedIn(CurrentModel(recommended[r].project))
    BY <1>3 DEF Adopt
  <2>2. recommended[r].project \in Project
    BY <2>1 DEF KnowledgeInv, RecommendationsOK
  <2> QED
    BY <2>1, <2>2, ProposeOK
<1>4. ASSUME NEW c \in Client, NEW p \in Project, EditProject(c, p) PROVE KnowledgeInv'
  BY <1>4, ProposeOK DEF EditProject
<1>5. ASSUME NEW c \in Client, AcceptFindsFree(c) PROVE KnowledgeInv'
  <2> DEFINE a == client[c]
             b == [op |-> "publish", project |-> a.project, model |-> a.model,
                   parent |-> CurrentModel(a.project)]
  <2>1. /\ b.op = "publish" /\ b.project = a.project /\ b.model = a.model
        /\ b.parent = CurrentModel(a.project)
    OBVIOUS
  <2>2. /\ client' = [client EXCEPT ![c] = b] /\ UNCHANGED <<knowledge, recommended, history>>
        /\ Len(a.model) = Current(a.project) + 1
    BY <1>5 DEF AcceptFindsFree
  <2>3. a.project \in Project /\ ModelOK(recommended, a.model, a.project)
    BY <1>5 DEF AcceptFindsFree, KnowledgeInv, RequestsOK, RequestOK
  <2> HIDE DEF a, b
  <2>4. b.parent \in Lineage /\ Current(b.project) \in Nat
    BY <2>1, <2>3, CurrentIsOK
  <2>5. RequestOK(b, recommended, history)
    BY <2>1, <2>2, <2>3, <2>4 DEF RequestOK, Current
  <2> QED
    BY <2>2, <2>5, RequestMoves
<1>6. ASSUME NEW c \in Client, PublishAccepted(c) PROVE KnowledgeInv'
  BY <1>6, PublishOK
<1>7. ASSUME NEW k \in KnowledgeId, NEW p \in Project, NEW l \in Lesson, NEW targets \in SUBSET Project,
             NEW until \in 0 .. MaxTime, PromoteLesson(k, p, l, targets, until)
      PROVE  KnowledgeInv'
  <2>1. /\ knowledge[k] = Untaken /\ UNCHANGED <<recommended, history, client>>
        /\ DOMAIN knowledge' = KnowledgeId
        /\ \A x \in KnowledgeId : x # k => knowledge'[x] = knowledge[x]
    BY <1>7 DEF PromoteLesson, KnowledgeInv, RecommendationsOK
  <2>2. \A x \in KnowledgeId : knowledge[x] # Untaken => knowledge'[x] = knowledge[x]
    BY <2>1
  <2>3. RecommendationsOK'
    BY <2>1, <2>2 DEF KnowledgeInv, RecommendationsOK, AppliesTo
  <2> QED
    BY <2>1, <2>3, RecordsGrow
<1>8. ASSUME NEW r \in RecommendationId, NEW k \in KnowledgeId, NEW p \in Project, Recommend(r, k, p)
      PROVE  KnowledgeInv'
  <2>1. /\ recommended[r] = Untaken /\ UNCHANGED <<knowledge, history, client>>
        /\ DOMAIN recommended' = RecommendationId
        /\ recommended'[r].knowledge = k /\ recommended'[r].project = p
        /\ \A x \in RecommendationId : x # r => recommended'[x] = recommended[x]
    BY <1>8 DEF Recommend, KnowledgeInv, RecommendationsOK
  <2>2. \A x \in RecommendationId : recommended[x] # Untaken => recommended'[x] = recommended[x]
    BY <2>1
  <2>3. knowledge[k] # Untaken /\ AppliesTo(k, p)
    BY <1>8 DEF Recommend
  <2>4. RecommendationsOK'
    BY <2>1, <2>3 DEF KnowledgeInv, RecommendationsOK, AppliesTo
  <2> QED
    BY <2>1, <2>2, <2>4, RecordsGrow
<1>9. CASE TimePasses \/ UNCHANGED knowledgeVars
  BY <1>9 DEF TimePasses, knowledgeVars, KnowledgeInv, RecommendationsOK, HistoriesOK, RequestsOK,
              AppliesTo
<1> QED
  BY <1>1, <1>2, <1>3, <1>4, <1>5, <1>6, <1>7, <1>8, <1>9 DEF KnowledgeNext

(* What the Model of any accepted revision adopted was recommended to the  *)
(* Project for the very Model it extends, and no record is adopted twice,  *)
(* for any number of Projects and of requests that adopt at the same time  *)
(* and replace the revisions of each other (adopt, and the accept of its   *)
(* proposal).                                                              *)
THEOREM AdoptionsAreAsRecommended == KnowledgeSpec => []AdoptedAsRecommended
<1>1. KnowledgeInv => AdoptedAsRecommended
  <2> SUFFICES ASSUME KnowledgeInv, NEW p \in Project, NEW v \in 1 .. Len(history[p])
               PROVE  LET model == history[p][v].model
                      IN \A n \in 1 .. Len(model) : model[n] # PlainEdit =>
                            LET r == recommended[model[n]]
                            IN /\ r.project = p /\ r.model = Before(model, n)
                               /\ AppliesTo(r.knowledge, p)
                               /\ \A m \in 1 .. Len(model) \ {n} : model[m] # PlainEdit =>
                                     recommended[model[m]].knowledge # r.knowledge
    BY DEF AdoptedAsRecommended, Current
  <2> DEFINE model == history[p][v].model
  <2>1. ModelOK(recommended, model, p)
    BY DEF KnowledgeInv, HistoriesOK
  <2> HIDE DEF model
  <2>2. ASSUME NEW n \in 1 .. Len(model), model[n] # PlainEdit
        PROVE  /\ EntryOK(recommended, model, p, n)
               /\ AppliesTo(recommended[model[n]].knowledge, p)
    <3>1. EntryOK(recommended, model, p, n) /\ model[n] \in RecommendationId
      BY <2>1, <2>2 DEF ModelOK, Lineage
    <3> QED
      BY <2>2, <3>1 DEF EntryOK, KnowledgeInv, RecommendationsOK
  <2> QED
    BY <2>2 DEF EntryOK, model
<1> QED
  BY <1>1, KnowledgeInitOK, KnowledgeStepOK, PTL DEF KnowledgeSpec

-----------------------------------------------------------------------------
(* Documentation.                                                          *)

(* A manifest, written or about to be: what it says a document was         *)
(* rendered from is a Model.                                               *)
EntriesOK(entries) ==
    /\ DOMAIN entries = Document
    /\ \A d \in Document : entries[d] # Unwritten =>
          DOMAIN entries[d] = {"state", "content"} /\ entries[d].content \in Model

WritingOK(op) ==
    op # Resting => op.model \in Model /\ op.todo \subseteq Document /\ EntriesOK(op.entries)

MarkOK(change) == change # <<>> => change[1] \in Model /\ change[2] \in Model

DocumentationInv ==
    /\ accepted \in Seq(Model) /\ accepted # <<>>
    /\ EntriesOK(docManifest)
    /\ DOMAIN writer = Writer /\ \A w \in Writer : WritingOK(writer[w])
    /\ DOMAIN marking = Writer /\ \A w \in Writer : MarkOK(marking[w])

LEMMA DocumentationInitOK == DocumentationInit => DocumentationInv
<1> SUFFICES ASSUME DocumentationInit PROVE DocumentationInv
  OBVIOUS
<1>1. PICK s \in [Document -> Text] : accepted = <<[says |-> s, governed |-> FALSE]>>
  BY DEF DocumentationInit
<1>2. [says |-> s, governed |-> FALSE] \in Model
  BY DEF Model
<1>3. accepted \in Seq(Model) /\ accepted # <<>>
  BY <1>1, <1>2
<1> QED
  BY <1>3 DEF DocumentationInit, DocumentationInv, EntriesOK, WritingOK, MarkOK, NoManifest

(* The Model in force, and what advancing the lifecycle makes of it.       *)
LEMMA ModelsInForce ==
    ASSUME DocumentationInv
    PROVE  Latest \in Model /\ [Latest EXCEPT !.governed = TRUE] \in Model
<1>1. Latest \in Model
  BY DEF DocumentationInv, Latest
<1> QED
  BY <1>1 DEF Model

(* A process writes from a Model and with manifest entries of Models.      *)
LEMMA WritingIsOK ==
    ASSUME NEW m \in Model, NEW names \in SUBSET Document, NEW entries, EntriesOK(entries)
    PROVE  WritingOK(Writing(m, names, entries))
BY DEF WritingOK, Writing

LEMMA BaselineIsOK == ASSUME NEW m \in Model PROVE WritingOK(EstablishBaseline(m))
<1>1. EntriesOK(NoManifest)
  BY DEF EntriesOK, NoManifest
<1> QED
  BY <1>1, WritingIsOK DEF EstablishBaseline

LEMMA RevisionAccepted ==
    ASSUME DocumentationInv, NEW m \in Model, NewRevision(m)
    PROVE  accepted' \in Seq(Model) /\ accepted' # <<>>
BY DEF NewRevision, DocumentationInv

(* A process turns to other work, and perhaps to another change to mark.   *)
LEMMA WriterMoves ==
    ASSUME DocumentationInv, NEW w \in Writer, NEW op, WritingOK(op), Works(w, op),
           accepted' \in Seq(Model), accepted' # <<>>, EntriesOK(docManifest'),
           UNCHANGED marking \/ marking' = [marking EXCEPT ![w] = <<>>]
    PROVE  DocumentationInv'
<1>1. DOMAIN writer' = Writer /\ \A v \in Writer : WritingOK(writer'[v])
  BY DEF Works, DocumentationInv
<1>2. DOMAIN marking' = Writer /\ \A v \in Writer : MarkOK(marking'[v])
  BY DEF DocumentationInv, MarkOK
<1> QED
  BY <1>1, <1>2 DEF DocumentationInv, EntriesOK, WritingOK, MarkOK, Model

LEMMA DocumentationStepOK ==
    DocumentationInv /\ [DocumentationNext]_documentationVars => DocumentationInv'
<1> SUFFICES ASSUME DocumentationInv, [DocumentationNext]_documentationVars
             PROVE  DocumentationInv'
  OBVIOUS
<1>0. ASSUME UNCHANGED docManifest PROVE EntriesOK(docManifest')
  BY <1>0 DEF DocumentationInv
<1>a. ASSUME UNCHANGED accepted PROVE accepted' \in Seq(Model) /\ accepted' # <<>>
  BY <1>a DEF DocumentationInv
<1>1. ASSUME NEW w \in Writer, Baseline(w) PROVE DocumentationInv'
  BY <1>0, <1>a, <1>1, ModelsInForce, BaselineIsOK, WriterMoves DEF Baseline
<1>2. ASSUME NEW w \in Writer, AdvanceLifecycle(w) PROVE DocumentationInv'
  <2> DEFINE m == [Latest EXCEPT !.governed = TRUE]
  <2>1. /\ NewRevision(m) /\ Works(w, EstablishBaseline(m)) /\ UNCHANGED <<docManifest, marking>>
    BY <1>2 DEF AdvanceLifecycle
  <2>2. m \in Model
    BY ModelsInForce
  <2> HIDE DEF m
  <2> QED
    BY <1>0, <2>1, <2>2, RevisionAccepted, BaselineIsOK, WriterMoves
<1>3. ASSUME NEW w \in Writer, NEW m \in Model, AcceptRevision(w, m) PROVE DocumentationInv'
  <2>1. /\ marking' = [marking EXCEPT ![w] = <<Latest, m>>] /\ UNCHANGED <<docManifest, writer>>
        /\ NewRevision(m)
    BY <1>3 DEF AcceptRevision
  <2>2. MarkOK(<<Latest, m>>)
    BY ModelsInForce DEF MarkOK
  <2>3. DOMAIN marking' = Writer /\ \A v \in Writer : MarkOK(marking'[v])
    BY <2>1, <2>2 DEF DocumentationInv
  <2> QED
    BY <2>1, <2>3, RevisionAccepted DEF DocumentationInv, EntriesOK, WritingOK, MarkOK, Model
<1>4. ASSUME NEW w \in Writer, NEW names \in SUBSET Document, Regenerate(w, names)
      PROVE  DocumentationInv'
  <2> DEFINE stale == {d \in Document : Status(Latest, d) \in {"STALE", "MISSING"}}
             todo == IF names = {} THEN stale ELSE names
  <2>1. Works(w, Writing(Latest, todo, docManifest)) /\ UNCHANGED <<accepted, docManifest, marking>>
    BY <1>4 DEF Regenerate
  <2>2. todo \in SUBSET Document
    OBVIOUS
  <2> HIDE DEF todo
  <2>3. EntriesOK(docManifest)
    BY DEF DocumentationInv
  <2>4. WritingOK(Writing(Latest, todo, docManifest))
    BY <2>2, <2>3, ModelsInForce, WritingIsOK
  <2> QED
    BY <1>0, <1>a, <2>1, <2>4, WriterMoves
<1>5. ASSUME NEW w \in Writer, MarkAcceptedChange(w) PROVE DocumentationInv'
  <2>1. /\ marking[w][1] \in Model /\ marking[w][2] \in Model
        /\ UNCHANGED <<accepted, docManifest>>
    BY <1>5 DEF MarkAcceptedChange, DocumentationInv, MarkOK
  <2>2. CASE docManifest = NoManifest
    BY <1>0, <1>a, <1>5, <2>1, <2>2, BaselineIsOK, WriterMoves DEF MarkAcceptedChange
  <2>3. CASE docManifest # NoManifest
    <3> DEFINE Marked(d) ==
                 IF /\ docManifest[d] # Unwritten
                    /\ SourcesOf(marking[w][1], d) # SourcesOf(marking[w][2], d)
                 THEN [docManifest[d] EXCEPT !.state = "STALE"] ELSE docManifest[d]
               entries == [d \in Document |-> Marked(d)]
    <3>1. /\ Works(w, Writing(marking[w][2], {}, entries))
          /\ marking' = [marking EXCEPT ![w] = <<>>]
      BY <1>5, <2>3 DEF MarkAcceptedChange
    <3>2. ASSUME NEW d \in Document, Marked(d) # Unwritten
          PROVE  DOMAIN Marked(d) = {"state", "content"} /\ Marked(d).content \in Model
      <4>1. CASE docManifest[d] = Unwritten
        BY <3>2, <4>1
      <4>2. CASE docManifest[d] # Unwritten
        BY <4>2 DEF DocumentationInv, EntriesOK
      <4> QED
        BY <4>1, <4>2
    <3>3. EntriesOK(entries)
      <4>1. DOMAIN entries = Document /\ \A d \in Document : entries[d] = Marked(d)
        OBVIOUS
      <4> HIDE DEF entries, Marked
      <4> QED
        BY <3>2, <4>1 DEF EntriesOK
    <3> HIDE DEF entries
    <3>4. WritingOK(Writing(marking[w][2], {}, entries))
      BY <2>1, <3>3, WritingIsOK
    <3> QED
      BY <1>0, <1>a, <2>1, <3>1, <3>4, WriterMoves
  <2> QED
    BY <2>2, <2>3
<1>6. ASSUME NEW w \in Writer, WriteDocument(w) PROVE DocumentationInv'
  <2>1. PICK d \in writer[w].todo :
           Works(w, Writing(writer[w].model, writer[w].todo \ {d},
                            [writer[w].entries EXCEPT ![d] = Entry(writer[w].model)]))
    BY <1>6 DEF WriteDocument
  <2> DEFINE entries == [writer[w].entries EXCEPT ![d] = Entry(writer[w].model)]
  <2>2. /\ writer[w].model \in Model /\ writer[w].todo \subseteq Document
        /\ EntriesOK(writer[w].entries) /\ UNCHANGED <<accepted, docManifest, marking>>
    BY <1>6 DEF WriteDocument, DocumentationInv, WritingOK
  <2>3. /\ DOMAIN Entry(writer[w].model) = {"state", "content"}
        /\ Entry(writer[w].model).content = writer[w].model
    BY DEF Entry
  <2>4. EntriesOK(entries)
    BY <2>2, <2>3 DEF EntriesOK
  <2> HIDE DEF entries
  <2>5. WritingOK(Writing(writer[w].model, writer[w].todo \ {d}, entries))
    BY <2>2, <2>4, WritingIsOK
  <2> QED
    BY <1>0, <1>a, <2>1, <2>2, <2>5, WriterMoves DEF entries
<1>7. ASSUME NEW w \in Writer, WriteDocManifest(w) PROVE DocumentationInv'
  <2>1. EntriesOK(docManifest')
    BY <1>7 DEF WriteDocManifest, DocumentationInv, WritingOK
  <2>2. WritingOK(Resting)
    BY DEF WritingOK
  <2> QED
    BY <1>a, <1>7, <2>1, <2>2, WriterMoves DEF WriteDocManifest
<1>8. ASSUME NEW w \in Writer, WriterDies(w) PROVE DocumentationInv'
  <2>1. WritingOK(Resting)
    BY DEF WritingOK
  <2> QED
    BY <1>0, <1>a, <1>8, <2>1, WriterMoves DEF WriterDies
<1>9. ASSUME AcceptElsewhere PROVE DocumentationInv'
  <2>1. accepted' \in Seq(Model) /\ accepted' # <<>>
    BY <1>9, ModelsInForce, RevisionAccepted DEF AcceptElsewhere
  <2> QED
    BY <1>9, <2>1 DEF AcceptElsewhere, DocumentationInv, EntriesOK, WritingOK, MarkOK, Model
<1>10. CASE (\E d \in Document : EditDocument(d)) \/ UNCHANGED documentationVars
  <2>1. UNCHANGED <<accepted, docManifest, writer, marking>>
    BY <1>10 DEF EditDocument, documentationVars
  <2> QED
    BY <2>1 DEF DocumentationInv, EntriesOK, WritingOK, MarkOK, Model
<1> QED
  BY <1>1, <1>2, <1>3, <1>4, <1>5, <1>6, <1>7, <1>8, <1>9, <1>10 DEF DocumentationNext

(* A document that status reports CURRENT was rendered from a Model that   *)
(* gives it what the accepted one does, for any number of writing          *)
(* processes, revisions and documents.                                     *)
THEOREM DocumentsAreCurrent == DocumentationSpec => []CurrentDocumentsAreCurrent
<1>1. DocumentationInv => CurrentDocumentsAreCurrent
  <2> SUFFICES ASSUME DocumentationInv, NEW d \in Document, Status(Latest, d) = "CURRENT"
               PROVE  document[d] \in Model /\ SourcesOf(document[d], d) = SourcesOf(Latest, d)
    BY DEF CurrentDocumentsAreCurrent
  <2>1. document[d] # Unwritten /\ docManifest[d] # Unwritten
    BY DEF Status
  <2>2. /\ docManifest[d].content = document[d]
        /\ SourcesOf(docManifest[d].content, d) = SourcesOf(Latest, d)
    BY <2>1 DEF Status
  <2> QED
    BY <2>1, <2>2 DEF DocumentationInv, EntriesOK
<1> QED
  BY <1>1, DocumentationInitOK, DocumentationStepOK, PTL DEF DocumentationSpec

-----------------------------------------------------------------------------
(* Migration.                                                              *)

MigrationTypes ==
    /\ tree \subseteq ProjectFile
    /\ catalog \in (SUBSET MigrationId) \cup {Absent} /\ runstore \in (SUBSET Run) \cup {Absent}
    /\ backup \in [MigrationId -> Snapshot \cup {Absent}]
    /\ migrationRecord \in [MigrationId -> MigrationReport \cup {Absent}]
    /\ spoiled \in BOOLEAN
    /\ phase # "idle" => current.id \in MigrationId /\ current.source \subseteq ProjectFile

NotMigrated ==
    Legacy \subseteq tree /\ tree \cap TargetFiles = {} /\ catalog = Absent /\ runstore = Absent

(* What MigratedOrOriginal asks of a Project at rest.                      *)
WholeProject ==
    /\ Legacy \subseteq tree
    /\ \/ tree \cap TargetFiles = {} /\ catalog = Absent /\ runstore = Absent
       \/ \E m \in MigrationId :
             /\ migrationRecord[m] # Absent /\ migrationRecord[m].state # "ROLLED_BACK"
             /\ MigrationIsValid(m) /\ tree \cap TargetFiles = Bootstrap \X {m}
             /\ catalog = {m} /\ runstore # Absent

(* Backups are of Projects that were not migrated, also when an earlier    *)
(* command died; and nothing is written before its backup is there.        *)
ArchivesOK ==
    /\ \A m \in MigrationId : backup[m] # Absent =>
          /\ Legacy \subseteq backup[m].tree /\ backup[m].tree \cap TargetFiles = {}
          /\ backup[m].catalog = Absent /\ backup[m].runstore = Absent
    /\ \A m \in MigrationId : migrationRecord[m] # Absent => backup[m] # Absent
    /\ phase = "backup" => backup[current.id] = Absent
    /\ phase \notin {"idle", "backup"} => backup[current.id] # Absent
    /\ phase # "idle" =>
          /\ current.rollback \in BOOLEAN
          /\ current.rollback = TRUE \/ phase \in {"compare", "rolled_back"} =>
                migrationRecord[current.id] # Absent

(* The kinds of files that apply has written before a step.                *)
WrittenBefore(step) ==
    CASE step = "revision" -> {}
      [] step \in {"register", "documents"} -> {"revision"}
      [] step = "dashboard" -> {"revision", "documents"}
      [] OTHER -> Bootstrap

AdoptingOK ==
    phase \in Adopting =>
        /\ Legacy \subseteq tree /\ current.source \subseteq tree
        /\ \A b \in Bootstrap, m \in MigrationId :
              <<b, m>> \in tree <=> m = current.id /\ b \in WrittenBefore(phase)
        /\ catalog = IF phase \in {"revision", "register"} THEN Absent ELSE {current.id}
        /\ runstore = Absent <=> phase \notin {"record", "validate"}
        /\ phase = "validate" =>
              /\ migrationRecord[current.id] # Absent
              /\ migrationRecord[current.id].state # "ROLLED_BACK"

RestoringOK ==
    /\ phase = "backup" => NotMigrated /\ current.source \subseteq tree
    /\ phase \in {"extract", "restore_runstore"} => tree \cap TargetFiles = {}
    /\ phase = "restore_runstore" => Legacy \subseteq tree /\ catalog = Absent
    /\ phase \in {"verify", "rolled_back"} => NotMigrated
    /\ phase \in {"idle", "compare"} /\ spoiled = FALSE => WholeProject

MigrationInv == MigrationTypes /\ ArchivesOK /\ AdoptingOK /\ RestoringOK

LEMMA MigrationInitOK == MigrationInit => MigrationInv
<1> USE MigrationAssumption
<1> SUFFICES ASSUME MigrationInit PROVE MigrationInv
  OBVIOUS
<1>1. tree = Legacy /\ Legacy \cap TargetFiles = {} /\ phase = "idle"
  BY DEF MigrationInit
<1>2. MigrationTypes
  <2>1. spoiled \in BOOLEAN
    BY DEF MigrationInit
  <2>2. /\ backup \in [MigrationId -> Snapshot \cup {Absent}]
        /\ migrationRecord \in [MigrationId -> MigrationReport \cup {Absent}]
    BY DEF MigrationInit
  <2>3. /\ tree \subseteq ProjectFile /\ catalog \in (SUBSET MigrationId) \cup {Absent}
        /\ runstore \in (SUBSET Run) \cup {Absent}
    <3>1. catalog = Absent /\ runstore = Absent /\ tree = Legacy
      BY DEF MigrationInit
    <3> QED
      BY <3>1 DEF ProjectFile
  <2>4. phase = "idle"
    BY <1>1
  <2> QED
    BY <2>1, <2>2, <2>3, <2>4, Zenon DEF MigrationTypes
<1>3. ArchivesOK
  BY DEF MigrationInit, ArchivesOK
<1>4. AdoptingOK
  BY <1>1 DEF AdoptingOK, Adopting, Bootstrap
<1>5. RestoringOK
  BY <1>1 DEF MigrationInit, RestoringOK, WholeProject
<1> QED
  BY <1>2, <1>3, <1>4, <1>5 DEF MigrationInv

LEMMA AdoptingSteps ==
    Adopting = {"revision", "register", "documents", "dashboard", "runstore", "record", "validate"}
BY DEF Adopting, Bootstrap

(* A step that only moves the command on, or back to rest.                 *)
LEMMA CommandEnds ==
    ASSUME MigrationInv, phase' = "idle", spoiled' \in BOOLEAN, UNCHANGED <<stores, files>>,
           spoiled' = FALSE => WholeProject
    PROVE  MigrationInv'
<1> USE DEF MigrationInv, stores, files
<1>1. MigrationTypes' /\ ArchivesOK'
  BY DEF MigrationTypes, ArchivesOK
<1>2. AdoptingOK'
  BY AdoptingSteps DEF AdoptingOK, Adopting, Bootstrap
<1>3. WholeProject' <=> WholeProject
  BY DEF WholeProject, MigrationIsValid
<1>4. RestoringOK'
  BY <1>3 DEF RestoringOK
<1> QED
  BY <1>1, <1>2, <1>4

LEMMA NotMigratedIsWhole == NotMigrated => WholeProject
BY DEF NotMigrated, WholeProject

(* apply, step by step.                                                    *)
LEMMA AppliesOK ==
    ASSUME MigrationInv, (\E t \in Token, m \in MigrationId : Apply(t, m)) \/ Migrates
    PROVE  MigrationInv'
<1> USE MigrationAssumption DEF MigrationInv
<1>1. ASSUME NEW t \in Token, NEW m \in MigrationId, Apply(t, m) PROVE MigrationInv'
  <2>1. /\ phase' = "backup" /\ current'.id = m /\ current'.source = tree /\ backup[m] = Absent
        /\ current'.rollback = FALSE
        /\ UNCHANGED <<tree, catalog, runstore, backup, migrationRecord, spoiled>>
        /\ NotMigrated
    BY <1>1 DEF Apply, Applicable, NotMigrated, stores, files
  <2>2. MigrationTypes'
    BY <2>1 DEF MigrationTypes
  <2>3. ArchivesOK'
    BY <2>1 DEF ArchivesOK
  <2>4. AdoptingOK'
    BY <2>1, AdoptingSteps DEF AdoptingOK, Adopting, Bootstrap
  <2>5. RestoringOK'
    BY <2>1 DEF RestoringOK, NotMigrated
  <2> QED
    BY <2>2, <2>3, <2>4, <2>5
<1>2. CASE Backup
  <2> DEFINE s == [tree |-> tree, catalog |-> catalog, runstore |-> runstore]
  <2>1. /\ phase = "backup" /\ phase' = "revision" /\ backup' = [backup EXCEPT ![current.id] = s]
        /\ UNCHANGED <<tree, catalog, runstore, migrationRecord, spoiled, current>>
        /\ current.id \in MigrationId /\ NotMigrated /\ current.source \subseteq tree
    BY <1>2 DEF Backup, Go, stores, MigrationTypes, RestoringOK
  <2>2. s.tree = tree /\ s.catalog = catalog /\ s.runstore = runstore /\ s \in Snapshot
    BY DEF MigrationTypes, Snapshot
  <2> HIDE DEF s
  <2>3. MigrationTypes'
    BY <2>1, <2>2 DEF MigrationTypes
  <2>4. s # Absent
    BY <2>2
  <2>5. ArchivesOK'
    BY <2>1, <2>2, <2>4 DEF ArchivesOK, MigrationTypes, NotMigrated
  <2>6. \A b \in Bootstrap, m \in MigrationId : <<b, m>> \notin tree
    BY <2>1 DEF NotMigrated, TargetFiles
  <2>7. AdoptingOK'
    BY <2>1, <2>6 DEF AdoptingOK, NotMigrated, WrittenBefore
  <2>8. RestoringOK'
    BY <2>1 DEF RestoringOK
  <2> QED
    BY <2>3, <2>5, <2>7, <2>8
<1>3. CASE WriteBootstrap
  <2>1. /\ phase \in Bootstrap /\ tree' = tree \cup {<<phase, current.id>>}
        /\ phase' = CASE phase = "revision" -> "register"
                      [] phase = "documents" -> "dashboard"
                      [] phase = "dashboard" -> "runstore"
        /\ UNCHANGED <<catalog, runstore, backup, migrationRecord, spoiled, current>>
    BY <1>3 DEF WriteBootstrap, Go, files, Bootstrap
  <2>2. phase \in Adopting /\ phase' \in {"register", "dashboard", "runstore"}
    BY <2>1 DEF Adopting, Bootstrap
  <2>3. current.id \in MigrationId
    BY <2>1 DEF MigrationTypes, Bootstrap
  <2>4. MigrationTypes'
    BY <2>1, <2>2, <2>3 DEF MigrationTypes, ProjectFile, TargetFiles, Bootstrap
  <2>5. ArchivesOK'
    BY <2>1, <2>2 DEF ArchivesOK, Bootstrap
  <2>6. RestoringOK'
    BY <2>2 DEF RestoringOK
  <2>7. ASSUME NEW b \in Bootstrap, NEW m \in MigrationId
        PROVE  <<b, m>> \in tree' <=> m = current.id /\ b \in WrittenBefore(phase')
    <3>1. <<b, m>> \in tree <=> m = current.id /\ b \in WrittenBefore(phase)
      BY <2>2 DEF AdoptingOK
    <3>2. b \in WrittenBefore(phase') <=> b \in WrittenBefore(phase) \/ b = phase
      <4>1. CASE phase = "revision"
        BY <2>1, <4>1 DEF WrittenBefore
      <4>2. CASE phase = "documents"
        BY <2>1, <4>2 DEF WrittenBefore
      <4>3. CASE phase = "dashboard"
        BY <2>1, <4>3 DEF WrittenBefore, Bootstrap
      <4> QED
        BY <2>1, <4>1, <4>2, <4>3 DEF Bootstrap
    <3>3. <<b, m>> \in tree' <=> <<b, m>> \in tree \/ (b = phase /\ m = current.id)
      <4>1. tree' = tree \cup {<<phase, current.id>>}
        BY <2>1
      <4>2. <<b, m>> = <<phase, current.id>> <=> b = phase /\ m = current.id
        OBVIOUS
      <4> QED
        BY <4>1, <4>2, Zenon
    <3> QED
      BY <3>1, <3>2, <3>3
  <2>8. AdoptingOK'
    <3>1. /\ Legacy \subseteq tree' /\ current.source \subseteq tree'
      BY <2>1, <2>2 DEF AdoptingOK
    <3>2. /\ catalog' = IF phase' \in {"revision", "register"} THEN Absent ELSE {current.id}
          /\ runstore' = Absent /\ phase' \notin {"record", "validate"}
      BY <2>1, <2>2 DEF AdoptingOK, Bootstrap
    <3> QED
      BY <2>1, <2>7, <3>1, <3>2 DEF AdoptingOK
  <2> QED
    BY <2>4, <2>5, <2>6, <2>8
<1>4. CASE Register
  <2>1. /\ phase = "register" /\ phase' = "documents" /\ catalog = Absent /\ catalog' = {current.id}
        /\ UNCHANGED <<tree, runstore, backup, migrationRecord, spoiled, current>>
        /\ current.id \in MigrationId
    BY <1>4, AdoptingSteps DEF Register, Go, files, AdoptingOK, MigrationTypes
  <2>2. MigrationTypes' /\ ArchivesOK'
    BY <2>1 DEF MigrationTypes, ArchivesOK
  <2>3. AdoptingOK'
    BY <2>1, AdoptingSteps DEF AdoptingOK, WrittenBefore
  <2>4. RestoringOK'
    BY <2>1 DEF RestoringOK
  <2> QED
    BY <2>2, <2>3, <2>4
<1>5. CASE CreateRunStore
  <2>1. /\ phase = "runstore" /\ phase' = "record" /\ runstore' = {}
        /\ UNCHANGED <<tree, catalog, backup, migrationRecord, spoiled, current>>
    BY <1>5 DEF CreateRunStore, Go, files
  <2>2. runstore' # Absent
    BY <2>1
  <2>3. MigrationTypes' /\ ArchivesOK'
    BY <2>1 DEF MigrationTypes, ArchivesOK
  <2>4. AdoptingOK'
    BY <2>1, <2>2, AdoptingSteps DEF AdoptingOK, WrittenBefore
  <2>5. RestoringOK'
    BY <2>1 DEF RestoringOK
  <2> QED
    BY <2>3, <2>4, <2>5
<1>6. CASE WriteMigrationRecord
  <2> DEFINE r == [state |-> "ACTIVE_PENDING_FIRST_NEW_RUN", source |-> current.source,
                   tree |-> tree, catalog |-> catalog, runstore |-> runstore]
  <2>1. /\ phase = "record" /\ phase' = "validate"
        /\ migrationRecord' = [migrationRecord EXCEPT ![current.id] = r]
        /\ UNCHANGED <<tree, catalog, runstore, backup, spoiled, current>>
        /\ current.id \in MigrationId /\ current.source \subseteq ProjectFile
    BY <1>6 DEF WriteMigrationRecord, Go, stores, MigrationTypes
  <2>2. r \in MigrationReport /\ r.state = "ACTIVE_PENDING_FIRST_NEW_RUN"
    BY <2>1 DEF MigrationTypes, MigrationReport
  <2> HIDE DEF r
  <2>3. r # Absent
    BY <2>2
  <2>4. MigrationTypes'
    BY <2>1, <2>2 DEF MigrationTypes
  <2>5. ArchivesOK'
    BY <2>1, <2>3 DEF ArchivesOK, MigrationTypes
  <2>6. migrationRecord'[current.id] = r
    BY <2>1 DEF MigrationTypes
  <2>7. AdoptingOK'
    BY <2>1, <2>2, <2>3, <2>6, AdoptingSteps DEF AdoptingOK, WrittenBefore
  <2>8. RestoringOK'
    BY <2>1 DEF RestoringOK
  <2> QED
    BY <2>4, <2>5, <2>7, <2>8
<1>7. CASE Validate
  <2>1. /\ phase = "validate" /\ MigrationIsValid(current.id) /\ phase' = "idle"
        /\ UNCHANGED <<stores, files, spoiled>>
        /\ current.id \in MigrationId
    BY <1>7 DEF Validate, Go, MigrationTypes
  <2>2. /\ Legacy \subseteq tree /\ catalog = {current.id} /\ runstore # Absent
        /\ migrationRecord[current.id] # Absent
        /\ migrationRecord[current.id].state # "ROLLED_BACK"
        /\ \A b \in Bootstrap, m \in MigrationId : <<b, m>> \in tree <=> m = current.id
    BY <2>1, AdoptingSteps DEF AdoptingOK, WrittenBefore
  <2>3. tree \cap TargetFiles = Bootstrap \X {current.id}
    BY <2>1, <2>2 DEF TargetFiles
  <2>4. WholeProject
    BY <2>1, <2>2, <2>3 DEF WholeProject
  <2> QED
    BY <2>1, <2>4, CommandEnds DEF MigrationTypes
<1> QED
  BY <1>1, <1>2, <1>3, <1>4, <1>5, <1>6, <1>7 DEF Migrates

(* _restore_backup, step by step, and rollback around it.                  *)
LEMMA RestoresOK ==
    ASSUME MigrationInv, (\E t \in Token, m \in MigrationId : Rollback(t, m)) \/ Restores
    PROVE  MigrationInv'
<1> USE MigrationAssumption DEF MigrationInv
<1>1. ASSUME NEW t \in Token, NEW m \in MigrationId, Rollback(t, m) PROVE MigrationInv'
  <2>1. /\ phase = "idle" /\ phase' = "compare" /\ migrationRecord[m] # Absent
        /\ current'.id = m /\ current'.source = migrationRecord[m].source
        /\ current'.rollback = TRUE
        /\ UNCHANGED <<tree, catalog, runstore, backup, migrationRecord, spoiled>>
    BY <1>1 DEF Rollback, stores, files
  <2>2. migrationRecord[m].source \subseteq ProjectFile
    BY <2>1 DEF MigrationTypes, MigrationReport
  <2>3. MigrationTypes'
    BY <2>1, <2>2 DEF MigrationTypes
  <2>4. ArchivesOK'
    BY <2>1 DEF ArchivesOK
  <2>5. AdoptingOK'
    BY <2>1, AdoptingSteps DEF AdoptingOK, Adopting, Bootstrap
  <2>6. WholeProject' <=> WholeProject
    BY <2>1 DEF WholeProject, MigrationIsValid
  <2>7. RestoringOK'
    BY <2>1, <2>6 DEF RestoringOK
  <2> QED
    BY <2>3, <2>4, <2>5, <2>7
<1>2. ASSUME phase \notin {"idle", "backup"}, UNCHANGED <<backup, migrationRecord, current, spoiled>>,
             phase' \in {"clear", "extract", "restore_runstore", "verify", "rolled_back"},
             tree' \subseteq ProjectFile,
             catalog' \in {Absent} \cup SUBSET MigrationId, runstore' \in {Absent} \cup SUBSET Run,
             phase' = "rolled_back" => migrationRecord[current.id] # Absent, RestoringOK'
      PROVE  MigrationInv'
  <2>1. MigrationTypes'
    BY <1>2 DEF MigrationTypes
  <2>2. ArchivesOK'
    BY <1>2 DEF ArchivesOK
  <2>3. AdoptingOK'
    BY <1>2, AdoptingSteps DEF AdoptingOK, Adopting, Bootstrap
  <2> QED
    BY <1>2, <2>1, <2>2, <2>3
<1>3. CASE ComparePost
  <2>1. /\ phase = "compare" /\ phase' = "clear"
        /\ UNCHANGED <<tree, catalog, runstore, backup, migrationRecord, current, spoiled>>
    BY <1>3 DEF ComparePost, Go, stores, files
  <2> QED
    BY <1>2, <2>1 DEF MigrationTypes, RestoringOK
<1>4. CASE RemoveProjectFile
  <2>1. /\ phase = "clear" /\ phase' = "clear" /\ tree' \subseteq tree
        /\ UNCHANGED <<catalog, runstore, backup, migrationRecord, current, spoiled>>
    BY <1>4 DEF RemoveProjectFile, files
  <2> QED
    BY <1>2, <2>1 DEF MigrationTypes, RestoringOK
<1>5. CASE ProjectCleared
  <2>1. /\ phase = "clear" /\ phase' = "extract" /\ tree' = {}
        /\ UNCHANGED <<tree, catalog, runstore, backup, migrationRecord, current, spoiled>>
    BY <1>5 DEF ProjectCleared, Go, stores, files
  <2> QED
    BY <1>2, <2>1 DEF MigrationTypes, RestoringOK
<1>6. ASSUME phase \notin {"idle", "backup"}
      PROVE  /\ Archive \in Snapshot /\ Archive.tree \subseteq ProjectFile
             /\ Legacy \subseteq Archive.tree /\ Archive.tree \cap TargetFiles = {}
             /\ Archive.catalog = Absent /\ Archive.runstore = Absent
  <2>1. backup[current.id] \in Snapshot
    BY <1>6 DEF MigrationTypes, ArchivesOK
  <2>2. backup[current.id].tree \subseteq ProjectFile
    BY <2>1 DEF Snapshot
  <2> QED
    BY <1>6, <2>1, <2>2 DEF MigrationTypes, ArchivesOK, Archive
<1>7. CASE ExtractFile
  <2>1. /\ phase = "extract" /\ phase' = "extract" /\ tree \subseteq tree'
        /\ tree' \subseteq tree \cup Archive.tree
        /\ UNCHANGED <<catalog, runstore, backup, migrationRecord, current, spoiled>>
    BY <1>7 DEF ExtractFile, files
  <2>2. tree' \subseteq ProjectFile /\ tree' \cap TargetFiles = {}
    BY <1>6, <2>1 DEF MigrationTypes, RestoringOK
  <2>3. RestoringOK'
    BY <2>1, <2>2 DEF RestoringOK
  <2> QED
    BY <1>2, <2>1, <2>2, <2>3 DEF MigrationTypes
<1>8. CASE RestoreCatalog
  <2>1. /\ phase = "extract" /\ phase' = "restore_runstore" /\ catalog' = Absent
        /\ Legacy \subseteq tree /\ tree \cap TargetFiles = {}
        /\ UNCHANGED <<tree, runstore, backup, migrationRecord, current, spoiled>>
    BY <1>6, <1>8 DEF RestoreCatalog, Go, files, RestoringOK
  <2>2. RestoringOK'
    BY <2>1 DEF RestoringOK
  <2> QED
    BY <1>2, <2>1, <2>2 DEF MigrationTypes
<1>9. CASE RestoreRunStore
  <2>1. /\ phase = "restore_runstore" /\ phase' = "verify" /\ runstore' = Absent
        /\ catalog = Absent /\ Legacy \subseteq tree /\ tree \cap TargetFiles = {}
        /\ UNCHANGED <<tree, catalog, backup, migrationRecord, current, spoiled>>
    BY <1>6, <1>9 DEF RestoreRunStore, Go, files, RestoringOK
  <2>2. RestoringOK'
    BY <2>1 DEF RestoringOK, NotMigrated
  <2> QED
    BY <1>2, <2>1, <2>2 DEF MigrationTypes
<1>10. CASE VerifyRestored
  <2>1. /\ phase = "verify" /\ UNCHANGED <<tree, catalog, runstore, backup, migrationRecord, spoiled>>
        /\ NotMigrated
    BY <1>10 DEF VerifyRestored, stores, files, RestoringOK
  <2>2. CASE current.rollback = TRUE
    <3>1. phase' = "rolled_back" /\ UNCHANGED current
      BY <1>10, <2>2 DEF VerifyRestored, Go
    <3>2. RestoringOK'
      BY <2>1, <3>1 DEF RestoringOK, NotMigrated
    <3> QED
      BY <1>2, <2>1, <2>2, <3>1, <3>2 DEF MigrationTypes, ArchivesOK
  <2>3. CASE current.rollback = FALSE
    <3>1. phase' = "idle"
      BY <1>10, <2>3 DEF VerifyRestored, Go
    <3> QED
      BY <2>1, <3>1, CommandEnds, NotMigratedIsWhole DEF MigrationTypes, stores, files
  <2> QED
    BY <2>1, <2>2, <2>3 DEF ArchivesOK
<1>11. CASE RecordRollback
  <2> DEFINE r == [migrationRecord[current.id] EXCEPT !.state = "ROLLED_BACK"]
  <2>1. /\ phase = "rolled_back" /\ phase' = "idle"
        /\ migrationRecord' = [migrationRecord EXCEPT ![current.id] = r]
        /\ UNCHANGED <<tree, catalog, runstore, backup, spoiled>>
        /\ current.id \in MigrationId /\ NotMigrated
    BY <1>11 DEF RecordRollback, Go, stores, MigrationTypes, RestoringOK
  <2>2. migrationRecord[current.id] \in MigrationReport /\ backup[current.id] # Absent
    BY <2>1 DEF MigrationTypes, ArchivesOK
  <2>3. r \in MigrationReport
    BY <2>2 DEF MigrationReport
  <2> HIDE DEF r
  <2>4. MigrationTypes'
    BY <2>1, <2>3 DEF MigrationTypes
  <2>5. ArchivesOK'
    BY <2>1, <2>2 DEF MigrationTypes, ArchivesOK
  <2>6. AdoptingOK'
    BY <2>1, AdoptingSteps DEF AdoptingOK, Adopting, Bootstrap
  <2>7. RestoringOK'
    BY <2>1 DEF RestoringOK, NotMigrated, WholeProject
  <2> QED
    BY <2>4, <2>5, <2>6, <2>7
<1> QED
  BY <1>1, <1>3, <1>4, <1>5, <1>7, <1>8, <1>9, <1>10, <1>11 DEF Restores

(* Exceptions and deaths.                                                  *)
LEMMA FailuresOK ==
    ASSUME MigrationInv, RaiseInMigration \/ MigrationDies PROVE MigrationInv'
<1> USE DEF MigrationInv
<1>1. CASE MigrationDies
  BY <1>1, CommandEnds DEF MigrationDies, Go
<1>2. CASE RaiseInMigration /\ phase \in Adopting
  <2>1. /\ phase # "idle" /\ phase # "backup" /\ phase' = "clear"
        /\ UNCHANGED <<tree, catalog, runstore, backup, migrationRecord, current>>
    BY <1>2, AdoptingSteps DEF RaiseInMigration, Go, stores, files
  <2>2. spoiled' \in BOOLEAN
    BY <1>2 DEF RaiseInMigration
  <2>3. MigrationTypes'
    BY <2>1, <2>2 DEF MigrationTypes
  <2>4. ArchivesOK'
    BY <2>1 DEF ArchivesOK
  <2>5. AdoptingOK'
    BY <2>1, AdoptingSteps DEF AdoptingOK, Adopting, Bootstrap
  <2>6. RestoringOK'
    BY <2>1 DEF RestoringOK
  <2> QED
    BY <2>3, <2>4, <2>5, <2>6
<1>3. CASE RaiseInMigration /\ phase \notin Adopting
  <2>1. phase' = "idle" /\ UNCHANGED <<stores, files>>
    BY <1>3 DEF RaiseInMigration, Go
  <2>2. spoiled' \in BOOLEAN
    BY <1>3 DEF RaiseInMigration
  <2>3. spoiled' = FALSE => spoiled = FALSE /\ phase \in {"backup", "compare"}
    BY <1>3 DEF RaiseInMigration, MigrationTypes
  <2>4. spoiled' = FALSE => WholeProject
    BY <2>3, NotMigratedIsWhole DEF RestoringOK
  <2> QED
    BY <2>1, <2>2, <2>4, CommandEnds
<1> QED
  BY <1>1, <1>2, <1>3

(* Users go on working, also while a command is active.                    *)
LEMMA UsersOK ==
    ASSUME MigrationInv, (\E e \in Edit : EditModel(e)) \/ (\E r \in Run : NewRun(r))
    PROVE  MigrationInv'
<1> USE MigrationAssumption DEF MigrationInv
<1>1. ASSUME NEW e \in Edit, EditModel(e) PROVE MigrationInv'
  <2>1. /\ tree' = tree \cup {e} /\ Legacy \subseteq tree
        /\ UNCHANGED <<catalog, runstore, backup, migrationRecord, phase, current, spoiled>>
    BY <1>1 DEF EditModel, files
  <2>2. \A t \in TargetFiles : t \in tree' <=> t \in tree
    BY <2>1
  <2>3. tree' \cap TargetFiles = tree \cap TargetFiles
    BY <2>2
  <2>4. MigrationTypes'
    BY <2>1 DEF MigrationTypes, ProjectFile
  <2>5. ArchivesOK'
    BY <2>1 DEF ArchivesOK
  <2>6. \A b \in Bootstrap, m \in MigrationId : <<b, m>> \in tree' <=> <<b, m>> \in tree
    BY <2>2 DEF TargetFiles
  <2>7. AdoptingOK'
    BY <2>1, <2>6 DEF AdoptingOK
  <2>8. WholeProject => WholeProject'
    BY <2>1, <2>3 DEF WholeProject, MigrationIsValid
  <2>9. RestoringOK'
    BY <2>1, <2>3, <2>8 DEF RestoringOK, NotMigrated
  <2> QED
    BY <2>4, <2>5, <2>7, <2>9
<1>2. ASSUME NEW r \in Run, NewRun(r) PROVE MigrationInv'
  <2>1. /\ runstore # Absent /\ runstore' = runstore \cup {r} /\ runstore \in SUBSET Run
        /\ UNCHANGED <<tree, catalog, backup, migrationRecord, phase, current, spoiled>>
    BY <1>2 DEF NewRun, files, MigrationTypes
  <2>2. runstore' \in SUBSET Run
    BY <2>1
  <2>3. runstore' # Absent
    BY <2>2
  <2>4. MigrationTypes'
    BY <2>1, <2>2 DEF MigrationTypes
  <2>5. ArchivesOK'
    BY <2>1 DEF ArchivesOK
  <2>6. AdoptingOK'
    BY <2>1, <2>3 DEF AdoptingOK
  <2>7. WholeProject => WholeProject'
    BY <2>1, <2>3 DEF WholeProject, MigrationIsValid
  <2>8. RestoringOK'
    BY <2>1, <2>7 DEF RestoringOK, NotMigrated
  <2> QED
    BY <2>4, <2>5, <2>6, <2>8
<1> QED
  BY <1>1, <1>2

LEMMA MigrationStepOK == MigrationInv /\ [MigrationNext]_migrationVars => MigrationInv'
<1> SUFFICES ASSUME MigrationInv, [MigrationNext]_migrationVars PROVE MigrationInv'
  OBVIOUS
<1>1. CASE (\E t \in Token : PlanMigration(t) \/ \E m \in MigrationId : PlanRollback(t, m))
           \/ UNCHANGED migrationVars
  <2>1. UNCHANGED <<tree, catalog, runstore, backup, migrationRecord, phase, current, spoiled>>
    BY <1>1 DEF PlanMigration, PlanRollback, migrationVars, stores, files
  <2>2. MigrationTypes' /\ ArchivesOK' /\ AdoptingOK'
    BY <2>1 DEF MigrationInv, MigrationTypes, ArchivesOK, AdoptingOK
  <2>3. RestoringOK'
    BY <2>1 DEF MigrationInv, RestoringOK, WholeProject, MigrationIsValid, NotMigrated
  <2> QED
    BY <2>2, <2>3 DEF MigrationInv
<1> QED
  BY <1>1, AppliesOK, RestoresOK, FailuresOK, UsersOK DEF MigrationNext, MigrationCommands

(* Whatever apply or rollback run into short of dying, and whatever users  *)
(* do meanwhile, the Project is migrated as a whole or not at all when the *)
(* command is over, for any files, edits, Runs and number of migrations    *)
(* (apply, rollback, _restore_backup).                                     *)
THEOREM MigratedAsAWhole == MigrationSpec => []MigratedOrOriginal
<1>1. MigrationInv => MigratedOrOriginal
  BY DEF MigrationInv, MigrationTypes, RestoringOK, WholeProject, MigratedOrOriginal
<1> QED
  BY <1>1, MigrationInitOK, MigrationStepOK, PTL DEF MigrationSpec

(* The work a command would discard is in the backup it restores, or was   *)
(* done while a command was active: what is done before a command is in    *)
(* its backup, and rollback goes on only from what the migration recorded. *)
RecordedWorkOK ==
    \A m \in MigrationId : migrationRecord[m] # Absent =>
        /\ migrationRecord[m].tree \cap (Legacy \cup Edit) \subseteq backup[m].tree \cup raced
        /\ migrationRecord[m].runstore = Absent \/ migrationRecord[m].runstore \subseteq raced

ActiveWorkOK ==
    /\ phase \in Adopting \cup {"clear"} =>
          tree \cap (Legacy \cup Edit) \subseteq backup[current.id].tree \cup raced
    /\ phase \in Adopting \cup {"clear", "extract", "restore_runstore"} =>
          runstore = Absent \/ runstore \subseteq raced

WorkOK == RecordedWorkOK /\ ActiveWorkOK

LEMMA WorkInitOK == MigrationInit => WorkOK
<1> SUFFICES ASSUME MigrationInit PROVE WorkOK
  OBVIOUS
<1>1. phase = "idle" /\ \A m \in MigrationId : migrationRecord[m] = Absent
  BY DEF MigrationInit
<1> QED
  BY <1>1, AdoptingSteps DEF WorkOK, RecordedWorkOK, ActiveWorkOK

LEMMA RacedGrows == [MigrationNext]_migrationVars => raced \subseteq raced'
BY DEF MigrationNext, migrationVars, EditModel, NewRun, Does

(* Steps that write no backup and no record.                               *)
LEMMA FilesStay ==
    ASSUME MigrationInv, WorkOK, UNCHANGED files, ActiveWorkOK', raced \subseteq raced' PROVE WorkOK'
BY DEF WorkOK, RecordedWorkOK, files

LEMMA WorkStepOK ==
    ASSUME MigrationInv, WorkOK, [MigrationNext]_migrationVars
    PROVE  WorkOK'
<1> USE MigrationAssumption
<1>0. raced \subseteq raced'
  BY RacedGrows
<1>1. ASSUME NEW t \in Token, NEW m \in MigrationId, Apply(t, m) \/ Rollback(t, m) PROVE WorkOK'
  <2>1. UNCHANGED files /\ phase' \in {"backup", "compare"}
    BY <1>1 DEF Apply, Rollback
  <2>2. ActiveWorkOK'
    BY <1>0, <2>1, AdoptingSteps DEF ActiveWorkOK, Adopting, Bootstrap
  <2> QED
    BY <1>0, <2>1, <2>2, FilesStay
<1>2. CASE Backup
  <2> DEFINE s == [tree |-> tree, catalog |-> catalog, runstore |-> runstore]
  <2>1. /\ phase = "backup" /\ phase' = "revision" /\ backup' = [backup EXCEPT ![current.id] = s]
        /\ UNCHANGED <<tree, runstore, migrationRecord, current>>
        /\ current.id \in MigrationId /\ backup[current.id] = Absent /\ runstore = Absent
    BY <1>2 DEF Backup, Go, stores, MigrationInv, MigrationTypes, RestoringOK, ArchivesOK, NotMigrated
  <2>2. s.tree = tree
    OBVIOUS
  <2> HIDE DEF s
  <2>3. backup'[current.id] = s /\ \A m \in MigrationId : m # current.id => backup'[m] = backup[m]
    BY <2>1 DEF MigrationInv, MigrationTypes
  <2>4. migrationRecord[current.id] = Absent
    BY <2>1 DEF MigrationInv, ArchivesOK
  <2>5. RecordedWorkOK'
    BY <1>0, <2>1, <2>3, <2>4 DEF WorkOK, RecordedWorkOK
  <2>6. ActiveWorkOK'
    BY <1>0, <2>1, <2>2, <2>3 DEF ActiveWorkOK
  <2> QED
    BY <2>5, <2>6 DEF WorkOK
<1>3. CASE WriteMigrationRecord
  <2> DEFINE r == [state |-> "ACTIVE_PENDING_FIRST_NEW_RUN", source |-> current.source,
                   tree |-> tree, catalog |-> catalog, runstore |-> runstore]
  <2>1. /\ phase = "record" /\ phase' = "validate"
        /\ migrationRecord' = [migrationRecord EXCEPT ![current.id] = r]
        /\ UNCHANGED <<tree, runstore, backup, current>> /\ current.id \in MigrationId
    BY <1>3 DEF WriteMigrationRecord, Go, stores, MigrationInv, MigrationTypes
  <2>2. r.tree = tree /\ r.runstore = runstore
    OBVIOUS
  <2> HIDE DEF r
  <2>3. \A m \in MigrationId : migrationRecord'[m] = IF m = current.id THEN r ELSE migrationRecord[m]
    BY <2>1 DEF MigrationInv, MigrationTypes
  <2>4. /\ tree \cap (Legacy \cup Edit) \subseteq backup[current.id].tree \cup raced
        /\ runstore = Absent \/ runstore \subseteq raced
    BY <2>1, AdoptingSteps DEF WorkOK, ActiveWorkOK
  <2>5. RecordedWorkOK'
    BY <1>0, <2>1, <2>2, <2>3, <2>4 DEF WorkOK, RecordedWorkOK
  <2>6. ActiveWorkOK'
    BY <1>0, <2>1, <2>4 DEF ActiveWorkOK
  <2> QED
    BY <2>5, <2>6 DEF WorkOK
<1>4. CASE WriteBootstrap
  <2>1. /\ phase \in Adopting /\ tree' = tree \cup {<<phase, current.id>>}
        /\ UNCHANGED <<runstore, backup, current>> /\ UNCHANGED files
        /\ <<phase, current.id>> \in TargetFiles
    BY <1>4 DEF WriteBootstrap, Go, files, Bootstrap, Adopting, TargetFiles,
                MigrationInv, MigrationTypes
  <2>2. tree' \cap (Legacy \cup Edit) = tree \cap (Legacy \cup Edit)
    BY <2>1
  <2>3. ActiveWorkOK'
    BY <1>0, <2>1, <2>2 DEF WorkOK, ActiveWorkOK
  <2> QED
    BY <1>0, <2>1, <2>3, FilesStay
<1>5. CASE Register \/ CreateRunStore
  <2>1. /\ phase \in Adopting /\ UNCHANGED <<tree, backup, current>> /\ UNCHANGED files
        /\ runstore' \in {runstore, {}}
    BY <1>5, AdoptingSteps DEF Register, CreateRunStore, Go, files
  <2>2. ActiveWorkOK'
    BY <1>0, <2>1 DEF WorkOK, ActiveWorkOK
  <2> QED
    BY <1>0, <2>1, <2>2, FilesStay
<1>6. CASE ComparePost
  <2>1. /\ phase = "compare" /\ phase' = "clear" /\ UNCHANGED <<tree, runstore, backup, current>>
        /\ tree = migrationRecord[current.id].tree
        /\ runstore = migrationRecord[current.id].runstore
        /\ UNCHANGED files /\ current.id \in MigrationId /\ migrationRecord[current.id] # Absent
    BY <1>6 DEF ComparePost, Go, stores, files, MigrationInv, MigrationTypes, ArchivesOK
  <2>2. ActiveWorkOK'
    BY <1>0, <2>1 DEF WorkOK, RecordedWorkOK, ActiveWorkOK
  <2> QED
    BY <1>0, <2>1, <2>2, FilesStay
<1>7. CASE RemoveProjectFile \/ ProjectCleared \/ ExtractFile \/ RestoreCatalog
  <2>1. /\ UNCHANGED <<runstore, backup, current>> /\ UNCHANGED files
        /\ phase \in {"clear", "extract"} /\ phase' \in {"clear", "extract", "restore_runstore"}
        /\ phase' = "clear" => phase = "clear" /\ tree' \subseteq tree
    BY <1>7 DEF RemoveProjectFile, ProjectCleared, ExtractFile, RestoreCatalog, Go, files, stores
  <2>2. ActiveWorkOK'
    BY <1>0, <2>1, AdoptingSteps DEF WorkOK, ActiveWorkOK, Adopting, Bootstrap
  <2> QED
    BY <1>0, <2>1, <2>2, FilesStay
<1>8. CASE RestoreRunStore \/ VerifyRestored \/ Validate \/ MigrationDies
  <2>1. UNCHANGED files /\ phase' \in {"verify", "rolled_back", "idle"}
    BY <1>8 DEF RestoreRunStore, VerifyRestored, Validate, MigrationDies, Go
  <2>2. ActiveWorkOK'
    BY <1>0, <2>1, AdoptingSteps DEF ActiveWorkOK, Adopting, Bootstrap
  <2> QED
    BY <1>0, <2>1, <2>2, FilesStay
<1>9. CASE RecordRollback
  <2> DEFINE r == [migrationRecord[current.id] EXCEPT !.state = "ROLLED_BACK"]
  <2>1. /\ phase = "rolled_back" /\ phase' = "idle" /\ UNCHANGED backup
        /\ migrationRecord' = [migrationRecord EXCEPT ![current.id] = r]
        /\ current.id \in MigrationId /\ migrationRecord[current.id] # Absent
    BY <1>9 DEF RecordRollback, Go, MigrationInv, MigrationTypes, ArchivesOK
  <2>2. r.tree = migrationRecord[current.id].tree /\ r.runstore = migrationRecord[current.id].runstore
    <3>1. migrationRecord[current.id] \in MigrationReport
      BY <2>1 DEF MigrationInv, MigrationTypes
    <3> QED
      BY <3>1 DEF MigrationReport
  <2> HIDE DEF r
  <2>3. \A m \in MigrationId : migrationRecord'[m] = IF m = current.id THEN r ELSE migrationRecord[m]
    BY <2>1 DEF MigrationInv, MigrationTypes
  <2>4. RecordedWorkOK'
    BY <1>0, <2>1, <2>2, <2>3 DEF WorkOK, RecordedWorkOK
  <2>5. ActiveWorkOK'
    BY <1>0, <2>1, AdoptingSteps DEF ActiveWorkOK, Adopting, Bootstrap
  <2> QED
    BY <2>4, <2>5 DEF WorkOK
<1>10. CASE RaiseInMigration
  <2>1. /\ UNCHANGED <<tree, runstore, backup>> /\ UNCHANGED files
        /\ \/ phase \in Adopting /\ phase' = "clear" /\ UNCHANGED current
           \/ phase' = "idle"
    BY <1>10 DEF RaiseInMigration, Go, stores, files
  <2>2. ActiveWorkOK'
    BY <1>0, <2>1, AdoptingSteps DEF WorkOK, ActiveWorkOK, Adopting, Bootstrap
  <2> QED
    BY <1>0, <2>1, <2>2, FilesStay
<1>11. CASE (\E e \in Edit : EditModel(e)) \/ (\E r \in Run : NewRun(r))
  <2>1. UNCHANGED <<phase, current, backup>> /\ UNCHANGED files
    BY <1>11 DEF EditModel, NewRun, files
  <2>2. CASE phase = "idle"
    <3>1. ActiveWorkOK'
      BY <2>1, <2>2, AdoptingSteps DEF ActiveWorkOK, Adopting, Bootstrap
    <3> QED
      BY <1>0, <2>1, <3>1, FilesStay
  <2>3. CASE phase # "idle"
    <3>1. tree' \subseteq tree \cup raced'
      BY <1>11, <2>3 DEF EditModel, NewRun, Does
    <3>2. runstore' = runstore \/ (runstore # Absent /\ runstore' \subseteq runstore \cup raced')
      BY <1>11, <2>3 DEF EditModel, NewRun, Does
    <3>3. ActiveWorkOK'
      BY <1>0, <2>1, <3>1, <3>2 DEF WorkOK, ActiveWorkOK
    <3> QED
      BY <1>0, <2>1, <3>3, FilesStay
  <2> QED
    BY <2>2, <2>3
<1>12. CASE (\E t \in Token : PlanMigration(t) \/ \E m \in MigrationId : PlanRollback(t, m))
            \/ UNCHANGED migrationVars
  <2>1. UNCHANGED <<tree, runstore, backup, phase, current>> /\ UNCHANGED files
    BY <1>12 DEF PlanMigration, PlanRollback, migrationVars, stores, files
  <2>2. ActiveWorkOK'
    BY <1>0, <2>1 DEF WorkOK, ActiveWorkOK, Adopting, Bootstrap
  <2> QED
    BY <1>0, <2>1, <2>2, FilesStay
<1> QED
  BY <1>1, <1>2, <1>3, <1>4, <1>5, <1>6, <1>7, <1>8, <1>9, <1>10, <1>11, <1>12
  DEF MigrationNext, MigrationCommands, Migrates, Restores

(* What a step does to the files of the Project, its backups and its Runs. *)
LEMMA WorkStays ==
    ASSUME MigrationInv, WorkOK, [MigrationNext]_migrationVars
    PROVE  /\ \A a \in (Legacy \cup Edit) \ raced : Kept(a) => Kept(a)'
           /\ \A r \in Run \ raced : Recorded(r) => Recorded(r)'
<1> USE MigrationAssumption
<1>1. \A m \in MigrationId : backup[m] # Absent => backup'[m] = backup[m]
  <2>1. CASE Backup
    BY <2>1 DEF Backup, MigrationInv, MigrationTypes, ArchivesOK
  <2>2. CASE ~Backup
    <3>1. UNCHANGED backup
      BY <2>2 DEF MigrationNext, MigrationCommands, Migrates, Restores, migrationVars, files, PlanMigration,
         PlanRollback, Apply, Rollback, WriteBootstrap, Register, CreateRunStore,
         WriteMigrationRecord, Validate, RemoveProjectFile, ProjectCleared, ExtractFile,
         RestoreCatalog, RestoreRunStore, VerifyRestored, ComparePost, RecordRollback,
         RaiseInMigration, MigrationDies, EditModel, NewRun
    <3> QED
      BY <3>1
  <2> QED
    BY <2>1, <2>2
<1>2. \A a \in (Legacy \cup Edit) \ raced : a \in tree => Kept(a)'
  <2>1. CASE RemoveProjectFile
    <3>1. /\ tree \cap (Legacy \cup Edit) \subseteq backup[current.id].tree \cup raced
          /\ current.id \in MigrationId /\ backup[current.id] # Absent
      BY <2>1 DEF RemoveProjectFile, WorkOK, ActiveWorkOK, MigrationInv, MigrationTypes, ArchivesOK
    <3> QED
      BY <1>1, <3>1 DEF Kept
  <2>2. CASE ~RemoveProjectFile
    <3>1. tree \subseteq tree'
      BY <2>2 DEF MigrationNext, MigrationCommands, Migrates, Restores, migrationVars, stores, PlanMigration,
         PlanRollback, Apply, Backup, Rollback, WriteBootstrap, Register, CreateRunStore,
         WriteMigrationRecord, Validate, ProjectCleared, ExtractFile,
         RestoreCatalog, RestoreRunStore, VerifyRestored, ComparePost, RecordRollback,
         RaiseInMigration, MigrationDies, EditModel, NewRun
    <3> QED
      BY <3>1 DEF Kept
  <2> QED
    BY <2>1, <2>2
<1>3. \A a \in (Legacy \cup Edit) \ raced : Kept(a) => Kept(a)'
  BY <1>1, <1>2 DEF Kept
<1>4. \A r \in Run \ raced : Recorded(r) => Recorded(r)'
  <2>1. CASE RestoreRunStore \/ CreateRunStore
    <3>1. runstore = Absent \/ runstore \subseteq raced
      BY <2>1 DEF RestoreRunStore, CreateRunStore, WorkOK, ActiveWorkOK
    <3> QED
      BY <3>1 DEF Recorded
  <2>2. CASE \E r \in Run : NewRun(r)
    <3>1. PICK r \in Run : runstore # Absent /\ runstore' = runstore \cup {r}
      BY <2>2 DEF NewRun
    <3>2. runstore' \in SUBSET Run
      BY <3>1 DEF MigrationInv, MigrationTypes
    <3>3. runstore' # Absent
      BY <3>2
    <3> QED
      BY <3>1, <3>3 DEF Recorded
  <2>3. CASE ~(RestoreRunStore \/ CreateRunStore \/ \E r \in Run : NewRun(r))
    <3>1. UNCHANGED runstore
      BY <2>3 DEF MigrationNext, MigrationCommands, Migrates, Restores, migrationVars, stores, PlanMigration,
         PlanRollback, Apply, Backup, Rollback, WriteBootstrap, Register,
         WriteMigrationRecord, Validate, RemoveProjectFile, ProjectCleared, ExtractFile,
         RestoreCatalog, VerifyRestored, ComparePost, RecordRollback,
         RaiseInMigration, MigrationDies, EditModel
    <3> QED
      BY <3>1 DEF Recorded
  <2> QED
    BY <2>1, <2>2, <2>3
<1> QED
  BY <1>3, <1>4

(* No step of apply, of rollback or of a restoration that fails loses a    *)
(* file, an edit or a Run that was made while no command was active,       *)
(* whatever users do while one is: it is in the backup that is restored,   *)
(* or rollback refuses (apply, rollback, _restore_backup).                 *)
THEOREM WorkIsKept == MigrationSpec => NoWorkIsDiscarded
<1>1. MigrationInv /\ WorkOK /\ [MigrationNext]_migrationVars => WorkOK'
  BY WorkStepOK
<1>2. MigrationInv /\ WorkOK /\ [MigrationNext]_migrationVars =>
         [/\ \A a \in (Legacy \cup Edit) \ raced : Kept(a) => Kept(a)'
          /\ \A r \in Run \ raced : Recorded(r) => Recorded(r)']_migrationVars
  BY WorkStays
<1> QED
  BY <1>1, <1>2, MigrationInitOK, WorkInitOK, MigrationStepOK, PTL DEF MigrationSpec, NoWorkIsDiscarded

-----------------------------------------------------------------------------
(* Stages.                                                                 *)

(* Evidence that the ChangeSet's workflow was carried out.                 *)
ChangesetEvidence(e) ==
    /\ e.packet = "brownfield" /\ e.claimed # {}
    /\ e.claimed \subseteq OwnedPath \ {ModelPath}

(* The journal j holds such evidence of h.                                 *)
EvidencedBy(h, j) == \E e \in j : e.by = h /\ ChangesetEvidence(e)

InvocationField == {"kind", "step", "first", "before", "read", "claimed", "evidence"}

ByWorkflow(c) == c.status = "VERIFIED" /\ c.by \in Harness

(* An invocation x of h, with what the journal j holds of it: what it      *)
(* claims was checked before it was recorded, and it was recorded before   *)
(* the ChangeSet is saved.                                                 *)
InvocationOK(h, x, j) ==
    /\ DOMAIN x = InvocationField
    /\ x.step \in {"checked", "loaded", "accepted"} =>
          x.claimed # {} /\ x.claimed \subseteq OwnedPath \ {ModelPath}
    /\ x.step = "accepted" /\ x.kind = "brownfield" => EvidencedBy(h, j)

StageInv ==
    /\ DOMAIN invocation = Harness
    /\ \A h \in Harness : InvocationOK(h, invocation[h], stageJournal)
    /\ ByWorkflow(changeset) => EvidencedBy(changeset.by, stageJournal)

LEMMA StageInitOK == StageWorkflowInit => StageInv
<1> SUFFICES ASSUME StageWorkflowInit PROVE StageInv
  OBVIOUS
<1>1. /\ DOMAIN Unstarted = InvocationField
      /\ Unstarted.step = "none"
  BY DEF Unstarted, InvocationField
<1>2. DOMAIN invocation = Harness /\ \A h \in Harness : invocation[h] = Unstarted
  BY DEF StageWorkflowInit
<1>3. \A h \in Harness : InvocationOK(h, invocation[h], stageJournal)
  BY <1>1, <1>2 DEF InvocationOK
<1> QED
  BY <1>2, <1>3 DEF StageInv, StageWorkflowInit, ByWorkflow

(* One invocation becomes x while the journal only grows; the ChangeSet is *)
(* VERIFIED only if evidence is there.                                     *)
LEMMA StageMoves ==
    ASSUME StageInv, NEW h \in Harness, NEW x, invocation' = [invocation EXCEPT ![h] = x],
           stageJournal \subseteq stageJournal', InvocationOK(h, x, stageJournal'),
           changeset' = changeset \/ (changeset'.by = h /\ EvidencedBy(h, stageJournal'))
    PROVE  StageInv'
<1>1. /\ DOMAIN invocation' = Harness /\ invocation'[h] = x
      /\ \A g \in Harness : g # h => invocation'[g] = invocation[g]
  BY DEF StageInv
<1>2. \A g : EvidencedBy(g, stageJournal) => EvidencedBy(g, stageJournal')
  BY DEF EvidencedBy
<1>3. ASSUME NEW g \in Harness PROVE InvocationOK(g, invocation'[g], stageJournal')
  <2>1. CASE g = h
    BY <1>1, <2>1
  <2>2. CASE g # h
    <3>1. InvocationOK(g, invocation[g], stageJournal) /\ invocation'[g] = invocation[g]
      BY <1>1, <2>2 DEF StageInv
    <3> QED
      BY <1>2, <3>1 DEF InvocationOK
  <2> QED
    BY <2>1, <2>2
<1>4. ByWorkflow(changeset)' => EvidencedBy(changeset'.by, stageJournal')
  BY <1>2 DEF StageInv, ByWorkflow
<1> QED
  BY <1>1, <1>3, <1>4 DEF StageInv

(* An invocation that goes on without having checked anything yet, or ends.*)
LEMMA StageProceeds ==
    ASSUME StageInv, NEW h \in Harness, NEW x, invocation' = [invocation EXCEPT ![h] = x],
           DOMAIN x = InvocationField,
           x.step \notin {"checked", "loaded", "accepted"}, UNCHANGED <<changeset, stageJournal>>
    PROVE  StageInv'
<1>1. InvocationOK(h, x, stageJournal')
  BY DEF InvocationOK
<1> QED
  BY <1>1, StageMoves

LEMMA StageEndsOK ==
    ASSUME StageInv, NEW h \in Harness, StageEnds(h), UNCHANGED stageJournal,
           changeset' = changeset \/ (changeset'.by = h /\ EvidencedBy(h, stageJournal))
    PROVE  StageInv'
<1>1. /\ DOMAIN Unstarted = InvocationField
      /\ Unstarted.step = "none"
  BY DEF Unstarted, InvocationField
<1>2. InvocationOK(h, Unstarted, stageJournal')
  BY <1>1 DEF InvocationOK
<1> QED
  BY <1>2, StageMoves DEF StageEnds

(* An invocation that is at rest begins.                                   *)
LEMMA StageBeginsOK ==
    ASSUME StageInv, NEW h \in Harness,
           HermesStage(h) \/ GreenfieldWorkflow(h) \/ BrownfieldWorkflow(h)
    PROVE  StageInv'
<1>1. UNCHANGED <<changeset, stageJournal>>
  BY DEF HermesStage, GreenfieldWorkflow, BrownfieldWorkflow
<1>2. \E x : /\ DOMAIN x = InvocationField
             /\ x.step \in {"running", "begun"} /\ invocation' = [invocation EXCEPT ![h] = x]
  <2>1. CASE HermesStage(h)
    <3> DEFINE x == [Unstarted EXCEPT !.kind = "hermes", !.step = "running", !.before = site]
    <3>1. invocation' = [invocation EXCEPT ![h] = x]
      BY <2>1 DEF HermesStage
    <3>2. /\ DOMAIN x = InvocationField
          /\ x.step = "running"
      BY DEF Unstarted, InvocationField
    <3> HIDE DEF x
    <3> QED
      BY <3>1, <3>2
  <2>2. CASE GreenfieldWorkflow(h)
    <3> DEFINE x == [Unstarted EXCEPT !.kind = "greenfield", !.step = "begun",
                                      !.first = OwnedSnapshot]
    <3>1. invocation' = [invocation EXCEPT ![h] = x]
      BY <2>2 DEF GreenfieldWorkflow
    <3>2. /\ DOMAIN x = InvocationField
          /\ x.step = "begun"
      BY DEF Unstarted, InvocationField
    <3> HIDE DEF x
    <3> QED
      BY <3>1, <3>2
  <2>3. CASE BrownfieldWorkflow(h)
    <3> DEFINE x == [Unstarted EXCEPT !.kind = "brownfield", !.step = "begun",
                                      !.first = OwnedSnapshot, !.read = changeset.status]
    <3>1. invocation' = [invocation EXCEPT ![h] = x]
      BY <2>3 DEF BrownfieldWorkflow
    <3>2. /\ DOMAIN x = InvocationField
          /\ x.step = "begun"
      BY DEF Unstarted, InvocationField
    <3> HIDE DEF x
    <3> QED
      BY <3>1, <3>2
  <2> QED
    BY <2>1, <2>2, <2>3
<1> QED
  BY <1>1, <1>2, StageProceeds

LEMMA StageRunsOK ==
    ASSUME StageInv, NEW h \in Harness, ExecuteStage(h) \/ StageSucceeds(h)
    PROVE  StageInv'
<1>1. UNCHANGED <<changeset, stageJournal>>
  BY DEF ExecuteStage, StageSucceeds
<1>2. DOMAIN invocation[h] = InvocationField
  BY DEF StageInv, InvocationOK
<1>3. CASE StageEnds(h)
  BY <1>1, <1>3, StageEndsOK
<1>4. CASE ExecuteStage(h) /\ ~StageEnds(h)
  <2> DEFINE x == [invocation[h] EXCEPT !.step = "running", !.before = site]
  <2>1. invocation' = [invocation EXCEPT ![h] = x]
    BY <1>4 DEF ExecuteStage
  <2>2. DOMAIN x = DOMAIN invocation[h] /\ x.step = "running"
    BY <1>2
  <2> HIDE DEF x
  <2> QED
    BY <1>1, <1>2, <2>1, <2>2, StageProceeds
<1>5. CASE StageSucceeds(h) /\ ~StageEnds(h)
  <2>1. PICK claimed : invocation' = [invocation EXCEPT ![h] = [@ EXCEPT !.step = "returned",
                                         !.claimed = claimed, !.before = AsBuilt]]
    BY <1>5 DEF StageSucceeds
  <2> DEFINE x == [invocation[h] EXCEPT !.step = "returned", !.claimed = claimed,
                                        !.before = AsBuilt]
  <2>2. invocation' = [invocation EXCEPT ![h] = x]
    BY <2>1
  <2>3. DOMAIN x = DOMAIN invocation[h] /\ x.step = "returned"
    BY <1>2
  <2> HIDE DEF x
  <2> QED
    BY <1>1, <1>2, <2>2, <2>3, StageProceeds
<1> QED
  BY <1>3, <1>4, <1>5

(* _run_standard_workflow: what was claimed is checked, then recorded.     *)
LEMMA StageCheckedOK ==
    ASSUME StageInv, NEW h \in Harness, CheckArtifacts(h)
    PROVE  StageInv'
<1>1. UNCHANGED <<changeset, stageJournal>>
  BY DEF CheckArtifacts
<1>2. DOMAIN invocation[h] = InvocationField
  BY DEF StageInv, InvocationOK
<1>3. CASE ClaudeArtifactsHold(invocation[h].first, site, invocation[h].claimed)
  <2> DEFINE x == [invocation[h] EXCEPT !.step = "checked", !.first = AsBuilt]
  <2>1. invocation' = [invocation EXCEPT ![h] = x]
    BY <1>3 DEF CheckArtifacts
  <2>2. DOMAIN x = DOMAIN invocation[h] /\ x.step = "checked" /\ x.claimed = invocation[h].claimed
    BY <1>2
  <2> HIDE DEF x
  <2>3. x.claimed # {} /\ x.claimed \subseteq OwnedPath \ {ModelPath}
    BY <1>3, <2>2 DEF ClaudeArtifactsHold
  <2>4. InvocationOK(h, x, stageJournal')
    BY <1>2, <2>2, <2>3 DEF InvocationOK
  <2> QED
    BY <1>1, <2>1, <2>4, StageMoves
<1>4. CASE ~ClaudeArtifactsHold(invocation[h].first, site, invocation[h].claimed)
  <2>1. StageEnds(h)
    BY <1>4 DEF CheckArtifacts
  <2> QED
    BY <1>1, <2>1, StageEndsOK
<1> QED
  BY <1>3, <1>4

LEMMA StageLoadedOK ==
    ASSUME StageInv, NEW h \in Harness, NEW id \in StageEvidenceId, LoadJournal(h, id)
    PROVE  StageInv'
<1>1. UNCHANGED <<changeset, stageJournal>> /\ invocation[h].step = "checked"
  BY DEF LoadJournal, StageAt
<1>2. /\ DOMAIN invocation[h] = InvocationField
      /\ invocation[h].claimed # {} /\ invocation[h].claimed \subseteq OwnedPath \ {ModelPath}
  BY <1>1 DEF StageInv, InvocationOK
<1>3. CASE StageEnds(h)
  BY <1>1, <1>3, StageEndsOK
<1>4. CASE ~StageEnds(h)
  <2> DEFINE x == [invocation[h] EXCEPT !.step = "loaded", !.evidence = id]
  <2>1. invocation' = [invocation EXCEPT ![h] = x]
    BY <1>4 DEF LoadJournal
  <2>2. DOMAIN x = DOMAIN invocation[h] /\ x.step = "loaded" /\ x.claimed = invocation[h].claimed
    BY <1>2 DEF InvocationField
  <2> HIDE DEF x
  <2>3. InvocationOK(h, x, stageJournal')
    BY <1>2, <2>2 DEF InvocationOK
  <2> QED
    BY <1>1, <2>1, <2>3, StageMoves
<1> QED
  BY <1>3, <1>4

(* What an invocation records is appended whatever was recorded since it   *)
(* loaded the journal, so its own evidence is there.                       *)
LEMMA StageRecordedOK ==
    ASSUME StageInv, NEW h \in Harness, RecordStageEvidence(h)
    PROVE  StageInv'
<1>1. UNCHANGED changeset /\ invocation[h].step = "loaded"
  BY DEF RecordStageEvidence, StageAt
<1>2. /\ DOMAIN invocation[h] = InvocationField
      /\ invocation[h].claimed # {} /\ invocation[h].claimed \subseteq OwnedPath \ {ModelPath}
  BY <1>1 DEF StageInv, InvocationOK
<1> DEFINE x == [invocation[h] EXCEPT !.step = "accepted"]
           e == [id |-> invocation[h].evidence, by |-> h, packet |-> invocation[h].kind,
                 claimed |-> invocation[h].claimed]
<1>3. invocation' = [invocation EXCEPT ![h] = x] /\ stageJournal' = stageJournal \cup {e}
  BY DEF RecordStageEvidence, StageGoes
<1>4. /\ DOMAIN x = DOMAIN invocation[h] /\ x.step = "accepted"
      /\ x.claimed = invocation[h].claimed /\ x.kind = invocation[h].kind
  BY <1>2 DEF InvocationField
<1>5. e.by = h /\ e.packet = x.kind /\ e.claimed = x.claimed
  BY <1>4
<1> HIDE DEF x, e
<1>6. x.kind = "brownfield" => EvidencedBy(h, stageJournal')
  BY <1>2, <1>3, <1>4, <1>5 DEF ChangesetEvidence, EvidencedBy
<1>7. InvocationOK(h, x, stageJournal')
  BY <1>2, <1>3, <1>4, <1>6 DEF InvocationOK
<1> QED
  BY <1>1, <1>3, <1>7, StageMoves

LEMMA StageStepOK == StageInv /\ [StageWorkflowNext]_stageWorkflowVars => StageInv'
<1> SUFFICES ASSUME StageInv, [StageWorkflowNext]_stageWorkflowVars PROVE StageInv'
  OBVIOUS
<1>1. CASE \E status \in SavedStatus : SaveChangeset(status)
  BY <1>1, StageWorkflowAssumption DEF SaveChangeset, StageInv, ByWorkflow
<1>2. CASE \/ OthersCommit \/ \E p \in Path : OthersWrite(p)
           \/ \E h \in Harness : \E p \in Path, c \in {"edited", "absent"} : HarnessWrites(h, p, c)
  BY <1>2 DEF OthersCommit, OthersWrite, HarnessWrites, StageInv
<1>3. CASE \E h \in Harness : HermesStage(h) \/ GreenfieldWorkflow(h) \/ BrownfieldWorkflow(h)
  BY <1>3, StageBeginsOK
<1>4. CASE \E h \in Harness : ExecuteStage(h) \/ StageSucceeds(h)
  BY <1>4, StageRunsOK
<1>5. CASE \E h \in Harness : CheckArtifacts(h)
  BY <1>5, StageCheckedOK
<1>6. CASE \E h \in Harness : SaveVerified(h)
  <2>1. PICK h \in Harness : SaveVerified(h)
    BY <1>6
  <2>2. /\ StageEnds(h) /\ UNCHANGED stageJournal /\ invocation[h].step = "accepted"
        /\ changeset' = changeset \/ (changeset'.by = h /\ invocation[h].kind = "brownfield")
    BY <2>1 DEF SaveVerified, StageAt
  <2>3. invocation[h].kind = "brownfield" => EvidencedBy(h, stageJournal)
    BY <2>2 DEF StageInv, InvocationOK
  <2> QED
    BY <2>2, <2>3, StageEndsOK
<1>7. CASE \E h \in Harness : HarnessDies(h) \/ StageFails(h)
  BY <1>7, StageEndsOK DEF HarnessDies, StageFails
<1>8. CASE \E h \in Harness :
              RecordStageEvidence(h) \/ \E id \in StageEvidenceId : LoadJournal(h, id)
  BY <1>8, StageLoadedOK, StageRecordedOK
<1>9. CASE UNCHANGED stageWorkflowVars
  BY <1>9 DEF stageWorkflowVars, StageInv
<1> QED
  BY <1>1, <1>2, <1>3, <1>4, <1>5, <1>6, <1>7, <1>8, <1>9 DEF StageWorkflowNext

(* run_brownfield_changeset_workflow: whatever invocations race on one     *)
(* worktree and one journal and wherever they die, a ChangeSet that a      *)
(* workflow made VERIFIED has the evidence of that one in the journal:     *)
(* VerifiedOnEvidence is an invariant for any number of harnesses and      *)
(* whatever others change.                                                 *)
THEOREM ChangesetsAreVerified == StageWorkflowSpec => []VerifiedOnEvidence
<1>1. StageInv => VerifiedOnEvidence
  BY DEF StageInv, VerifiedOnEvidence, EvidencedBy, ChangesetEvidence, ByWorkflow
<1> QED
  BY <1>1, StageInitOK, StageStepOK, PTL DEF StageWorkflowSpec

-----------------------------------------------------------------------------
(* The logs.                                                               *)

AuditEntry == [log : {"audit"}, line : {"PROPOSED", "ACCEPTED"}, proposal : Suggestion]

ObservationEntry == [log : {"observations"}, line : ObservationStatus, of : Sighting]

DivergenceEntry ==
    [log : {"divergences"}, line : {"OPEN", "PROPOSED", "RESOLVED"}, of : Sighting,
     proposal : Suggestion \cup {NoSuggestion}]

LogEntry == AuditEntry \cup ObservationEntry \cup DivergenceEntry

LogChore == [todo : Seq(LogEntry), checked : BOOLEAN, resolves : Suggestion \cup {NoSuggestion}]

RealityTypes ==
    /\ log \in [Log -> Seq(LogEntry \cup {Cut, Garbled})]
    /\ confirmed \in [Log -> SUBSET LogEntry]
    /\ suggestion \in [Suggestion -> {"NONE", "MADE", "ACCEPTED"}]
    /\ chore \in [Observer -> LogChore]

LegibleLines(lines) == \A i \in DOMAIN lines : lines[i] \notin {Cut, Garbled}

SoundLines(lines) == {lines[i] : i \in DOMAIN lines} \ {Cut, Garbled}

Observed(conf, o) == \E e \in conf["observations"] : e.of = o

Opening(e) == e.log = "divergences" /\ e.line # "RESOLVED"

(* An observation that will never be written, its log being illegible.     *)
Stuck(c, lines) ==
    /\ ~LegibleLines(lines)
    /\ \E i \in DOMAIN c.todo : c.todo[i].log = "observations" /\ ~(c.checked = TRUE /\ i = 1)

Preceded(todo, conf, i) ==
    \/ Observed(conf, todo[i].of)
    \/ \E j \in DOMAIN todo : j < i /\ todo[j].log = "observations" /\ todo[j].of = todo[i].of

Accepted(e, sug) ==
    e.line = "RESOLVED" => e.proposal \in Suggestion /\ sug[e.proposal] = "ACCEPTED"

TodoOK(todo, conf, sug) ==
    \A i \in DOMAIN todo : todo[i].log = "divergences" =>
       /\ Accepted(todo[i], sug)
       /\ Preceded(todo, conf, i)
       /\ \A j \in DOMAIN todo : j > i =>
             todo[j].log = "divergences" /\ todo[i].line = "RESOLVED" /\ todo[j].line = "RESOLVED"

ChoreOK(c, conf, sug) ==
    /\ c.checked = TRUE => c.todo # <<>>
    /\ c.resolves # NoSuggestion => sug[c.resolves] = "ACCEPTED"
    /\ TodoOK(c.todo, conf, sug)

LinesOK(lines, conf, sug) ==
    \A i \in DOMAIN lines :
       /\ lines[i] \in DivergenceEntry
       /\ Accepted(lines[i], sug)
       /\ Observed(conf, lines[i].of)
       /\ \A j \in DOMAIN lines :
             j > i /\ lines[i].line = "RESOLVED" /\ lines[j].of = lines[i].of
               => lines[j].line = "RESOLVED"

NoLineYet(todo, lines) ==
    \A i \in DOMAIN todo : Opening(todo[i]) => \A k \in DOMAIN lines : lines[k].of # todo[i].of

Apart(todo, other) ==
    \A i \in DOMAIN todo, k \in DOMAIN other :
       Opening(todo[i]) /\ other[k].log = "divergences" => other[k].of # todo[i].of

ConfirmedKept == \A f \in Log : LegibleLines(log[f]) => confirmed[f] \subseteq SoundLines(log[f])

Chores == \A p \in Observer : ChoreOK(chore[p], confirmed, suggestion)

DivergenceLines ==
    LegibleLines(log["divergences"]) => LinesOK(log["divergences"], confirmed, suggestion)

OpenedOnce ==
    \A p \in Observer :
       LegibleLines(log["divergences"]) /\ ~Stuck(chore[p], log["observations"])
         => NoLineYet(chore[p].todo, log["divergences"])

OpenedByOne ==
    \A p, q \in Observer :
       p # q /\ ~Stuck(chore[p], log["observations"]) /\ ~Stuck(chore[q], log["observations"])
         => Apart(chore[p].todo, chore[q].todo)

(* What the inductive invariant says beside: a divergence that is to be    *)
(* opened has no line yet and one process to open it, unless its           *)
(* observation can no longer be written.                                   *)
RealityInv == ConfirmedKept /\ Chores /\ DivergenceLines /\ OpenedOnce /\ OpenedByOne

(* An entry is told from a damaged line, and its log tells what it is.     *)
LEMMA EntryFacts ==
  /\ \A e \in LogEntry :
        /\ e.log \in Log
        /\ e.line \notin {"torn", "garbled"}
        /\ e \notin {Cut, Garbled}
        /\ e.log = "divergences" => e \in DivergenceEntry
  /\ \A o \in Sighting, status \in ObservationStatus : Observation(o, status) \in LogEntry
  /\ DivergenceEntry \subseteq LogEntry
<1>1. ASSUME NEW e \in LogEntry
      PROVE  /\ e.log \in Log
             /\ e.line \notin {"torn", "garbled"}
             /\ e.log = "divergences" => e \in DivergenceEntry
  <2>1. CASE e \in AuditEntry
    BY <2>1 DEF AuditEntry, Log
  <2>2. CASE e \in ObservationEntry
    BY <2>2 DEF ObservationEntry, Log, ObservationStatus
  <2>3. CASE e \in DivergenceEntry
    BY <2>3 DEF DivergenceEntry, Log
  <2> QED
    BY <2>1, <2>2, <2>3 DEF LogEntry
<1>2. Cut.line = "torn" /\ Garbled.line = "garbled"
  BY DEF Cut, Garbled
<1>3. \A e \in LogEntry : e \notin {Cut, Garbled}
  BY <1>1, <1>2
<1>4. \A o \in Sighting, status \in ObservationStatus : Observation(o, status) \in LogEntry
  BY DEF Observation, LogEntry, ObservationEntry
<1> QED
  BY <1>1, <1>3, <1>4 DEF LogEntry

(* What a write leaves at the end of a log: a log that can be read         *)
(* afterwards could be read before, and has that line behind the others.   *)
LEMMA WriteFacts ==
  ASSUME NEW f, NEW S, log[f] \in Seq(S \cup {Cut, Garbled}),
         NEW line \in S \cup {Cut, Garbled},
         CutOffTail(f) => line \in {Cut, Garbled}
  PROVE  /\ Appended(f, line) \in Seq(S \cup {Cut, Garbled})
         /\ LegibleLines(Appended(f, line)) =>
               /\ Appended(f, line) = Append(log[f], line)
               /\ LegibleLines(log[f])
               /\ line \notin {Cut, Garbled}
<1> DEFINE T == S \cup {Cut, Garbled}
           l == log[f]
<1>0. l \in Seq(T) /\ line \in T
  OBVIOUS
<1>00. T = S \cup {Cut, Garbled}
  OBVIOUS
<1> HIDE DEF T
<1>1. CASE CutOffTail(f)
  <2>1. l # <<>> /\ Appended(f, line) = [l EXCEPT ![Len(l)] = line]
    BY <1>1 DEF CutOffTail, Appended
  <2>2. Len(l) \in DOMAIN l
    BY <2>1, <1>0
  <2>3. [l EXCEPT ![Len(l)] = line] \in Seq(T)
    BY <2>2, <1>0
  <2>4. ~LegibleLines([l EXCEPT ![Len(l)] = line])
    <3>1. [l EXCEPT ![Len(l)] = line][Len(l)] = line
      BY <2>2
    <3>2. DOMAIN [l EXCEPT ![Len(l)] = line] = DOMAIN l
      OBVIOUS
    <3> QED
      BY <3>1, <3>2, <2>2, <1>1 DEF LegibleLines
  <2> QED
    BY <2>1, <2>3, <2>4, <1>00
<1>2. CASE ~CutOffTail(f)
  <2>1. Appended(f, line) = Append(l, line)
    BY <1>2 DEF Appended
  <2>2. Append(l, line) \in Seq(T)
    BY <1>0
  <2>3. ASSUME LegibleLines(Append(l, line)) PROVE LegibleLines(l) /\ line \notin {Cut, Garbled}
    <3>1. /\ DOMAIN Append(l, line) = 1 .. (Len(l) + 1)
          /\ Append(l, line)[Len(l) + 1] = line
          /\ \A i \in DOMAIN l : i \in 1 .. (Len(l) + 1) /\ Append(l, line)[i] = l[i]
          /\ Len(l) + 1 \in 1 .. (Len(l) + 1)
      BY <1>0
    <3> QED
      BY <3>1, <2>3 DEF LegibleLines
  <2> QED
    BY <2>1, <2>2, <2>3, <1>00
<1> QED
  BY <1>1, <1>2

LEMMA AppendFacts ==
  ASSUME NEW T, NEW l \in Seq(T), NEW e \in T
  PROVE  /\ DOMAIN Append(l, e) = DOMAIN l \cup {Len(l) + 1}
         /\ Append(l, e)[Len(l) + 1] = e
         /\ \A i \in DOMAIN l : Append(l, e)[i] = l[i] /\ i < Len(l) + 1 /\ i \in Nat
         /\ Len(l) \in Nat
  OBVIOUS

LEMMA TailFacts ==
  ASSUME NEW T, NEW l \in Seq(T), l # <<>>
  PROVE  /\ Tail(l) \in Seq(T)
         /\ \A i \in DOMAIN Tail(l) : i \in Nat /\ i + 1 \in DOMAIN l /\ i + 1 > 1 /\ Tail(l)[i] = l[i + 1]
         /\ \A i \in DOMAIN l : i \in Nat /\ (i # 1 => i - 1 \in DOMAIN Tail(l) /\ l[i] = Tail(l)[i - 1])
         /\ 1 \in DOMAIN l /\ l[1] = Head(l) /\ Head(l) \in T
  OBVIOUS

RealityIInv == RealityTypes /\ RealityInv

Later(conf, conf2, sug, sug2) ==
    /\ conf["observations"] \subseteq conf2["observations"]
    /\ \A s \in Suggestion : sug[s] = "ACCEPTED" => sug2[s] = "ACCEPTED"

(* Observations and acceptances are only added.                            *)
LEMMA TodoMono ==
  ASSUME NEW conf, NEW conf2, NEW sug, NEW sug2, Later(conf, conf2, sug, sug2),
         NEW todo, TodoOK(todo, conf, sug)
  PROVE  TodoOK(todo, conf2, sug2)
<1>1. \A o : Observed(conf, o) => Observed(conf2, o)
  BY DEF Later, Observed
<1>2. \A e : Accepted(e, sug) => Accepted(e, sug2)
  BY DEF Later, Accepted
<1>3. \A i \in DOMAIN todo : Preceded(todo, conf, i) => Preceded(todo, conf2, i)
  BY <1>1 DEF Preceded
<1> QED
  BY <1>2, <1>3 DEF TodoOK

LEMMA ChoreMono ==
  ASSUME NEW conf, NEW conf2, NEW sug, NEW sug2, Later(conf, conf2, sug, sug2),
         NEW c \in LogChore, ChoreOK(c, conf, sug)
  PROVE  ChoreOK(c, conf2, sug2)
<1>1. TodoOK(c.todo, conf2, sug2)
  BY TodoMono DEF ChoreOK
<1>2. c.resolves # NoSuggestion => c.resolves \in Suggestion
  BY DEF LogChore
<1> QED
  BY <1>1, <1>2 DEF ChoreOK, Later

LEMMA LinesMono ==
  ASSUME NEW conf, NEW conf2, NEW sug, NEW sug2, Later(conf, conf2, sug, sug2),
         NEW lines, LinesOK(lines, conf, sug)
  PROVE  LinesOK(lines, conf2, sug2)
<1>1. \A o : Observed(conf, o) => Observed(conf2, o)
  BY DEF Later, Observed
<1>2. \A e : Accepted(e, sug) => Accepted(e, sug2)
  BY DEF Later, Accepted
<1> QED
  BY <1>1, <1>2 DEF LinesOK

(* A process takes up another chore, and no log is written.                *)
LEMMA ChoreChange ==
  ASSUME RealityIInv, NEW p \in Observer, NEW c \in LogChore,
         chore' = [chore EXCEPT ![p] = c], UNCHANGED <<log, confirmed>>,
         suggestion' \in [Suggestion -> {"NONE", "MADE", "ACCEPTED"}],
         Later(confirmed, confirmed, suggestion, suggestion'),
         ChoreOK(c, confirmed, suggestion'),
         LegibleLines(log["divergences"]) /\ ~Stuck(c, log["observations"])
           => NoLineYet(c.todo, log["divergences"]),
         \A q \in Observer \ {p} :
            ~Stuck(c, log["observations"]) /\ ~Stuck(chore[q], log["observations"])
              => Apart(c.todo, chore[q].todo) /\ Apart(chore[q].todo, c.todo)
  PROVE  RealityIInv'
<1>0. log' = log /\ confirmed' = confirmed
  OBVIOUS
<1>1. chore \in [Observer -> LogChore]
  BY DEF RealityIInv, RealityTypes
<1>2. /\ chore' \in [Observer -> LogChore]
      /\ chore'[p] = c
      /\ \A q \in Observer : q # p => chore'[q] = chore[q]
  BY <1>1
<1>3. RealityTypes'
  BY <1>0, <1>2 DEF RealityIInv, RealityTypes
<1>4. ConfirmedKept'
  BY <1>0 DEF RealityIInv, RealityInv, ConfirmedKept
<1>5. Chores'
  <2> SUFFICES ASSUME NEW q \in Observer
               PROVE  ChoreOK(chore'[q], confirmed', suggestion')
    BY DEF Chores
  <2>1. CASE q = p
    BY <2>1, <1>0, <1>2
  <2>2. CASE q # p
    <3>1. chore[q] \in LogChore /\ ChoreOK(chore[q], confirmed, suggestion)
      BY <1>1 DEF RealityIInv, RealityInv, Chores
    <3>2. ChoreOK(chore[q], confirmed, suggestion')
      BY <3>1, ChoreMono
    <3> QED
      BY <2>2, <3>2, <1>0, <1>2
  <2> QED
    BY <2>1, <2>2
<1>6. DivergenceLines'
  <2> SUFFICES ASSUME LegibleLines(log["divergences"])
               PROVE  LinesOK(log["divergences"], confirmed, suggestion')
    BY <1>0 DEF DivergenceLines
  <2>1. LinesOK(log["divergences"], confirmed, suggestion)
    BY DEF RealityIInv, RealityInv, DivergenceLines
  <2> QED
    BY <2>1, LinesMono
<1>7. OpenedOnce'
  <2> SUFFICES ASSUME NEW q \in Observer, LegibleLines(log["divergences"]),
                      ~Stuck(chore'[q], log["observations"])
               PROVE  NoLineYet(chore'[q].todo, log["divergences"])
    BY <1>0 DEF OpenedOnce
  <2>1. CASE q = p
    BY <2>1, <1>2
  <2>2. CASE q # p
    BY <2>2, <1>2 DEF RealityIInv, RealityInv, OpenedOnce
  <2> QED
    BY <2>1, <2>2
<1>8. OpenedByOne'
  <2> SUFFICES ASSUME NEW q \in Observer, NEW r \in Observer, q # r,
                      ~Stuck(chore'[q], log["observations"]),
                      ~Stuck(chore'[r], log["observations"])
               PROVE  Apart(chore'[q].todo, chore'[r].todo)
    BY <1>0 DEF OpenedByOne
  <2>1. CASE q = p
    BY <2>1, <1>2
  <2>2. CASE r = p
    BY <2>2, <1>2
  <2>3. CASE q # p /\ r # p
    BY <2>3, <1>2 DEF RealityIInv, RealityInv, OpenedByOne
  <2> QED
    BY <2>1, <2>2, <2>3
<1> QED
  BY <1>3, <1>4, <1>5, <1>6, <1>7, <1>8 DEF RealityIInv, RealityInv

(* What a process that has observed something is to append.                *)
FreshTodo(todo, o) ==
    /\ todo \in Seq(LogEntry)
    /\ \E k \in DOMAIN todo :
          /\ todo[k].log = "observations" /\ todo[k].of = o
          /\ \A i \in DOMAIN todo : todo[i].log = "divergences" =>
                i = Len(todo) /\ k < i /\ todo[i].of = o /\ todo[i].line # "RESOLVED"

(* An observation is made under an identifier that nobody has used, unless *)
(* the observations cannot be read; then it is never written.              *)
LEMMA FreshChore ==
  ASSUME RealityIInv, NEW p \in Observer, NEW o \in Sighting, Unnoted(o),
         NEW todo, FreshTodo(todo, o), Undertake(p, todo, NoSuggestion),
         suggestion' \in [Suggestion -> {"NONE", "MADE", "ACCEPTED"}],
         \A s \in Suggestion : suggestion[s] = "ACCEPTED" => suggestion'[s] = "ACCEPTED"
  PROVE  RealityIInv'
<1> DEFINE c == [todo |-> todo, checked |-> FALSE, resolves |-> NoSuggestion]
<1>1. c \in LogChore /\ c.todo = todo /\ c.checked = FALSE /\ c.resolves = NoSuggestion
  BY DEF FreshTodo, LogChore
<1>2. chore' = [chore EXCEPT ![p] = c] /\ UNCHANGED <<log, confirmed>>
  BY DEF Undertake
<1> HIDE DEF c
<1>3. Later(confirmed, confirmed, suggestion, suggestion')
  BY DEF Later
<1>4. PICK k \in DOMAIN todo :
         /\ todo[k].log = "observations" /\ todo[k].of = o
         /\ \A i \in DOMAIN todo : todo[i].log = "divergences" =>
               i = Len(todo) /\ k < i /\ todo[i].of = o /\ todo[i].line # "RESOLVED"
  BY DEF FreshTodo
<1>41. /\ todo \in Seq(LogEntry)
       /\ \A j \in DOMAIN todo : j \in Nat /\ ~(j > Len(todo))
  BY DEF FreshTodo
<1>5. ChoreOK(c, confirmed, suggestion')
  <2>1. TodoOK(todo, confirmed, suggestion')
    BY <1>4, <1>41 DEF TodoOK, Accepted, Preceded
  <2> QED
    BY <2>1, <1>1 DEF ChoreOK
<1>6. CASE ~LegibleLines(log["observations"])
  <2>1. Stuck(c, log["observations"])
    BY <1>6, <1>4, <1>1 DEF Stuck
  <2> QED
    BY <2>1, <1>1, <1>2, <1>3, <1>5, ChoreChange
<1>7. CASE LegibleLines(log["observations"])
  <2>1. ~Observed(confirmed, o)
    <3>1. confirmed["observations"] \subseteq SoundLines(log["observations"])
      BY <1>7 DEF RealityIInv, RealityInv, ConfirmedKept, Log
    <3>2. SoundLines(log["observations"]) = Lines("observations")
      BY DEF SoundLines, Lines
    <3> QED
      BY <3>1, <3>2 DEF Observed, Unnoted
  <2>2. ASSUME NEW q \in Observer, NEW i \in DOMAIN chore[q].todo,
               chore[q].todo[i].log = "divergences"
        PROVE  chore[q].todo[i].of # o
    <3>1. Preceded(chore[q].todo, confirmed, i)
      BY <2>2 DEF RealityIInv, RealityInv, Chores, ChoreOK, TodoOK
    <3> QED
      BY <3>1, <2>1 DEF Preceded, Unnoted
  <2>3. LegibleLines(log["divergences"]) => NoLineYet(c.todo, log["divergences"])
    <3> SUFFICES ASSUME LegibleLines(log["divergences"]), NEW i \in DOMAIN todo, Opening(todo[i]),
                        NEW k2 \in DOMAIN log["divergences"]
                 PROVE  log["divergences"][k2].of # todo[i].of
      BY <1>1 DEF NoLineYet
    <3>1. Observed(confirmed, log["divergences"][k2].of)
      BY DEF RealityIInv, RealityInv, DivergenceLines, LinesOK
    <3>2. todo[i].of = o
      BY <1>4 DEF Opening
    <3> QED
      BY <3>1, <3>2, <2>1
  <2>4. \A q \in Observer \ {p} : Apart(c.todo, chore[q].todo) /\ Apart(chore[q].todo, c.todo)
    BY <2>2, <1>1, <1>4 DEF Apart, Opening
  <2> QED
    BY <2>3, <2>4, <1>1, <1>2, <1>3, <1>5, ChoreChange
<1> QED
  BY <1>6, <1>7

LEMMA ObserveRepositoryStep ==
  ASSUME RealityIInv, NEW p \in Observer, NEW o \in Sighting, NEW status \in Reported,
         NEW s \in Suggestion \cup {NoSuggestion}, ObserveRepository(p, o, status, s)
  PROVE  RealityIInv'
<1> DEFINE aud == AuditEvent("PROPOSED", s)
           obs == Observation(o, status)
           div == Divergence(o, IF s = NoSuggestion THEN "OPEN" ELSE "PROPOSED", s)
           todo == (IF s = NoSuggestion THEN <<>> ELSE <<aud>>)
                   \o <<obs>> \o (IF status = "MATCH" THEN <<>> ELSE <<div>>)
<1>1. Unnoted(o) /\ Undertake(p, todo, NoSuggestion)
  BY DEF ObserveRepository
<1>2. /\ s # NoSuggestion => aud \in LogEntry
      /\ obs \in LogEntry /\ obs.log = "observations" /\ obs.of = o
      /\ div \in LogEntry /\ div.of = o /\ div.line # "RESOLVED" /\ div.log = "divergences"
      /\ aud.log = "audit"
  BY RealityAssumption
     DEF AuditEvent, Observation, Divergence, LogEntry, AuditEntry, ObservationEntry, DivergenceEntry
<1> HIDE DEF aud, obs, div
<1>3. FreshTodo(todo, o)
  <2>1. CASE s = NoSuggestion /\ status = "MATCH"
    <3>1. todo \in Seq(LogEntry) /\ DOMAIN todo = {1} /\ todo[1] = obs
      BY <2>1, <1>2
    <3> HIDE DEF todo
    <3> QED
      BY <3>1, <1>2 DEF FreshTodo
  <2>2. CASE s = NoSuggestion /\ status # "MATCH"
    <3>1. todo \in Seq(LogEntry) /\ Len(todo) = 2 /\ DOMAIN todo = {1, 2} /\ todo[1] = obs /\ todo[2] = div
      BY <2>2, <1>2
    <3> HIDE DEF todo
    <3> QED
      BY <3>1, <1>2 DEF FreshTodo
  <2>3. CASE s # NoSuggestion /\ status = "MATCH"
    <3>1. todo \in Seq(LogEntry) /\ DOMAIN todo = {1, 2} /\ todo[1] = aud /\ todo[2] = obs
      BY <1>2, <2>3
    <3> HIDE DEF todo
    <3> QED
      BY <3>1, <1>2 DEF FreshTodo
  <2>4. CASE s # NoSuggestion /\ status # "MATCH"
    <3>1. /\ todo \in Seq(LogEntry) /\ Len(todo) = 3 /\ DOMAIN todo = {1, 2, 3}
          /\ todo[1] = aud /\ todo[2] = obs /\ todo[3] = div
      BY <1>2, <2>4
    <3> HIDE DEF todo
    <3> QED
      BY <3>1, <1>2 DEF FreshTodo
  <2> QED
    BY <2>1, <2>2, <2>3, <2>4
<1> HIDE DEF todo
<1>4. /\ suggestion' \in [Suggestion -> {"NONE", "MADE", "ACCEPTED"}]
      /\ \A x \in Suggestion : suggestion[x] = "ACCEPTED" => suggestion'[x] = "ACCEPTED"
  BY RealityAssumption DEF ObserveRepository, RealityIInv, RealityTypes
<1> QED
  BY <1>1, <1>3, <1>4, FreshChore

LEMMA ObserveAdapterStep ==
  ASSUME RealityIInv, NEW p \in Observer, NEW o \in Sighting, NEW status \in Reported,
         ObserveAdapter(p, o, status)
  PROVE  RealityIInv'
<1> DEFINE obs == Observation(o, status)
           div == Divergence(o, "OPEN", NoSuggestion)
           todo == <<obs>> \o (IF status = "MATCH" THEN <<>> ELSE <<div>>)
<1>1. Unnoted(o) /\ Undertake(p, todo, NoSuggestion)
  BY DEF ObserveAdapter
<1>2. /\ obs \in LogEntry /\ obs.log = "observations" /\ obs.of = o
      /\ div \in LogEntry /\ div.of = o /\ div.line # "RESOLVED" /\ div.log = "divergences"
  BY RealityAssumption
     DEF Observation, Divergence, LogEntry, ObservationEntry, DivergenceEntry
<1> HIDE DEF obs, div
<1>3. FreshTodo(todo, o)
  <2>1. CASE status = "MATCH"
    <3>1. todo \in Seq(LogEntry) /\ DOMAIN todo = {1} /\ todo[1] = obs
      BY <2>1, <1>2
    <3> HIDE DEF todo
    <3> QED
      BY <3>1, <1>2 DEF FreshTodo
  <2>2. CASE status # "MATCH"
    <3>1. todo \in Seq(LogEntry) /\ Len(todo) = 2 /\ DOMAIN todo = {1, 2} /\ todo[1] = obs /\ todo[2] = div
      BY <2>2, <1>2
    <3> HIDE DEF todo
    <3> QED
      BY <3>1, <1>2 DEF FreshTodo
  <2> QED
    BY <2>1, <2>2
<1> HIDE DEF todo
<1>4. suggestion' = suggestion /\ suggestion \in [Suggestion -> {"NONE", "MADE", "ACCEPTED"}]
  BY DEF ObserveAdapter, RealityIInv, RealityTypes
<1> QED
  BY <1>1, <1>3, <1>4, FreshChore

LEMMA AdoptStep ==
  ASSUME RealityIInv, NEW p \in Observer, NEW s \in Suggestion, AdoptSuggestion(p, s)
  PROVE  RealityIInv'
<1> DEFINE aud == AuditEvent("ACCEPTED", s)
           c == [todo |-> <<aud>>, checked |-> FALSE, resolves |-> s]
<1>1. aud \in LogEntry /\ aud.log = "audit"
  BY DEF AuditEvent, LogEntry, AuditEntry
<1> HIDE DEF aud
<1>2. /\ c \in LogChore /\ c.checked = FALSE /\ c.resolves = s
      /\ c.todo = <<aud>> /\ DOMAIN c.todo = {1} /\ c.todo[1] = aud
  BY <1>1 DEF LogChore
<1>3. chore' = [chore EXCEPT ![p] = c] /\ UNCHANGED <<log, confirmed>>
  BY DEF AdoptSuggestion, Undertake, aud
<1> HIDE DEF c
<1>4. /\ suggestion' \in [Suggestion -> {"NONE", "MADE", "ACCEPTED"}]
      /\ suggestion'[s] = "ACCEPTED"
      /\ \A x \in Suggestion : suggestion[x] = "ACCEPTED" => suggestion'[x] = "ACCEPTED"
  BY DEF AdoptSuggestion, RealityIInv, RealityTypes
<1>5. Later(confirmed, confirmed, suggestion, suggestion')
  BY <1>4 DEF Later
<1>6. ChoreOK(c, confirmed, suggestion')
  BY <1>1, <1>2, <1>4 DEF ChoreOK, TodoOK
<1>7. NoLineYet(c.todo, log["divergences"])
  BY <1>1, <1>2 DEF NoLineYet, Opening
<1>8. \A q \in Observer : Apart(c.todo, chore[q].todo) /\ Apart(chore[q].todo, c.todo)
  BY <1>1, <1>2 DEF Apart, Opening
<1> QED
  BY <1>2, <1>3, <1>4, <1>5, <1>6, <1>7, <1>8, ChoreChange

LEMMA DoneFacts ==
  /\ Done \in LogChore
  /\ Done.todo = <<>> /\ DOMAIN Done.todo = {}
  /\ Done.checked = FALSE /\ Done.resolves = NoSuggestion
  /\ \A conf, sug : ChoreOK(Done, conf, sug)
  /\ \A lines : NoLineYet(Done.todo, lines)
  /\ \A todo : Apart(Done.todo, todo) /\ Apart(todo, Done.todo)
<1>1. /\ Done \in LogChore
      /\ Done.todo = <<>> /\ DOMAIN Done.todo = {}
      /\ Done.checked = FALSE /\ Done.resolves = NoSuggestion
  BY DEF Done, LogChore
<1> QED
  BY <1>1 DEF ChoreOK, TodoOK, NoLineYet, Apart

LEMMA LeaveOffStep ==
  ASSUME RealityIInv, NEW p \in Observer, LeaveOff(p)
  PROVE  RealityIInv'
<1>1. /\ chore' = [chore EXCEPT ![p] = Done] /\ UNCHANGED <<log, confirmed>>
      /\ suggestion' = suggestion
  BY DEF LeaveOff
<1>2. /\ Later(confirmed, confirmed, suggestion, suggestion')
      /\ suggestion' \in [Suggestion -> {"NONE", "MADE", "ACCEPTED"}]
  BY <1>1 DEF Later, RealityIInv, RealityTypes
<1> QED
  BY <1>1, <1>2, DoneFacts, ChoreChange

LEMMA CheckLogStep ==
  ASSUME RealityIInv, NEW p \in Observer, CheckLog(p)
  PROVE  RealityIInv'
<1> DEFINE c == [chore[p] EXCEPT !.checked = TRUE]
           b == chore[p]
<1>0. b \in LogChore
  BY DEF RealityIInv, RealityTypes
<1>1. /\ c \in LogChore /\ c.todo = b.todo /\ c.checked = TRUE /\ c.resolves = b.resolves
  BY <1>0 DEF LogChore
<1>2. /\ chore' = [chore EXCEPT ![p] = c] /\ UNCHANGED <<log, confirmed>>
      /\ suggestion' = suggestion
  BY DEF CheckLog
<1>3. b.todo # <<>> /\ b.checked = FALSE /\ Legible(Head(b.todo).log)
  BY <1>0 DEF CheckLog, LogChore
<1>31. b.todo \in Seq(LogEntry)
  BY <1>0 DEF LogChore
<1> HIDE DEF c, b
<1>4. /\ Later(confirmed, confirmed, suggestion, suggestion')
      /\ suggestion' \in [Suggestion -> {"NONE", "MADE", "ACCEPTED"}]
  BY <1>2 DEF Later, RealityIInv, RealityTypes
<1>5. ChoreOK(c, confirmed, suggestion')
  <2>1. ChoreOK(b, confirmed, suggestion)
    BY DEF RealityIInv, RealityInv, Chores, b
  <2> QED
    BY <2>1, <1>1, <1>2, <1>3 DEF ChoreOK
<1>6. Stuck(b, log["observations"]) => Stuck(c, log["observations"])
  <2> SUFFICES ASSUME ~LegibleLines(log["observations"]),
                      NEW i \in DOMAIN b.todo, b.todo[i].log = "observations"
               PROVE  i # 1
    BY <1>1 DEF Stuck
  <2>1. b.todo[1] = Head(b.todo)
    BY <1>3, <1>31
  <2> QED
    BY <2>1, <1>3 DEF Legible, LegibleLines
<1>7. LegibleLines(log["divergences"]) /\ ~Stuck(c, log["observations"])
        => NoLineYet(c.todo, log["divergences"])
  BY <1>6, <1>1 DEF RealityIInv, RealityInv, OpenedOnce, b
<1>8. \A q \in Observer \ {p} :
         ~Stuck(c, log["observations"]) /\ ~Stuck(chore[q], log["observations"])
           => Apart(c.todo, chore[q].todo) /\ Apart(chore[q].todo, c.todo)
  BY <1>6, <1>1 DEF RealityIInv, RealityInv, OpenedByOne, b
<1> QED
  BY <1>1, <1>2, <1>4, <1>5, <1>7, <1>8, ChoreChange

Resolutions(s) ==
    {[d EXCEPT !.line = "RESOLVED"] :
       d \in {x \in Divergences : x.proposal = s /\ x.line # "RESOLVED"}}

(* The resolutions of the divergences in a log are finitely many, and each *)
(* is about a line of the log.                                             *)
LEMMA ResolvedFacts ==
  ASSUME RealityIInv, Legible("divergences"), NEW s \in Suggestion
  PROVE  /\ Cardinality(Resolutions(s)) \in Nat
         /\ \A e \in Resolutions(s) :
               /\ e \in LogEntry /\ e.log = "divergences" /\ e.line = "RESOLVED" /\ e.proposal = s
               /\ \E i \in DOMAIN log["divergences"] : log["divergences"][i].of = e.of
<1> DEFINE lines == log["divergences"]
           unresolved == {x \in Divergences : x.proposal = s /\ x.line # "RESOLVED"}
           Sealed(d) == [d EXCEPT !.line = "RESOLVED"]
           I == {i \in DOMAIN lines : lines[i] \in unresolved}
           seal == [i \in I |-> Sealed(lines[i])]
           resolved == Resolutions(s)
<1>1. lines \in Seq(LogEntry \cup {Cut, Garbled})
  BY DEF RealityIInv, RealityTypes, Log
<1>2. \A i \in DOMAIN lines : lines[i] \in DivergenceEntry
  BY DEF RealityIInv, RealityInv, DivergenceLines, LinesOK, Legible, LegibleLines
<1>3. \A d \in unresolved : \E i \in DOMAIN lines : d = lines[i]
  BY DEF Divergences
<1>4. \A d \in DivergenceEntry :
         Sealed(d) \in DivergenceEntry /\ Sealed(d).line = "RESOLVED" /\ Sealed(d).of = d.of
         /\ Sealed(d).proposal = d.proposal /\ Sealed(d).log = "divergences"
  BY DEF DivergenceEntry
<1>5. \A e \in resolved : \E i \in I : e = Sealed(lines[i])
  BY <1>3 DEF Resolutions
<1>6. \A i \in I : Sealed(lines[i]) \in resolved
  BY DEF Resolutions
<1>7. \A i \in I : lines[i].proposal = s
  OBVIOUS
<1> HIDE DEF unresolved, Sealed, resolved
<1>8. ASSUME NEW e \in resolved
      PROVE  /\ e \in LogEntry /\ e.log = "divergences" /\ e.line = "RESOLVED" /\ e.proposal = s
             /\ \E i \in DOMAIN lines : lines[i].of = e.of
  <2>1. PICK i \in I : e = Sealed(lines[i])
    BY <1>5
  <2> QED
    BY <2>1, <1>2, <1>4, <1>7, EntryFacts
<1>9. IsFiniteSet(I)
  <2>1. Len(lines) \in Nat /\ I \subseteq 1 .. Len(lines)
    BY <1>1
  <2>2. \A n \in Nat : IsFiniteSet(1 .. n)
    BY FS_Interval
  <2> QED
    BY <2>1, <2>2, FS_Subset
<1>10. seal \in [I -> resolved] /\ \A e \in resolved : \E i \in I : seal[i] = e
  BY <1>5, <1>6
<1>11. seal \in Surjection(I, resolved)
  BY <1>10 DEF Surjection
<1> HIDE DEF seal, I
<1>12. IsFiniteSet(resolved)
  BY <1>9, <1>11, FS_Surjection
<1>13. Cardinality(resolved) \in Nat
  BY <1>12, FS_CardinalityType
<1> QED
  BY <1>8, <1>13 DEF resolved

LEMMA ResolveStep ==
  ASSUME RealityIInv, NEW p \in Observer, ResolveProposal(p)
  PROVE  RealityIInv'
<1> DEFINE s == chore[p].resolves
           resolved == Resolutions(s)
<1>1. s # NoSuggestion /\ Legible("divergences")
  BY DEF ResolveProposal
<1>2. PICK todo \in [1 .. Cardinality(resolved) -> resolved] :
         chore' = [chore EXCEPT ![p] = [Done EXCEPT !.todo = todo]]
  BY DEF ResolveProposal, Resolutions
<1>3. UNCHANGED <<log, confirmed, suggestion>>
  BY DEF ResolveProposal
<1>4. s \in Suggestion /\ suggestion[s] = "ACCEPTED"
  <2>1. chore[p] \in LogChore
    BY DEF RealityIInv, RealityTypes
  <2> QED
    BY <2>1, <1>1 DEF LogChore, RealityIInv, RealityInv, Chores, ChoreOK
<1>5. /\ Cardinality(resolved) \in Nat
      /\ \A e \in resolved :
            /\ e \in LogEntry /\ e.log = "divergences" /\ e.line = "RESOLVED" /\ e.proposal = s
            /\ \E i \in DOMAIN log["divergences"] : log["divergences"][i].of = e.of
  BY <1>1, <1>4, ResolvedFacts
<1> HIDE DEF resolved, s
<1> DEFINE c == [Done EXCEPT !.todo = todo]
<1>6. /\ todo \in Seq(LogEntry)
      /\ \A i \in DOMAIN todo :
            /\ todo[i].log = "divergences" /\ todo[i].line = "RESOLVED" /\ todo[i].proposal = s
            /\ \E k \in DOMAIN log["divergences"] : log["divergences"][k].of = todo[i].of
  <2>1. \A i \in 1 .. Cardinality(resolved) : todo[i] \in resolved /\ todo[i] \in LogEntry
    BY <1>5
  <2>2. DOMAIN todo = 1 .. Cardinality(resolved)
    OBVIOUS
  <2>3. todo \in [1 .. Cardinality(resolved) -> LogEntry]
    BY <2>1, <2>2
  <2>4. todo \in Seq(LogEntry)
    BY <2>3, <1>5
  <2> QED
    BY <2>1, <2>2, <2>4, <1>5
<1>7. c \in LogChore /\ c.todo = todo /\ c.checked = FALSE /\ c.resolves = NoSuggestion
  BY <1>6 DEF Done, LogChore
<1>8. chore' = [chore EXCEPT ![p] = c]
  BY <1>2
<1> HIDE DEF c
<1>9. /\ Later(confirmed, confirmed, suggestion, suggestion')
      /\ suggestion' \in [Suggestion -> {"NONE", "MADE", "ACCEPTED"}]
  BY <1>3 DEF Later, RealityIInv, RealityTypes
<1>10. LegibleLines(log["divergences"])
  BY <1>1 DEF Legible, LegibleLines
<1>11. ChoreOK(c, confirmed, suggestion')
  <2>1. \A i \in DOMAIN todo : Observed(confirmed, todo[i].of)
    BY <1>6, <1>10 DEF RealityIInv, RealityInv, DivergenceLines, LinesOK
  <2>2. TodoOK(todo, confirmed, suggestion')
    BY <2>1, <1>3, <1>4, <1>6 DEF TodoOK, Accepted, Preceded
  <2> QED
    BY <2>2, <1>7 DEF ChoreOK
<1>12. NoLineYet(c.todo, log["divergences"])
  BY <1>6, <1>7 DEF NoLineYet, Opening
<1>13. ASSUME NEW q \in Observer, ~Stuck(chore[q], log["observations"])
       PROVE  Apart(c.todo, chore[q].todo) /\ Apart(chore[q].todo, c.todo)
  <2>1. NoLineYet(chore[q].todo, log["divergences"])
    BY <1>10, <1>13 DEF RealityIInv, RealityInv, OpenedOnce
  <2>2. Apart(c.todo, chore[q].todo)
    BY <1>6, <1>7 DEF Apart, Opening
  <2>3. Apart(chore[q].todo, c.todo)
    BY <2>1, <1>6, <1>7 DEF Apart, NoLineYet
  <2> QED
    BY <2>2, <2>3
<1> QED
  BY <1>3, <1>7, <1>8, <1>9, <1>11, <1>12, <1>13, ChoreChange

(* A process writes a line, or a part of it.  It has refused a log that    *)
(* could not be read, and what others are to append is none the closer.    *)
LEMMA AppendPartStep ==
  ASSUME RealityIInv, NEW p \in Observer, AppendPart(p)
  PROVE  RealityIInv'
<1> DEFINE b == chore[p]
           f == Head(b.todo).log
           m == Appended(f, Cut)
<1>0. log \in [Log -> Seq(LogEntry \cup {Cut, Garbled})] /\ chore \in [Observer -> LogChore]
  BY DEF RealityIInv, RealityTypes
<1>1. /\ log' = [log EXCEPT ![f] = m] /\ chore' = [chore EXCEPT ![p] = Done]
      /\ confirmed' = confirmed /\ suggestion' = suggestion /\ b.checked = TRUE
  BY <1>0 DEF AppendPart, LogChore
<1>2. f \in Log
  <2>1. b.todo \in Seq(LogEntry) /\ b.todo # <<>>
    BY <1>0, <1>1 DEF LogChore, RealityIInv, RealityInv, Chores, ChoreOK
  <2>2. Head(b.todo) \in LogEntry
    BY <2>1
  <2> QED
    BY <2>2, EntryFacts
<1> HIDE DEF f
<1>3. m \in Seq(LogEntry \cup {Cut, Garbled}) /\ ~LegibleLines(m)
  <2>1. log[f] \in Seq(LogEntry \cup {Cut, Garbled})
    BY <1>0, <1>2
  <2> QED
    BY <2>1, WriteFacts
<1> HIDE DEF m
<1>4. /\ log' \in [Log -> Seq(LogEntry \cup {Cut, Garbled})] /\ log'[f] = m
      /\ \A g \in Log : g # f => log'[g] = log[g]
  BY <1>0, <1>1, <1>2, <1>3
<1>5. \A g \in Log : LegibleLines(log'[g]) => log'[g] = log[g]
  BY <1>3, <1>4
<1>6. /\ chore' \in [Observer -> LogChore] /\ chore'[p] = Done
      /\ \A q \in Observer : q # p => chore'[q] = chore[q]
  BY <1>0, <1>1, DoneFacts
<1>7. \A q \in Observer : Stuck(chore[q], log["observations"]) => Stuck(chore[q], log'["observations"])
  BY <1>5 DEF Stuck, Log
<1>8. RealityTypes'
  BY <1>1, <1>4, <1>6 DEF RealityIInv, RealityTypes
<1>9. ConfirmedKept'
  BY <1>1, <1>5 DEF RealityIInv, RealityInv, ConfirmedKept
<1>10. Chores'
  BY <1>1, <1>6, DoneFacts DEF RealityIInv, RealityInv, Chores
<1>11. DivergenceLines'
  BY <1>1, <1>5 DEF RealityIInv, RealityInv, DivergenceLines, Log
<1>12. OpenedOnce'
  <2> SUFFICES ASSUME NEW q \in Observer, LegibleLines(log'["divergences"]),
                      ~Stuck(chore'[q], log'["observations"])
               PROVE  NoLineYet(chore'[q].todo, log'["divergences"])
    BY DEF OpenedOnce
  <2>1. log'["divergences"] = log["divergences"]
    BY <1>5 DEF Log
  <2>2. CASE q = p
    BY <2>2, <1>6, DoneFacts
  <2>3. CASE q # p
    BY <2>1, <2>3, <1>6, <1>7 DEF RealityIInv, RealityInv, OpenedOnce
  <2> QED
    BY <2>2, <2>3
<1>13. OpenedByOne'
  <2> SUFFICES ASSUME NEW q \in Observer, NEW r \in Observer, q # r,
                      ~Stuck(chore'[q], log'["observations"]),
                      ~Stuck(chore'[r], log'["observations"])
               PROVE  Apart(chore'[q].todo, chore'[r].todo)
    BY DEF OpenedByOne
  <2>1. CASE q = p \/ r = p
    BY <2>1, <1>6, DoneFacts
  <2>2. CASE q # p /\ r # p
    BY <2>2, <1>6, <1>7 DEF RealityIInv, RealityInv, OpenedByOne
  <2> QED
    BY <2>1, <2>2
<1> QED
  BY <1>8, <1>9, <1>10, <1>11, <1>12, <1>13 DEF RealityIInv, RealityInv

(* What is left of a chore when its first entry is written.                *)
LEMMA NextEntry ==
  ASSUME NEW todo \in Seq(LogEntry), todo # <<>>, NEW conf, NEW conf2, NEW sug,
         TodoOK(todo, conf, sug), conf["observations"] \subseteq conf2["observations"],
         todo[1].log = "observations" => todo[1] \in conf2["observations"]
  PROVE  TodoOK(Tail(todo), conf2, sug)
<1>1. TodoOK(todo, conf2, sug)
  BY TodoMono DEF Later
<1> DEFINE t == Tail(todo)
<1>2. /\ \A i \in DOMAIN t : i \in Nat /\ i + 1 \in DOMAIN todo /\ t[i] = todo[i + 1]
      /\ \A i \in DOMAIN todo : i \in Nat /\ (i # 1 => i - 1 \in DOMAIN t /\ todo[i] = t[i - 1])
  BY TailFacts
<1> HIDE DEF t
<1> SUFFICES TodoOK(t, conf2, sug)
  BY DEF t
<1>3. ASSUME NEW i \in DOMAIN t, t[i].log = "divergences"
      PROVE  Preceded(t, conf2, i)
  <2>1. i \in Nat /\ i + 1 \in DOMAIN todo /\ t[i] = todo[i + 1]
    BY <1>2
  <2>2. Preceded(todo, conf2, i + 1)
    BY <2>1, <1>1, <1>3 DEF TodoOK
  <2>3. CASE Observed(conf2, todo[i + 1].of)
    BY <2>1, <2>3 DEF Preceded
  <2>4. ASSUME NEW j \in DOMAIN todo, j < i + 1, todo[j].log = "observations",
               todo[j].of = todo[i + 1].of
        PROVE  Preceded(t, conf2, i)
    <3>1. CASE j = 1
      BY <3>1, <2>1, <2>4 DEF Preceded, Observed
    <3>2. CASE j # 1
      <4>1. j \in Nat /\ j - 1 \in DOMAIN t /\ t[j - 1] = todo[j]
        BY <3>2, <1>2
      <4>2. j - 1 < i
        BY <4>1, <2>1, <2>4
      <4> QED
        BY <4>1, <4>2, <2>1, <2>4 DEF Preceded
    <3> QED
      BY <3>1, <3>2
  <2> QED
    BY <2>2, <2>3, <2>4 DEF Preceded
<1>4. ASSUME NEW i \in DOMAIN t, t[i].log = "divergences"
      PROVE  /\ Accepted(t[i], sug)
             /\ \A j \in DOMAIN t : j > i =>
                   t[j].log = "divergences" /\ t[i].line = "RESOLVED" /\ t[j].line = "RESOLVED"
  BY <1>1, <1>2, <1>4 DEF TodoOK
<1> QED
  BY <1>3, <1>4 DEF TodoOK

(* A divergence is written behind the others: it is open only when nothing *)
(* was written about it.                                                   *)
LEMMA LinesAppended ==
  ASSUME NEW T, NEW l \in Seq(T), NEW e \in DivergenceEntry, e \in T, NEW conf, NEW sug,
         LinesOK(l, conf, sug), Accepted(e, sug), Observed(conf, e.of),
         Opening(e) => \A k \in DOMAIN l : l[k].of # e.of
  PROVE  LinesOK(Append(l, e), conf, sug)
<1> DEFINE m == Append(l, e)
           n == Len(l) + 1
<1>1. /\ DOMAIN m = DOMAIN l \cup {n} /\ m[n] = e
      /\ \A i \in DOMAIN l : m[i] = l[i] /\ i < n /\ i \in Nat
      /\ n \in Nat
  BY AppendFacts
<1>2. e.log = "divergences"
  BY DEF DivergenceEntry
<1> HIDE DEF m, n
<1>3. ASSUME NEW i \in DOMAIN m
      PROVE  m[i] \in DivergenceEntry /\ Accepted(m[i], sug) /\ Observed(conf, m[i].of)
  BY <1>1 DEF LinesOK
<1>4. ASSUME NEW i \in DOMAIN m, NEW j \in DOMAIN m, j > i, m[i].line = "RESOLVED", m[j].of = m[i].of
      PROVE  m[j].line = "RESOLVED"
  <2>1. i \in DOMAIN l /\ m[i] = l[i]
    BY <1>1, <1>4
  <2>2. CASE j \in DOMAIN l
    BY <2>1, <2>2, <1>1, <1>4 DEF LinesOK
  <2>3. CASE j = n
    BY <2>1, <2>3, <1>1, <1>2, <1>4 DEF Opening
  <2> QED
    BY <2>2, <2>3, <1>1
<1>5. LinesOK(m, conf, sug)
  BY <1>3, <1>4 DEF LinesOK
<1> QED
  BY <1>5 DEF m

LEMMA AppendLineStep ==
  ASSUME RealityIInv, NEW p \in Observer, AppendLine(p)
  PROVE  RealityIInv'
<1> DEFINE b == chore[p]
           entry == Head(b.todo)
           f == entry.log
           line == IF CutOffTail(f) THEN Garbled ELSE entry
           m == Appended(f, line)
           c == [b EXCEPT !.todo = Tail(b.todo), !.checked = FALSE]
           obs == log["observations"]
           div == log["divergences"]
<1>0. /\ log \in [Log -> Seq(LogEntry \cup {Cut, Garbled})] /\ b \in LogChore
      /\ chore \in [Observer -> LogChore] /\ confirmed \in [Log -> SUBSET LogEntry]
  BY DEF RealityIInv, RealityTypes
<1>1. /\ log' = [log EXCEPT ![f] = m] /\ chore' = [chore EXCEPT ![p] = c]
      /\ confirmed' = [confirmed EXCEPT ![f] = confirmed[f] \cup {entry}]
      /\ suggestion' = suggestion /\ b.checked = TRUE
  BY <1>0 DEF AppendLine, LogChore
<1>2. ChoreOK(b, confirmed, suggestion) /\ b.todo \in Seq(LogEntry) /\ b.todo # <<>>
  BY <1>0, <1>1 DEF LogChore, RealityIInv, RealityInv, Chores, ChoreOK
<1>3. /\ Tail(b.todo) \in Seq(LogEntry)
      /\ \A i \in DOMAIN Tail(b.todo) :
            i \in Nat /\ i + 1 \in DOMAIN b.todo /\ i + 1 > 1 /\ Tail(b.todo)[i] = b.todo[i + 1]
      /\ \A i \in DOMAIN b.todo :
            i \in Nat /\ (i # 1 => i - 1 \in DOMAIN Tail(b.todo) /\ b.todo[i] = Tail(b.todo)[i - 1])
      /\ 1 \in DOMAIN b.todo /\ b.todo[1] = entry /\ entry \in LogEntry
  BY <1>2, TailFacts
<1>4. /\ c \in LogChore /\ c.todo = Tail(b.todo) /\ c.checked = FALSE /\ c.resolves = b.resolves
  BY <1>0, <1>3 DEF LogChore
<1>5. f \in Log /\ entry \notin {Cut, Garbled}
  BY <1>3, EntryFacts
<1>6. /\ m \in Seq(LogEntry \cup {Cut, Garbled})
      /\ LegibleLines(m) => m = Append(log[f], entry) /\ LegibleLines(log[f])
  <2>1. /\ log[f] \in Seq(LogEntry \cup {Cut, Garbled}) /\ line \in LogEntry \cup {Cut, Garbled}
        /\ CutOffTail(f) => line \in {Cut, Garbled}
    BY <1>0, <1>3, <1>5
  <2>2. line \notin {Cut, Garbled} => line = entry
    OBVIOUS
  <2> HIDE DEF line, f
  <2> QED
    BY <2>1, <2>2, WriteFacts
<1> HIDE DEF m, c, line
<1>7. /\ log' \in [Log -> Seq(LogEntry \cup {Cut, Garbled})] /\ log'[f] = m
      /\ \A g \in Log : g # f => log'[g] = log[g]
  BY <1>0, <1>1, <1>5, <1>6
<1>8. \A g \in Log : LegibleLines(log'[g]) => LegibleLines(log[g])
  BY <1>6, <1>7
<1>9. /\ confirmed' \in [Log -> SUBSET LogEntry]
      /\ confirmed'[f] = confirmed[f] \cup {entry}
      /\ \A g \in Log : g # f => confirmed'[g] = confirmed[g]
  BY <1>0, <1>1, <1>3, <1>5
<1>10. /\ chore' \in [Observer -> LogChore] /\ chore'[p] = c
       /\ \A q \in Observer : q # p => chore'[q] = chore[q]
  BY <1>0, <1>1, <1>4
<1>11. confirmed["observations"] \subseteq confirmed'["observations"]
  BY <1>9 DEF Log
<1>12. Later(confirmed, confirmed', suggestion, suggestion')
  BY <1>1, <1>11 DEF Later
<1>13. \A q \in Observer : Stuck(chore[q], obs) => Stuck(chore'[q], log'["observations"])
  <2>1. ~LegibleLines(obs) => ~LegibleLines(log'["observations"])
    BY <1>8 DEF Log
  <2>2. ASSUME Stuck(b, obs) PROVE Stuck(c, log'["observations"])
    <3>1. PICK i \in DOMAIN b.todo : b.todo[i].log = "observations" /\ i # 1
      BY <2>2, <1>1 DEF Stuck
    <3>2. i - 1 \in DOMAIN c.todo /\ c.todo[i - 1].log = "observations"
      BY <3>1, <1>3, <1>4
    <3> QED
      BY <3>2, <2>1, <2>2, <1>4 DEF Stuck
  <2>3. \A q \in Observer : q # p => (Stuck(chore[q], obs) => Stuck(chore[q], log'["observations"]))
    BY <2>1 DEF Stuck
  <2> QED
    BY <2>2, <2>3, <1>10
<1>14. f = "divergences" => ~Stuck(b, obs)
  BY <1>2, <1>3 DEF ChoreOK, TodoOK, Stuck
<1>15. RealityTypes'
  BY <1>1, <1>7, <1>9, <1>10 DEF RealityIInv, RealityTypes
<1>16. ConfirmedKept'
  <2> SUFFICES ASSUME NEW g \in Log, LegibleLines(log'[g])
               PROVE  confirmed'[g] \subseteq SoundLines(log'[g])
    BY DEF ConfirmedKept
  <2>1. confirmed[g] \subseteq SoundLines(log[g])
    BY <1>8 DEF RealityIInv, RealityInv, ConfirmedKept
  <2>2. CASE g # f
    BY <2>1, <2>2, <1>7, <1>9
  <2>3. CASE g = f
    <3>1. log'[g] = Append(log[g], entry) /\ log[g] \in Seq(LogEntry \cup {Cut, Garbled})
      BY <2>3, <1>0, <1>6, <1>7
    <3>2. SoundLines(log[g]) \cup {entry} \subseteq SoundLines(Append(log[g], entry))
      <4>1. /\ DOMAIN Append(log[g], entry) = DOMAIN log[g] \cup {Len(log[g]) + 1}
            /\ Append(log[g], entry)[Len(log[g]) + 1] = entry
            /\ \A i \in DOMAIN log[g] : Append(log[g], entry)[i] = log[g][i]
        BY <3>1, <1>3, AppendFacts
      <4> QED
        BY <4>1, <1>5 DEF SoundLines
    <3> QED
      BY <3>1, <3>2, <2>1, <2>3, <1>9
  <2> QED
    BY <2>2, <2>3
<1>17. Chores'
  <2> SUFFICES ASSUME NEW q \in Observer
               PROVE  ChoreOK(chore'[q], confirmed', suggestion')
    BY DEF Chores
  <2>1. CASE q = p
    <3>1. b.todo[1].log = "observations" => b.todo[1] \in confirmed'["observations"]
      BY <1>3, <1>9
    <3>2. TodoOK(b.todo, confirmed, suggestion)
      BY <1>2 DEF ChoreOK
    <3>3. TodoOK(Tail(b.todo), confirmed', suggestion)
      BY <3>1, <3>2, <1>2, <1>11, NextEntry
    <3> QED
      BY <3>3, <2>1, <1>1, <1>2, <1>4, <1>10 DEF ChoreOK
  <2>2. CASE q # p
    <3>1. chore[q] \in LogChore /\ ChoreOK(chore[q], confirmed, suggestion)
      BY <1>0 DEF RealityIInv, RealityInv, Chores
    <3> QED
      BY <3>1, <2>2, <1>10, <1>12, ChoreMono
  <2> QED
    BY <2>1, <2>2
<1>18. LegibleLines(log'["divergences"]) => LinesOK(div, confirmed', suggestion')
  <2>1. LegibleLines(log'["divergences"]) => LinesOK(div, confirmed, suggestion)
    BY <1>8 DEF RealityIInv, RealityInv, DivergenceLines, Log
  <2> QED
    BY <2>1, <1>12, LinesMono
<1>19. LegibleLines(log'["divergences"]) =>
         \/ f # "divergences" /\ log'["divergences"] = div
         \/ /\ f = "divergences" /\ LegibleLines(div)
            /\ log'["divergences"] = Append(div, entry)
  BY <1>6, <1>7 DEF Log
<1>20. f = "divergences" => /\ entry \in DivergenceEntry
                            /\ DOMAIN Append(div, entry) = DOMAIN div \cup {Len(div) + 1}
                            /\ Append(div, entry)[Len(div) + 1] = entry
                            /\ \A i \in DOMAIN div :
                                  Append(div, entry)[i] = div[i] /\ i < Len(div) + 1 /\ i \in Nat
                            /\ Len(div) \in Nat
  <2>1. div \in Seq(LogEntry \cup {Cut, Garbled}) /\ entry \in LogEntry \cup {Cut, Garbled}
    BY <1>0, <1>3 DEF Log
  <2> QED
    BY <2>1, <1>3, AppendFacts, EntryFacts
<1>21. f = "divergences" => Accepted(entry, suggestion) /\ Observed(confirmed, entry.of)
  <2> SUFFICES ASSUME f = "divergences"
               PROVE  Accepted(entry, suggestion) /\ Observed(confirmed, entry.of)
    OBVIOUS
  <2>1. Accepted(b.todo[1], suggestion) /\ Preceded(b.todo, confirmed, 1)
    BY <1>2, <1>3 DEF ChoreOK, TodoOK
  <2>2. \A j \in DOMAIN b.todo : ~(j < 1)
    BY <1>2
  <2> QED
    BY <2>1, <2>2, <1>3 DEF Preceded
<1>22. DivergenceLines'
  <2> SUFFICES ASSUME LegibleLines(log'["divergences"])
               PROVE  LinesOK(log'["divergences"], confirmed', suggestion')
    BY DEF DivergenceLines
  <2>1. CASE f # "divergences" /\ log'["divergences"] = div
    BY <2>1, <1>18
  <2>2. CASE f = "divergences" /\ LegibleLines(div) /\ log'["divergences"] = Append(div, entry)
    <3>1. Opening(entry) => \A k \in DOMAIN div : div[k].of # entry.of
      <4>1. NoLineYet(b.todo, div)
        BY <2>2, <1>14 DEF RealityIInv, RealityInv, OpenedOnce
      <4> QED
        BY <4>1, <1>3 DEF NoLineYet
    <3>2. Accepted(entry, suggestion') /\ Observed(confirmed', entry.of)
      BY <2>2, <1>1, <1>11, <1>21 DEF Observed
    <3>3. LinesOK(div, confirmed', suggestion')
      BY <1>18
    <3>4. LinesOK(Append(div, entry), confirmed', suggestion')
      <4>1. div \in Seq(LogEntry \cup {Cut, Garbled}) /\ entry \in LogEntry \cup {Cut, Garbled}
        BY <1>0, <1>3 DEF Log
      <4>2. entry \in DivergenceEntry
        BY <2>2, <1>20
      <4> HIDE DEF div, entry
      <4> QED
        BY <4>1, <4>2, <3>1, <3>2, <3>3, LinesAppended
    <3> QED
      BY <3>4, <2>2
  <2> QED
    BY <2>1, <2>2, <1>19
<1>23. ASSUME NEW q \in Observer, NEW i \in DOMAIN chore'[q].todo
        PROVE  \E h \in DOMAIN chore[q].todo : /\ chore[q].todo[h] = chore'[q].todo[i]
                                               /\ q = p => h > 1
  <2>1. CASE q = p
    <3>1. i \in DOMAIN Tail(b.todo) /\ chore'[q].todo[i] = Tail(b.todo)[i]
      BY <2>1, <1>4, <1>10, <1>23
    <3>2. i + 1 \in DOMAIN b.todo /\ i + 1 > 1 /\ Tail(b.todo)[i] = b.todo[i + 1]
      BY <3>1, <1>3
    <3> QED
      BY <3>1, <3>2, <2>1
  <2>2. CASE q # p
    BY <2>2, <1>10, <1>23
  <2> QED
    BY <2>1, <2>2
<1>24. OpenedOnce'
  <2> SUFFICES ASSUME NEW q \in Observer, LegibleLines(log'["divergences"]),
                      ~Stuck(chore'[q], log'["observations"]),
                      NEW i \in DOMAIN chore'[q].todo, Opening(chore'[q].todo[i]),
                      NEW k \in DOMAIN log'["divergences"]
               PROVE  log'["divergences"][k].of # chore'[q].todo[i].of
    BY DEF OpenedOnce, NoLineYet
  <2>1. NoLineYet(chore[q].todo, div)
    BY <1>8, <1>13 DEF RealityIInv, RealityInv, OpenedOnce, Log
  <2>2. PICK h \in DOMAIN chore[q].todo : /\ chore[q].todo[h] = chore'[q].todo[i]
                                          /\ q = p => h > 1
    BY <1>23
  <2>3. CASE k \in DOMAIN div /\ log'["divergences"][k] = div[k]
    BY <2>1, <2>2, <2>3 DEF NoLineYet
  <2>4. CASE f = "divergences" /\ log'["divergences"][k] = entry
    <3>1. CASE q = p
      BY <3>1, <2>2, <2>4, <1>2, <1>3 DEF ChoreOK, TodoOK, Opening
    <3>2. CASE q # p
      <4>1. ~Stuck(chore[q], obs) /\ ~Stuck(b, obs)
        BY <2>4, <1>13, <1>14
      <4>2. Apart(chore[q].todo, b.todo)
        BY <4>1, <3>2 DEF RealityIInv, RealityInv, OpenedByOne
      <4> QED
        BY <4>2, <2>2, <2>4, <1>3 DEF Apart
    <3> QED
      BY <3>1, <3>2
  <2> QED
    BY <2>3, <2>4, <1>19, <1>20
<1>25. OpenedByOne'
  <2> SUFFICES ASSUME NEW q \in Observer, NEW r \in Observer, q # r,
                      ~Stuck(chore'[q], log'["observations"]),
                      ~Stuck(chore'[r], log'["observations"])
               PROVE  Apart(chore'[q].todo, chore'[r].todo)
    BY DEF OpenedByOne
  <2>1. Apart(chore[q].todo, chore[r].todo)
    BY <1>13 DEF RealityIInv, RealityInv, OpenedByOne
  <2>2. \A x \in Observer : \A i \in DOMAIN chore'[x].todo :
           \E h \in DOMAIN chore[x].todo : chore[x].todo[h] = chore'[x].todo[i]
    BY <1>23
  <2> QED
    BY <2>1, <2>2 DEF Apart
<1> QED
  BY <1>15, <1>16, <1>17, <1>22, <1>24, <1>25 DEF RealityIInv, RealityInv

(* What is proved of the logs says what the runs check.                    *)
LEMMA RealityInvImplies == RealityIInv => AppendedOrRefused
<1> SUFFICES ASSUME RealityIInv PROVE AppendedOrRefused
  OBVIOUS
<1>1. \A f \in Log : (Legible(f) <=> LegibleLines(log[f])) /\ Lines(f) = SoundLines(log[f])
  BY DEF Legible, LegibleLines, Lines, SoundLines
<1>2. \A f \in Log : Legible(f) => confirmed[f] \subseteq Lines(f)
  BY <1>1 DEF RealityIInv, RealityInv, ConfirmedKept
<1>3. ASSUME Legible("divergences"), NEW d \in Divergences
      PROVE  /\ d.of \in {e.of : e \in confirmed["observations"]}
             /\ d.line = "RESOLVED" => suggestion[d.proposal] = "ACCEPTED"
             /\ [d EXCEPT !.line = "RESOLVED"] \in confirmed["divergences"] => d.line = "RESOLVED"
  <2> DEFINE lines == log["divergences"]
  <2>1. LinesOK(lines, confirmed, suggestion)
    BY <1>1, <1>3 DEF RealityIInv, RealityInv, DivergenceLines, Log
  <2>2. \A i \in DOMAIN lines : lines[i] \in Lines("divergences")
    BY <1>3 DEF Legible, Lines
  <2>3. PICK i \in DOMAIN lines : /\ d = lines[i]
                                  /\ \A j \in DOMAIN lines : j > i => lines[j].of # d.of
    BY <2>2 DEF Divergences
  <2>4. /\ d \in DivergenceEntry /\ Accepted(d, suggestion) /\ Observed(confirmed, d.of)
    BY <2>1, <2>3 DEF LinesOK
  <2>5. ASSUME [d EXCEPT !.line = "RESOLVED"] \in confirmed["divergences"]
        PROVE  d.line = "RESOLVED"
    <3>1. [d EXCEPT !.line = "RESOLVED"] \in Lines("divergences")
      BY <2>5, <1>2, <1>3 DEF Log
    <3>2. PICK j \in DOMAIN lines : lines[j] = [d EXCEPT !.line = "RESOLVED"]
      BY <3>1 DEF Lines
    <3>3. lines[j].of = d.of /\ lines[j].line = "RESOLVED"
      BY <3>2, <2>4 DEF DivergenceEntry
    <3>4. i \in Nat /\ j \in Nat
      <4>1. lines \in Seq(LogEntry \cup {Cut, Garbled})
        BY DEF RealityIInv, RealityTypes, Log
      <4> QED
        BY <4>1
    <3>5. CASE i = j
      BY <3>3, <3>5, <2>3
    <3>6. CASE i > j
      BY <3>3, <3>6, <2>1, <2>3 DEF LinesOK
    <3> QED
      BY <3>3, <3>4, <3>5, <3>6, <2>3
  <2> QED
    BY <2>4, <2>5 DEF Accepted, Observed
<1> QED
  BY <1>2, <1>3 DEF AppendedOrRefused

(* Entries whose append has returned are in a log that can be read, each   *)
(* divergence is of an observation that was written, and one that was      *)
(* resolved stays so, however many processes append and are cut off.       *)
THEOREM NothingAppendedIsLost == RealitySpec => []AppendedOrRefused
<1>1. RealityInit => RealityIInv
  <2> SUFFICES ASSUME RealityInit PROVE RealityIInv
    OBVIOUS
  <2>1. \A p \in Observer : chore[p] = Done
    BY DEF RealityInit
  <2>2. \A f \in Log : log[f] = <<>> /\ confirmed[f] = {}
    BY DEF RealityInit
  <2>3. RealityTypes
    BY DoneFacts DEF RealityInit, RealityTypes
  <2>4. ConfirmedKept /\ DivergenceLines
    BY <2>2 DEF ConfirmedKept, DivergenceLines, LinesOK, Log
  <2>5. Chores /\ OpenedOnce /\ OpenedByOne
    BY <2>1, DoneFacts DEF Chores, OpenedOnce, OpenedByOne
  <2> QED
    BY <2>3, <2>4, <2>5 DEF RealityIInv, RealityInv
<1>2. RealityIInv /\ [RealityNext]_realityVars => RealityIInv'
  <2> SUFFICES ASSUME RealityIInv, [RealityNext]_realityVars PROVE RealityIInv'
    OBVIOUS
  <2>1. CASE UNCHANGED realityVars
    BY <2>1 DEF realityVars, RealityIInv, RealityInv, RealityTypes, ConfirmedKept, Chores, DivergenceLines,
                OpenedOnce, OpenedByOne
  <2>2. CASE RealityNext
    BY <2>2, ObserveRepositoryStep, ObserveAdapterStep, AdoptStep, ResolveStep, CheckLogStep,
       AppendLineStep, AppendPartStep, LeaveOffStep DEF RealityNext
  <2> QED
    BY <2>1, <2>2
<1> QED
  BY <1>1, <1>2, RealityInvImplies, PTL DEF RealitySpec

-----------------------------------------------------------------------------
(* Continuity.                                                             *)

Surface == [FileName -> Int]

Via == Route \cup {Primary, <<>>}

WalkRecord ==
    [kind : {"none", "route", "primary", "claude", "codex"}, via : Via, hop : Nat,
     step : {"none", "status", "list", "read"}, since : Nat, model : Int,
     source : FileName \cup {"none"}, state : Int, unread : SUBSET FileName,
     surface : Surface, route : Surface]

PastOK(states) == states \in Seq(Surface) /\ states # <<>>

Seen(states, from, to, f, content) == \E t \in from .. to : states[t][f] = content

(* The files of the hop before were read up to some moment, and those of   *)
(* this hop since then.                                                    *)
Between(w, states, m) ==
    /\ w.hop > 1 => \A f \in FileName : Seen(states, w.since, m, f, w.route[f])
    /\ w.step = "read" =>
          \A f \in FileName \ w.unread : Seen(states, m, Len(states), f, w.surface[f])

RouteOK(w, states) ==
    w.kind \in {"route", "primary"} =>
      /\ Len(w.via) >= 2 /\ w.hop \in 1 .. Len(w.via)
      /\ w.since \in 1 .. Len(states) /\ w.model = states[w.since]["model"]
      /\ \E m \in w.since .. Len(states) : Between(w, states, m)

ReportOK(r, states) ==
    /\ r.since \in Nat /\ r.since >= 1 /\ r.until \in r.since .. Len(states)
    /\ \A f \in FileName : Seen(states, r.since, r.until, f, r.surface[f])
    /\ NothingReturned(states, r.since, r.until) =>
          /\ \E k \in r.since .. r.until : states[k] = r.surface
          /\ r.surface["model"] = r.model

IntegrationsInv ==
    /\ PastOK(past)
    /\ walk \in WalkRecord /\ RouteOK(walk, past)
    /\ \A r \in reported : ReportOK(r, past)

LEMMA FileNameFacts ==
  /\ FileName = {"changeset", "model", "project", "status"}
  /\ NothingRead \in Surface
  /\ \A f \in FileName : NothingRead[f] = 0
<1>1. FileName = {"changeset", "model", "project", "status"}
  BY DEF FileName, SemanticFile
<1> QED
  BY <1>1 DEF NothingRead, NoContent, Surface

LEMMA ViaFacts == Primary \in Via /\ Route \subseteq Via /\ \A v \in Via : Len(v) \in Nat
<1>1. Len(Primary) \in Nat
  BY DEF Primary
<1> QED
  BY <1>1, IntegrationsAssumption DEF Via

LEMMA NotWalkingFacts ==
  NotWalking \in WalkRecord /\ NotWalking.kind = "none" /\ NotWalking.hop = 1
  BY FileNameFacts DEF NotWalking, WalkRecord, NoContent, Via

(* What the files hold now is what the last of the past states says.       *)
LEMMA NowFacts ==
  ASSUME PastOK(past)
  PROVE  /\ Len(past) \in Nat /\ Len(past) >= 1 /\ DOMAIN past = 1 .. Len(past)
         /\ Now = past[Len(past)] /\ Now \in Surface
         /\ ModelNow = past[Len(past)]["model"] /\ ModelNow \in Int
         /\ Now[StatusSource] \in Int /\ StatusSource \in FileName
<1>1. /\ Len(past) \in Nat /\ Len(past) >= 1 /\ DOMAIN past = 1 .. Len(past)
      /\ past[Len(past)] \in Surface
  BY DEF PastOK
<1>2. Now \in Surface /\ Now = past[Len(past)]
  BY <1>1 DEF Now
<1>3. StatusSource \in {"status", "model", "project"}
  BY DEF StatusSource
<1> QED
  BY <1>1, <1>2, <1>3, FileNameFacts DEF ModelNow, Surface

(* The states of the files grow, and nothing said of the past changes.     *)
LEMMA PastGrows ==
  ASSUME PastOK(past), NEW s \in Surface, past' = Append(past, s)
  PROVE  /\ \A w \in WalkRecord : RouteOK(w, past) => RouteOK(w, past')
         /\ \A r : ReportOK(r, past) => ReportOK(r, past')
<1>1. /\ Len(past) \in Nat /\ Len(past') = Len(past) + 1
      /\ \A k \in 1 .. Len(past) : past'[k] = past[k]
  BY DEF PastOK
<1>2. ASSUME NEW r, ReportOK(r, past) PROVE ReportOK(r, past')
  <2>1. /\ r.since \in Nat /\ r.since >= 1 /\ r.until \in r.since .. Len(past)
        /\ \A f \in FileName : Seen(past, r.since, r.until, f, r.surface[f])
        /\ NothingReturned(past, r.since, r.until) =>
              /\ \E k \in r.since .. r.until : past[k] = r.surface
              /\ r.surface["model"] = r.model
    BY <1>2 DEF ReportOK
  <2>2. \A k \in r.since .. r.until : past'[k] = past[k]
    BY <2>1, <1>1
  <2>3. r.until \in r.since .. Len(past')
    BY <2>1, <1>1
  <2>4. \A f \in FileName : Seen(past', r.since, r.until, f, r.surface[f])
    BY <2>1, <2>2 DEF Seen
  <2>5. NothingReturned(past', r.since, r.until) => NothingReturned(past, r.since, r.until)
    <3> SUFFICES ASSUME NothingReturned(past', r.since, r.until)
                 PROVE  NothingReturned(past, r.since, r.until)
      OBVIOUS
    <3>1. ASSUME NEW i \in r.since .. r.until, NEW j \in r.since .. r.until,
                 NEW k \in r.since .. r.until, NEW f \in FileName,
                 i <= j, j <= k, past[i][f] = past[k][f]
          PROVE  past[j][f] = past[i][f]
      <4>1. past'[i] = past[i] /\ past'[j] = past[j] /\ past'[k] = past[k]
        BY <2>2
      <4>2. past'[i][f] = past'[k][f] => past'[j][f] = past'[i][f]
        BY <3>1 DEF NothingReturned
      <4> QED
        BY <3>1, <4>1, <4>2
    <3> QED
      BY <3>1 DEF NothingReturned
  <2>6. NothingReturned(past', r.since, r.until) =>
          (\E k \in r.since .. r.until : past'[k] = r.surface) /\ r.surface["model"] = r.model
    BY <2>1, <2>2, <2>5
  <2> QED
    BY <2>1, <2>3, <2>4, <2>6 DEF ReportOK
<1>3. ASSUME NEW w \in WalkRecord, RouteOK(w, past), w.kind \in {"route", "primary"}
      PROVE  RouteOK(w, past')
  <2>1. /\ Len(w.via) >= 2 /\ w.hop \in 1 .. Len(w.via)
        /\ w.since \in 1 .. Len(past) /\ w.model = past[w.since]["model"]
    BY <1>3 DEF RouteOK
  <2>2. PICK m \in w.since .. Len(past) : Between(w, past, m)
    BY <1>3 DEF RouteOK
  <2>3. /\ w.since \in 1 .. Len(past') /\ w.model = past'[w.since]["model"]
        /\ m \in w.since .. Len(past') /\ m \in 1 .. Len(past)
    BY <2>1, <2>2, <1>1
  <2>4. ASSUME NEW f, NEW content, Seen(past, w.since, m, f, content)
        PROVE  Seen(past', w.since, m, f, content)
    BY <2>1, <2>3, <2>4, <1>1 DEF Seen
  <2>5. ASSUME NEW f, NEW content, Seen(past, m, Len(past), f, content)
        PROVE  Seen(past', m, Len(past'), f, content)
    BY <2>3, <2>5, <1>1 DEF Seen
  <2>6. Between(w, past', m)
    BY <2>2, <2>4, <2>5 DEF Between
  <2> QED
    BY <2>1, <2>3, <2>6 DEF RouteOK
<1>4. \A w \in WalkRecord : w.kind \notin {"route", "primary"} => RouteOK(w, past')
  BY DEF RouteOK
<1> QED
  BY <1>2, <1>3, <1>4

(* Others change a file, or bring its former contents back.                *)
LEMMA EditStep ==
  ASSUME IntegrationsInv, NEW f \in FileName, EditSemanticFile(f) \/ RemoveSemanticFile(f)
  PROVE  IntegrationsInv'
<1>1. PastOK(past) /\ walk \in WalkRecord /\ RouteOK(walk, past) /\ \A r \in reported : ReportOK(r, past)
  BY DEF IntegrationsInv
<1>2. Len(past) \in Nat /\ Now \in Surface /\ \A k \in DOMAIN past : past[k] \in Surface
  BY <1>1, NowFacts DEF PastOK
<1>3. \A c \in Former(f) : c \in Int
  BY <1>2 DEF Former, Surface
<1>4. PICK content \in Int : past' = Append(past, [Now EXCEPT ![f] = content])
  <2>1. CASE EditSemanticFile(f)
    <3>1. PICK content \in Former(f) \cup {Len(past) + 1, -(Len(past) + 1)} :
             past' = Append(past, [Now EXCEPT ![f] = content])
      BY <2>1 DEF EditSemanticFile
    <3>2. content \in Int
      BY <1>2, <1>3, <3>1
    <3> QED
      BY <3>1, <3>2
  <2>2. CASE RemoveSemanticFile(f)
    BY <2>2 DEF RemoveSemanticFile, NoContent
  <2> QED
    BY <2>1, <2>2
<1>5. [Now EXCEPT ![f] = content] \in Surface
  BY <1>2 DEF Surface
<1> DEFINE s == [Now EXCEPT ![f] = content]
<1> HIDE DEF s
<1>6. PastOK(past')
  <2>1. past' = Append(past, s) /\ s \in Surface
    BY <1>4, <1>5 DEF s
  <2> QED
    BY <1>1, <2>1 DEF PastOK
<1>7. /\ \A w \in WalkRecord : RouteOK(w, past) => RouteOK(w, past')
      /\ \A r : ReportOK(r, past) => ReportOK(r, past')
  BY <1>1, <1>4, <1>5, PastGrows
<1>8. UNCHANGED <<walk, reported>>
  BY DEF RemoveSemanticFile, EditSemanticFile
<1> QED
  BY <1>1, <1>6, <1>7, <1>8 DEF IntegrationsInv

(* A route that may start names two interfaces at least.                   *)
LEMMA RouteStarts ==
  ASSUME PastOK(past), NEW kind \in {"route", "primary"}, NEW r \in Via, NEW expected,
         RouteMayStart(r, expected), StartRoute(kind, r)
  PROVE  walk' \in WalkRecord /\ RouteOK(walk', past)
<1>1. /\ Len(past) \in Nat /\ Len(past) >= 1
      /\ ModelNow = past[Len(past)]["model"] /\ ModelNow \in Int
  BY NowFacts
<1>2. walk' = [NotWalking EXCEPT !.kind = kind, !.via = r, !.step = "status",
                                 !.since = Len(past), !.model = ModelNow]
  BY DEF StartRoute
<1>3. /\ walk' \in WalkRecord /\ walk'.via = r /\ walk'.hop = 1 /\ walk'.step = "status"
      /\ walk'.since = Len(past) /\ walk'.model = ModelNow
  BY <1>1, <1>2, NotWalkingFacts DEF WalkRecord
<1>4. Len(r) \in Nat /\ Len(r) >= 2
  BY ViaFacts DEF RouteMayStart, RouteIsLong
<1>5. Between(walk', past, Len(past))
  BY <1>3 DEF Between
<1>6. Len(past) \in Len(past) .. Len(past)
  BY <1>1
<1> QED
  BY <1>1, <1>3, <1>4, <1>5, <1>6 DEF RouteOK

LEMMA WalkEndsOK == ASSUME WalkEnds PROVE walk' \in WalkRecord /\ \A states : RouteOK(walk', states)
  BY NotWalkingFacts DEF WalkEnds, RouteOK

(* A file is read, or the status of the Project before the files.          *)
LEMMA ReadStep ==
  ASSUME PastOK(past), walk \in WalkRecord, RouteOK(walk, past),
         ReadStatus \/ ListSurface \/ \E f \in FileName : ReadSurface(f)
  PROVE  walk' \in WalkRecord /\ RouteOK(walk', past)
<1> DEFINE n == Len(past)
<1>0. /\ n \in Nat /\ n >= 1 /\ Now = past[n] /\ Now \in Surface
      /\ Now[StatusSource] \in Int /\ StatusSource \in FileName
  BY NowFacts
<1>1. CASE WalkEnds
  BY <1>1, WalkEndsOK
<1>2. ASSUME walk' \in WalkRecord,
             walk'.kind = walk.kind, walk'.via = walk.via, walk'.hop = walk.hop,
             walk'.since = walk.since, walk'.model = walk.model, walk'.route = walk.route,
             ASSUME NEW m \in walk.since .. n, walk.since >= 1, walk.since \in Nat, Between(walk, past, m),
                    walk'.step = "read", NEW f \in FileName \ walk'.unread
             PROVE  Seen(past, m, n, f, walk'.surface[f])
      PROVE  RouteOK(walk', past)
  <2> SUFFICES ASSUME walk.kind \in {"route", "primary"} PROVE RouteOK(walk', past)
    BY <1>2 DEF RouteOK
  <2>1. walk.since \in 1 .. n
    BY DEF RouteOK
  <2>2. PICK m \in walk.since .. n : Between(walk, past, m)
    BY DEF RouteOK
  <2>3. Between(walk', past, m)
    BY <2>1, <2>2, <1>2 DEF Between
  <2> QED
    BY <2>2, <2>3, <1>2 DEF RouteOK
<1>3. CASE ReadStatus /\ ~WalkEnds
  <2>1. walk' = [walk EXCEPT !.step = "list", !.source = StatusSource, !.state = Now[StatusSource]]
    BY <1>3 DEF ReadStatus
  <2>2. /\ walk' \in WalkRecord /\ walk'.step = "list"
        /\ walk'.kind = walk.kind /\ walk'.via = walk.via /\ walk'.hop = walk.hop
        /\ walk'.since = walk.since /\ walk'.model = walk.model /\ walk'.route = walk.route
    BY <2>1, <1>0 DEF WalkRecord
  <2> QED
    BY <2>2, <1>2
<1>4. CASE ListSurface
  <2> DEFINE u == {f \in FileName : Now[f] # NoContent}
  <2>1. walk' = [walk EXCEPT !.step = "read", !.surface = NothingRead, !.unread = u]
    BY <1>4 DEF ListSurface
  <2>2. /\ walk' \in WalkRecord /\ walk'.surface = NothingRead /\ walk'.unread = u
        /\ walk'.kind = walk.kind /\ walk'.via = walk.via /\ walk'.hop = walk.hop
        /\ walk'.since = walk.since /\ walk'.model = walk.model /\ walk'.route = walk.route
    <3>1. u \in SUBSET FileName
      OBVIOUS
    <3> HIDE DEF u
    <3> QED
      BY <3>1, <2>1, FileNameFacts DEF WalkRecord
  <2>3. ASSUME NEW m \in walk.since .. n, walk.since \in Nat, NEW f \in FileName \ walk'.unread
        PROVE  Seen(past, m, n, f, walk'.surface[f])
    <3>1. past[n][f] = walk'.surface[f]
      BY <2>2, <1>0, FileNameFacts DEF NoContent
    <3>2. n \in m .. n
      BY <2>3, <1>0
    <3> QED
      BY <3>1, <3>2 DEF Seen
  <2> QED
    BY <2>2, <2>3, <1>2
<1>5. ASSUME NEW g \in FileName, ReadSurface(g), ~WalkEnds
      PROVE  walk' \in WalkRecord /\ RouteOK(walk', past)
  <2> DEFINE sf == [walk.surface EXCEPT ![g] = Now[g]]
             u == walk.unread \ {g}
  <2>1. walk' = [walk EXCEPT !.surface = sf, !.unread = u] /\ walk.step = "read"
    BY <1>5 DEF ReadSurface
  <2>2. /\ sf \in Surface /\ sf[g] = Now[g] /\ u \in SUBSET FileName
        /\ \A f \in FileName : f # g => sf[f] = walk.surface[f]
    BY <1>0 DEF WalkRecord, Surface
  <2>3. \A f \in FileName : f \notin u /\ f # g => f \notin walk.unread
    OBVIOUS
  <2> HIDE DEF sf, u
  <2>4. /\ walk' \in WalkRecord /\ walk'.surface = sf /\ walk'.unread = u
        /\ walk'.kind = walk.kind /\ walk'.via = walk.via /\ walk'.hop = walk.hop
        /\ walk'.since = walk.since /\ walk'.model = walk.model /\ walk'.route = walk.route
    BY <2>1, <2>2 DEF WalkRecord
  <2>5. ASSUME NEW m \in walk.since .. n, walk.since \in Nat, Between(walk, past, m),
               NEW f \in FileName \ walk'.unread
        PROVE  Seen(past, m, n, f, walk'.surface[f])
    <3>1. CASE f = g
      <4>1. past[n][f] = walk'.surface[f]
        BY <3>1, <2>2, <2>4, <1>0
      <4>2. n \in m .. n
        BY <2>5, <1>0
      <4> QED
        BY <4>1, <4>2 DEF Seen
    <3>2. CASE f # g
      BY <3>2, <2>1, <2>2, <2>3, <2>4, <2>5 DEF Between
    <3> QED
      BY <3>1, <3>2
  <2> QED
    BY <2>4, <2>5, <1>2
<1> QED
  BY <1>1, <1>3, <1>4, <1>5

(* A hop that holds has read what its predecessor read, so there was a     *)
(* moment between the two when all of it was there, unless something was   *)
(* changed and changed back.                                               *)
LEMMA HopIsASnapshot ==
  ASSUME PastOK(past), walk \in WalkRecord, RouteOK(walk, past),
         walk.kind \in {"route", "primary"}, walk.step = "read", walk.unread = {}, HopHolds
  PROVE  /\ walk.since \in 1 .. Len(past)
         /\ \A f \in FileName : Seen(past, walk.since, Len(past), f, walk.surface[f])
         /\ NothingReturned(past, walk.since, Len(past)) =>
               /\ walk.surface["model"] = walk.model
               /\ walk.hop > 1 => \E k \in walk.since .. Len(past) : past[k] = walk.surface
<1> DEFINE n == Len(past)
<1>0. /\ n \in Nat /\ n >= 1 /\ DOMAIN past = 1 .. n
      /\ ModelNow = past[n]["model"]
  BY NowFacts
<1>1. walk.since \in 1 .. n /\ walk.model = past[walk.since]["model"]
  BY DEF RouteOK
<1>2. PICK m \in walk.since .. n : Between(walk, past, m)
  BY DEF RouteOK
<1>3. \A f \in FileName : Seen(past, m, n, f, walk.surface[f])
  BY <1>2 DEF Between
<1>4. m \in 1 .. n /\ m >= walk.since
  BY <1>0, <1>1, <1>2
<1>5. \A f \in FileName : Seen(past, walk.since, n, f, walk.surface[f])
  BY <1>0, <1>1, <1>3, <1>4 DEF Seen
<1>6. ASSUME NothingReturned(past, walk.since, n) PROVE walk.surface["model"] = walk.model
  <2>1. PICK t \in walk.since .. n : past[t]["model"] = walk.surface["model"]
    BY <1>5, FileNameFacts DEF Seen
  <2>2. past[walk.since]["model"] = past[n]["model"]
    BY <1>0, <1>1 DEF HopHolds
  <2>3. /\ walk.since \in walk.since .. n /\ t \in walk.since .. n /\ n \in walk.since .. n
        /\ walk.since <= t /\ t <= n
    BY <1>0, <1>1, <2>1
  <2> QED
    BY <2>1, <2>2, <2>3, <1>1, <1>6, FileNameFacts DEF NothingReturned
<1>7. ASSUME NothingReturned(past, walk.since, n), walk.hop > 1 PROVE past[m] = walk.surface
  <2>1. walk.surface = walk.route
    BY <1>7 DEF HopHolds
  <2>2. ASSUME NEW f \in FileName PROVE past[m][f] = walk.surface[f]
    <3>1. PICK t \in walk.since .. m : past[t][f] = walk.surface[f]
      BY <2>1, <1>2, <1>7 DEF Between, Seen
    <3>2. PICK v \in m .. n : past[v][f] = walk.surface[f]
      BY <1>3 DEF Seen
    <3>3. /\ t \in walk.since .. n /\ m \in walk.since .. n /\ v \in walk.since .. n
          /\ t <= m /\ m <= v
      BY <3>1, <3>2, <1>0, <1>1, <1>4
    <3> QED
      BY <3>1, <3>2, <3>3, <1>7 DEF NothingReturned
  <2>3. past[m] \in Surface /\ walk.surface \in Surface
    BY <1>0, <1>4 DEF PastOK, WalkRecord
  <2> QED
    BY <2>2, <2>3 DEF Surface
<1> QED
  BY <1>1, <1>2, <1>5, <1>6, <1>7

LEMMA NextHopStep ==
  ASSUME PastOK(past), walk \in WalkRecord, RouteOK(walk, past), NextHop
  PROVE  walk' \in WalkRecord /\ RouteOK(walk', past)
<1> DEFINE n == Len(past)
           next == walk.hop + 1
           read == walk.surface
<1>0. n \in Nat /\ n >= 1
  BY NowFacts
<1>1. /\ walk.since \in 1 .. n
      /\ \A f \in FileName : Seen(past, walk.since, n, f, walk.surface[f])
  BY HopIsASnapshot DEF NextHop
<1>2. /\ walk' = [walk EXCEPT !.hop = next, !.step = "status", !.route = read,
                              !.surface = NothingRead, !.source = "none", !.state = NoContent]
      /\ walk.hop # Len(walk.via) /\ walk.kind \in {"route", "primary"}
  BY DEF NextHop, LastHop
<1>3. /\ NothingRead \in Surface /\ NoContent \in Int /\ next \in Nat /\ read \in Surface
      /\ "none" \in FileName \cup {"none"}
  BY FileNameFacts DEF NoContent, WalkRecord
<1> HIDE DEF next, read
<1>4. /\ walk' \in WalkRecord /\ walk'.hop = next /\ walk'.step = "status"
      /\ walk'.route = read /\ walk'.via = walk.via /\ walk'.kind = walk.kind
      /\ walk'.since = walk.since /\ walk'.model = walk.model
  BY <1>2, <1>3 DEF WalkRecord
<1> USE DEF next, read
<1>5. Between(walk', past, n)
  BY <1>1, <1>4 DEF Between
<1>6. /\ Len(walk.via) >= 2 /\ walk.hop \in 1 .. Len(walk.via) /\ Len(walk.via) \in Nat
      /\ walk.model = past[walk.since]["model"]
  BY <1>2 DEF RouteOK, WalkRecord
<1>7. walk'.hop \in 1 .. Len(walk'.via) /\ n \in walk'.since .. n
  BY <1>0, <1>1, <1>2, <1>4, <1>6
<1> QED
  BY <1>1, <1>4, <1>5, <1>6, <1>7 DEF RouteOK

LEMMA RoutePassesStep ==
  ASSUME IntegrationsInv, NEW r \in Route, RoutePasses(r)
  PROVE  IntegrationsInv'
<1>1. PastOK(past) /\ walk \in WalkRecord /\ RouteOK(walk, past) /\ \A x \in reported : ReportOK(x, past)
  BY DEF IntegrationsInv
<1> DEFINE n == Len(past)
           report == [surface |-> walk.surface, model |-> walk.model,
                      since |-> walk.since, until |-> n]
<1>2. /\ walk.since \in 1 .. n
      /\ \A f \in FileName : Seen(past, walk.since, n, f, walk.surface[f])
      /\ NothingReturned(past, walk.since, n) =>
            /\ walk.surface["model"] = walk.model
            /\ walk.hop > 1 => \E k \in walk.since .. n : past[k] = walk.surface
  BY <1>1, HopIsASnapshot DEF RoutePasses
<1>3. walk.hop > 1
  <2>1. walk.hop = Len(walk.via) /\ Len(walk.via) >= 2 /\ Len(walk.via) \in Nat
    BY <1>1 DEF RoutePasses, LastHop, RouteOK, WalkRecord
  <2> QED
    BY <2>1
<1>4. ReportOK(report, past)
  <2>1. n \in Nat
    BY <1>1, NowFacts
  <2> QED
    BY <2>1, <1>2, <1>3 DEF ReportOK
<1>5. reported' = reported \cup {report} /\ past' = past
  BY DEF RoutePasses
<1> HIDE DEF report
<1>6. walk' \in WalkRecord /\ RouteOK(walk', past)
  <2>1. CASE WalkEnds
    BY <2>1, WalkEndsOK
  <2>2. CASE RouteMayStart(r, walk.model) /\ StartRoute("route", r)
    BY <2>2, <1>1, ViaFacts, RouteStarts
  <2> QED
    BY <2>1, <2>2 DEF RoutePasses
<1> QED
  BY <1>1, <1>4, <1>5, <1>6 DEF IntegrationsInv

(* A route that passed stands for a state the Project was in, however many *)
(* interfaces it names and whatever others change between the reads, as    *)
(* long as they change nothing back; else for contents that were there one *)
(* by one.                                                                 *)
THEOREM RoutesAreSnapshots == IntegrationsSpec => []PassedRouteIsASnapshot
<1>1. IntegrationsInit => IntegrationsInv
  <2> SUFFICES ASSUME IntegrationsInit PROVE IntegrationsInv
    OBVIOUS
  <2>1. PICK s \in {NoContent, 1} : past = <<[[f \in FileName |-> 1] EXCEPT !["status"] = s]>>
    BY DEF IntegrationsInit
  <2> DEFINE first == [[f \in FileName |-> 1] EXCEPT !["status"] = s]
  <2>2. first \in Surface /\ \A f \in FileName : first[f] \in {0, 1}
    BY FileNameFacts DEF NoContent, Surface
  <2>3. past = <<first>>
    BY <2>1
  <2> HIDE DEF first
  <2>4. past \in Seq(Surface) /\ past # <<>> /\ DOMAIN past = {1} /\ past[1] = first
    BY <2>2, <2>3
  <2>5. PastOK(past)
    BY <2>2, <2>4 DEF PastOK
  <2>6. walk \in WalkRecord /\ RouteOK(walk, past) /\ reported = {}
    BY NotWalkingFacts DEF IntegrationsInit, RouteOK
  <2> QED
    BY <2>5, <2>6 DEF IntegrationsInv
<1>2. IntegrationsInv /\ [IntegrationsNext]_integrationsVars => IntegrationsInv'
  <2> SUFFICES ASSUME IntegrationsInv, [IntegrationsNext]_integrationsVars PROVE IntegrationsInv'
    OBVIOUS
  <2>0. PastOK(past) /\ walk \in WalkRecord /\ RouteOK(walk, past) /\ \A r \in reported : ReportOK(r, past)
    BY DEF IntegrationsInv
  <2>1. ASSUME past' = past, reported' = reported \/ reported' = {},
               walk' \in WalkRecord, RouteOK(walk', past)
        PROVE  IntegrationsInv'
    BY <2>0, <2>1 DEF IntegrationsInv
  <2>2. CASE UNCHANGED continuityVars
    BY <2>0, <2>1, <2>2 DEF continuityVars
  <2>3. ASSUME NEW r \in Route, NEW e, VerifyRoute(r, e) PROVE IntegrationsInv'
    BY <2>0, <2>1, <2>3, ViaFacts, RouteStarts DEF VerifyRoute
  <2>4. ASSUME NEW e, VerifyCrossInterface(e) PROVE IntegrationsInv'
    BY <2>0, <2>1, <2>4, ViaFacts, RouteStarts DEF VerifyCrossInterface
  <2>5. ASSUME NEW k \in {"claude", "codex"}, TakeSnapshot(k) PROVE IntegrationsInv'
    <3>1. walk' \in WalkRecord /\ walk'.kind = k
      <4>1. Len(past) \in Nat
        BY <2>0, NowFacts
      <4> QED
        BY <4>1, <2>5, NotWalkingFacts DEF TakeSnapshot, WalkRecord
    <3> QED
      BY <3>1, <2>1, <2>5 DEF TakeSnapshot, RouteOK
  <2>6. CASE ReadStatus \/ ListSurface \/ \E f \in FileName : ReadSurface(f)
    <3>1. past' = past /\ reported' = reported
      BY <2>6 DEF ReadStatus, ListSurface, ReadSurface
    <3> QED
      BY <3>1, <2>0, <2>1, <2>6, ReadStep
  <2>7. CASE NextHop
    BY <2>0, <2>1, <2>7, NextHopStep DEF NextHop
  <2>8. CASE RouteFails \/ SnapshotEnds
    BY <2>1, <2>8, WalkEndsOK DEF RouteFails, SnapshotEnds
  <2>9. CASE SelectionNext \/ PackNext
    BY <2>2, <2>9 DEF SelectionNext, PackNext, RegisterIntegration, MachineChanges,
                      SelectIntegration, BeginPack, WritePackFile, EditPack
  <2>10. CASE ContinuityNext
    BY <2>3, <2>4, <2>5, <2>6, <2>7, <2>8, <2>10, RoutePassesStep, EditStep DEF ContinuityNext
  <2> QED
    BY <2>2, <2>9, <2>10 DEF IntegrationsNext, integrationsVars
<1>3. IntegrationsInv => PassedRouteIsASnapshot
  BY DEF IntegrationsInv, ReportOK, Seen, PassedRouteIsASnapshot
<1> QED
  BY <1>1, <1>2, <1>3, PTL DEF IntegrationsSpec

-----------------------------------------------------------------------------
(* Validation.                                                             *)

LedgerEvent == Evidence \cup EvidenceId

LedgerType == [entries : SUBSET Evidence, invalid : SUBSET EvidenceId]

OnLine(line, e) == \E k \in 1 .. Len(line) : line[k] = e

(* What was recorded is in the journal, though perhaps on a line with more *)
(* than it.                                                                *)
JournalKeeps(lines, events) ==
    \A e \in events : \E i \in 1 .. Len(lines) : OnLine(lines[i], e)

JournalType == journal \in Seq(Seq(LedgerEvent \cup {Torn})) /\ (unended => Len(journal) > 0)

ValidationInv ==
    /\ JournalType
    /\ returned \subseteq LedgerEvent
    /\ JournalKeeps(journal, returned)
    /\ ledger # Closed => ledger \in LedgerType
    /\ NoEvidenceIsForgotten

LEMMA WriteKeeps ==
    ASSUME JournalType, JournalKeeps(journal, returned),
           NEW e \in LedgerEvent \cup {Torn}, NEW newline \in BOOLEAN, Write(e, newline)
    PROVE  JournalType' /\ JournalKeeps(journal', returned \cup {e})
<1> DEFINE T == Seq(LedgerEvent \cup {Torn})
           n == Len(journal)
<1>1. journal \in Seq(T) /\ n \in Nat
  BY DEF JournalType
<1>2. CASE unended
  <2> DEFINE last == Append(journal[n], e)
  <2>1. n \in 1 .. n /\ journal[n] \in T
    BY <1>1, <1>2 DEF JournalType
  <2>2. last \in T /\ Len(last) = Len(journal[n]) + 1 /\ last[Len(journal[n]) + 1] = e
        /\ \A k \in 1 .. Len(journal[n]) : last[k] = journal[n][k]
    BY <2>1
  <2> HIDE DEF last, T
  <2>3. journal' = [journal EXCEPT ![n] = last]
    BY <1>2 DEF Write, last
  <2>4. journal' \in Seq(T) /\ Len(journal') = n /\ journal'[n] = last
        /\ \A i \in 1 .. n : i # n => journal'[i] = journal[i]
    BY <1>1, <2>1, <2>2, <2>3
  <2>5. OnLine(last, e)
    BY <2>1, <2>2 DEF OnLine, T
  <2>6. ASSUME NEW r, OnLine(journal[n], r) PROVE OnLine(last, r)
    BY <2>1, <2>2, <2>6 DEF OnLine, T
  <2>7. ASSUME NEW r \in returned PROVE \E i \in 1 .. n : OnLine(journal'[i], r)
    <3>1. PICK i \in 1 .. n : OnLine(journal[i], r)
      BY <2>7 DEF JournalKeeps
    <3> QED
      BY <3>1, <2>4, <2>6, <2>1
  <2>8. JournalKeeps(journal', returned \cup {e})
    BY <2>4, <2>5, <2>7, <2>1 DEF JournalKeeps
  <2> QED
    BY <2>4, <2>8, <2>1, <1>1 DEF JournalType, T
<1>3. CASE ~unended
  <2> DEFINE line == <<e>>
  <2>1. line \in T /\ Len(line) = 1 /\ line[1] = e
    OBVIOUS
  <2>5. OnLine(line, e)
    BY <2>1 DEF OnLine
  <2> HIDE DEF line, T
  <2>2. journal' = Append(journal, line)
    BY <1>3 DEF Write, line
  <2>3. journal' \in Seq(T) /\ Len(journal') = n + 1 /\ journal'[n + 1] = line
        /\ \A i \in 1 .. n : journal'[i] = journal[i]
    BY <1>1, <2>1, <2>2
  <2>4. JournalKeeps(journal', returned \cup {e})
    BY <2>3, <2>5, <1>1 DEF JournalKeeps
  <2> QED
    BY <2>3, <2>4, <1>1 DEF JournalType, T
<1> QED
  BY <1>2, <1>3

(* A record of the ledger that is known to it afterwards.                  *)
LEMMA AfterKnows ==
    ASSUME NEW l \in LedgerType, NEW e \in LedgerEvent
    PROVE  /\ After(l, e) \in LedgerType
           /\ l.entries \cup l.invalid \cup {e} \subseteq After(l, e).entries \cup After(l, e).invalid
<1>1. CASE e \in Evidence
  <2>1. After(l, e) = [entries |-> l.entries \cup {e}, invalid |-> l.invalid]
    BY <1>1 DEF After, IsEntry, LedgerType
  <2> QED
    BY <2>1, <1>1 DEF LedgerType
<1>2. CASE e \notin Evidence
  <2>1. After(l, e) = [entries |-> l.entries, invalid |-> l.invalid \cup {e}]
    BY <1>2 DEF After, IsEntry, LedgerType
  <2> QED
    BY <2>1, <1>2 DEF LedgerType, LedgerEvent
<1> QED
  BY <1>1, <1>2

(* A journal that replays has every event on a line of its own.            *)
LEMMA ReplayKnows ==
    ASSUME JournalType, returned \subseteq LedgerEvent, JournalKeeps(journal, returned), Replays
    PROVE  returned \subseteq LedgerAfter(Len(journal)).entries \cup LedgerAfter(Len(journal)).invalid
<1> SUFFICES ASSUME NEW e \in returned
             PROVE  e \in LedgerAfter(Len(journal)).entries \cup LedgerAfter(Len(journal)).invalid
  OBVIOUS
<1>1. PICK i \in 1 .. Len(journal) : OnLine(journal[i], e)
  BY DEF JournalKeeps
<1>2. journal[i] \in Seq(LedgerEvent \cup {Torn}) /\ Len(journal[i]) = 1
  BY DEF JournalType, Replays
<1>3. journal[i][1] = e
  BY <1>1, <1>2 DEF OnLine
<1>4. journal[i] = <<e>>
  BY <1>2, <1>3
<1> QED
  BY <1>4 DEF LedgerAfter, LedgerEvent

LEMMA ValidationInitOK == ValidationInit => ValidationInv
<1> SUFFICES ASSUME ValidationInit PROVE ValidationInv
  OBVIOUS
<1>1. JournalType /\ JournalKeeps(journal, returned)
  BY DEF ValidationInit, JournalType, JournalKeeps
<1> QED
  BY <1>1 DEF ValidationInit, ValidationInv, NoEvidenceIsForgotten, Empty, LedgerType

LEMMA ValidationNextOK == ValidationInv /\ [ValidationNext]_validationVars => ValidationInv'
<1> SUFFICES ASSUME ValidationInv, [ValidationNext]_validationVars PROVE ValidationInv'
  OBVIOUS
<1> USE DEF ValidationInv
<1>1. ASSUME NEW e \in LedgerEvent, Record(e) PROVE ValidationInv'
  <2>1. JournalType' /\ JournalKeeps(journal', returned')
    BY <1>1, WriteKeeps DEF Record
  <2>2. ledger \in LedgerType /\ ledger' = After(ledger, e) /\ returned' = returned \cup {e}
    BY <1>1 DEF Record
  <2>3. ledger' \in LedgerType /\ NoEvidenceIsForgotten'
    BY <2>2, <1>1, AfterKnows DEF NoEvidenceIsForgotten, Record
  <2> QED
    BY <2>1, <2>2, <2>3
<1>2. ASSUME NEW e \in LedgerEvent, RecordFails(e) PROVE ValidationInv'
  <2>1. PICK text \in {e, Torn}, newline \in BOOLEAN : Write(text, newline)
    BY <1>2 DEF RecordFails
  <2>2. JournalType' /\ JournalKeeps(journal', returned \cup {text})
    BY <2>1, WriteKeeps
  <2>3. JournalKeeps(journal', returned) /\ returned' = returned
    BY <2>2, <1>2 DEF JournalKeeps, RecordFails
  <2> QED
    BY <2>2, <2>3, <1>2 DEF RecordFails, NoEvidenceIsForgotten
<1>3. CASE CloseLedger
  BY <1>3 DEF CloseLedger, NoEvidenceIsForgotten, JournalType
<1>4. CASE Reopen
  <2>1. UNCHANGED <<journal, unended, returned>> /\ ledger' = LedgerAfter(Len(journal))
    BY <1>4 DEF Reopen
  <2>2. ledger' \in LedgerType
    BY <2>1 DEF LedgerAfter, LedgerType
  <2>3. NoEvidenceIsForgotten'
    BY <2>1, <1>4, ReplayKnows DEF Reopen, NoEvidenceIsForgotten
  <2> QED
    BY <2>1, <2>2, <2>3 DEF JournalType
<1>5. CASE UNCHANGED ledgerVars
  BY <1>5 DEF ledgerVars, NoEvidenceIsForgotten, JournalType
<1> QED
  BY <1>1, <1>2, <1>3, <1>4, <1>5
  DEF ValidationNext, validationVars, LedgerEvent, Rebind, ApproveWaiver, WaiverExpires

(* No evidence is forgotten: every event whose append or invalidate        *)
(* returned is known to every ledger that is open, however many writes     *)
(* were cut off or ran into the next line, and whoever reopened it.        *)
THEOREM LedgersForgetNothing == ValidationSpec => []NoEvidenceIsForgotten
<1>1. ValidationInv => NoEvidenceIsForgotten
  BY DEF ValidationInv
<1> QED
  BY <1>1, ValidationInitOK, ValidationNextOK, PTL DEF ValidationSpec

(* Gates refer to gates one level below them, and there are four levels:   *)
(* evaluating them by levels comes to an end after the fourth.             *)
GateStateStep(f) ==
    [g \in Gate |->
        IF g \in waivers THEN IF g \in Waivable THEN "WAIVED" ELSE "REFUSED"
        ELSE LET below == {f[c] : c \in Below[g]}
             IN CASE "REFUSED" \in below -> "REFUSED"
                  [] "REFUSED" \notin below /\ WorstOf(below) # "PASS" -> WorstOf(below)
                  [] OTHER -> WorstOf({Requirement(g)})]

CountsForStep(f) == [g \in Gate |-> {g} \cup UNION {f[h] : h \in Below[g] \ waivers}]

AgreeBelow(f, h, n) == \A g \in Gate : GateLevel[g] < n => f[g] = h[g]

LEMMA ChildrenAreLower ==
    ASSUME NEW g \in Gate, NEW c \in Below[g]
    PROVE  c \in Gate /\ GateLevel[c] \in 0 .. 3 /\ GateLevel[g] = GateLevel[c] + 1
BY ValidationAssumption

LEMMA GateStateSteps ==
    ASSUME NEW f, NEW h, NEW n \in Nat, AgreeBelow(f, h, n)
    PROVE  AgreeBelow(GateStateStep(f), GateStateStep(h), n + 1)
<1> SUFFICES ASSUME NEW g \in Gate, GateLevel[g] < n + 1
             PROVE  GateStateStep(f)[g] = GateStateStep(h)[g]
  BY DEF AgreeBelow
<1>1. \A c \in Below[g] : f[c] = h[c]
  BY ChildrenAreLower DEF AgreeBelow
<1>2. {f[c] : c \in Below[g]} = {h[c] : c \in Below[g]}
  BY <1>1
<1> QED
  BY <1>2 DEF GateStateStep

LEMMA CountsForSteps ==
    ASSUME NEW f, NEW h, NEW n \in Nat, AgreeBelow(f, h, n)
    PROVE  AgreeBelow(CountsForStep(f), CountsForStep(h), n + 1)
<1> SUFFICES ASSUME NEW g \in Gate, GateLevel[g] < n + 1
             PROVE  CountsForStep(f)[g] = CountsForStep(h)[g]
  BY DEF AgreeBelow
<1>1. \A c \in Below[g] : f[c] = h[c]
  BY ChildrenAreLower DEF AgreeBelow
<1>2. {f[c] : c \in Below[g] \ waivers} = {h[c] : c \in Below[g] \ waivers}
  BY <1>1
<1> QED
  BY <1>2 DEF CountsForStep

LEMMA NothingIsLower == \A f, h : AgreeBelow(f, h, 0)
BY ValidationAssumption DEF AgreeBelow

LEMMA GateStateEquation == GateState = GateStateStep(GateState)
<1> DEFINE s0 == [g \in Gate |-> {}]
           s1 == GateStateStep(s0)
           s2 == GateStateStep(s1)
           s3 == GateStateStep(s2)
           s4 == GateStateStep(s3)
           s5 == GateStateStep(s4)
<1>0. AgreeBelow(s0, s1, 0)
  BY NothingIsLower
<1>1. AgreeBelow(s1, s2, 1)
  BY <1>0, GateStateSteps
<1>2. AgreeBelow(s2, s3, 2)
  BY <1>1, GateStateSteps
<1>3. AgreeBelow(s3, s4, 3)
  BY <1>2, GateStateSteps
<1>4. AgreeBelow(s4, s5, 4)
  BY <1>3, GateStateSteps
<1>5. \A f : GateStateStep(f) = [g \in Gate |-> GateStateStep(f)[g]]
  BY DEF GateStateStep
<1>6. s4 = [g \in Gate |-> s4[g]] /\ s5 = [g \in Gate |-> s5[g]]
  BY <1>5
<1> HIDE DEF s3, s4, s5
<1>7. \A g \in Gate : s4[g] = s5[g]
  BY <1>4, ValidationAssumption DEF AgreeBelow
<1>8. s4 = s5
  BY <1>6, <1>7
<1>9. \E f : f = GateStateStep(f)
  BY <1>8 DEF s5
<1>10. GateState = CHOOSE f : f = GateStateStep(f)
  BY DEF GateState, GateStateStep
<1> QED
  BY <1>9, <1>10

LEMMA CountsForEquation == CountsFor = CountsForStep(CountsFor)
<1> DEFINE s0 == [g \in Gate |-> {}]
           s1 == CountsForStep(s0)
           s2 == CountsForStep(s1)
           s3 == CountsForStep(s2)
           s4 == CountsForStep(s3)
           s5 == CountsForStep(s4)
<1>0. AgreeBelow(s0, s1, 0)
  BY NothingIsLower
<1>1. AgreeBelow(s1, s2, 1)
  BY <1>0, CountsForSteps
<1>2. AgreeBelow(s2, s3, 2)
  BY <1>1, CountsForSteps
<1>3. AgreeBelow(s3, s4, 3)
  BY <1>2, CountsForSteps
<1>4. AgreeBelow(s4, s5, 4)
  BY <1>3, CountsForSteps
<1>5. \A f : CountsForStep(f) = [g \in Gate |-> CountsForStep(f)[g]]
  BY DEF CountsForStep
<1>6. s4 = [g \in Gate |-> s4[g]] /\ s5 = [g \in Gate |-> s5[g]]
  BY <1>5
<1> HIDE DEF s3, s4, s5
<1>7. \A g \in Gate : s4[g] = s5[g]
  BY <1>4, ValidationAssumption DEF AgreeBelow
<1>8. s4 = s5
  BY <1>6, <1>7
<1>9. \E f : f = CountsForStep(f)
  BY <1>8 DEF s5
<1>10. CountsFor = CHOOSE f : f = CountsForStep(f)
  BY DEF CountsFor, CountsForStep
<1> QED
  BY <1>9, <1>10

Bad == {"FAIL", "BLOCKED", "STALE", "PENDING"}

LEMMA WorstOfOK ==
    ASSUME NEW states
    PROVE  /\ WorstOf(states) \in Bad \cup {"PASS"}
           /\ WorstOf(states) = "PASS" <=> states \cap Bad = {}
<1> DEFINE order == <<"FAIL", "BLOCKED", "STALE", "PENDING">>
           occurs == {i \in 1 .. 4 : order[i] \in states}
           first == CHOOSE i \in occurs : \A j \in occurs : i <= j
<1>1. \A i \in 1 .. 4 : order[i] \in Bad
  BY DEF Bad
<1>2. \A s \in Bad : \E i \in 1 .. 4 : order[i] = s
  BY DEF Bad
<1>3. occurs = {} <=> states \cap Bad = {}
  BY <1>1, <1>2
<1>4. "PASS" \notin Bad
  BY DEF Bad
<1>5. occurs # {} => first \in occurs
  <2> SUFFICES ASSUME occurs # {} PROVE \E i \in occurs : \A j \in occurs : i <= j
    OBVIOUS
  <2>1. occurs \subseteq 1 .. 4
    OBVIOUS
  <2> HIDE DEF occurs
  <2>2. CASE 1 \in occurs
    BY <2>1, <2>2
  <2>3. CASE 1 \notin occurs /\ 2 \in occurs
    BY <2>1, <2>3
  <2>4. CASE 1 \notin occurs /\ 2 \notin occurs /\ 3 \in occurs
    BY <2>1, <2>4
  <2>5. CASE 1 \notin occurs /\ 2 \notin occurs /\ 3 \notin occurs
    <3>1. \A j \in occurs : j = 4
      BY <2>1, <2>5
    <3> QED
      BY <3>1
  <2> QED
    BY <2>2, <2>3, <2>4, <2>5
<1>6. occurs # {} => order[first] \in Bad
  BY <1>1, <1>5
<1>7. WorstOf(states) = IF occurs = {} THEN "PASS" ELSE order[first]
  BY DEF WorstOf
<1> HIDE DEF order, occurs, first
<1> QED
  BY <1>3, <1>4, <1>6, <1>7

LEMMA RequirementOK ==
    ASSUME NEW g \in Gate, ledger \in LedgerType
    PROVE  /\ Requirement(g) \in Bad \cup {"PASS"}
           /\ Requirement(g) = "PASS" <=> Earned(g)
<1> DEFINE counting == {e \in Candidates(g) : IsCurrent(e)}
           With(o) == {e \in counting : e.outcome = o}
<1>1. \A e \in counting : e.outcome \in {"PASS", "FAIL", "BLOCKED"}
  BY ValidationAssumption DEF LedgerType, Candidates, EvidenceEntry
<1>2. counting = {e \in ledger.entries :
                   e.claim = g /\ e.independent /\ e.binding = binding /\ e.id \notin ledger.invalid}
  BY DEF Candidates, IsCurrent
<1>3. Requirement(g) =
        CASE With("FAIL") # {} -> "FAIL"
          [] With("FAIL") = {} /\ With("BLOCKED") # {} -> "BLOCKED"
          [] OTHER -> IF Cardinality(With("PASS")) >= MinimumPasses THEN "PASS"
                      ELSE IF Candidates(g) # {} THEN "STALE" ELSE "PENDING"
  BY DEF Requirement
<1>4. Earned(g) <=> /\ \A e \in counting : e.outcome = "PASS"
                    /\ Cardinality(counting) >= MinimumPasses
  BY <1>2 DEF Earned
<1> HIDE DEF counting
<1>5. With("FAIL") = {} /\ With("BLOCKED") = {} <=> \A e \in counting : e.outcome = "PASS"
  BY <1>1
<1>6. (\A e \in counting : e.outcome = "PASS") => With("PASS") = counting
  OBVIOUS
<1> HIDE DEF With
<1> QED
  BY <1>3, <1>4, <1>5, <1>6 DEF Bad

EarnedBelow(h) == Earned(h) /\ Below[h] \cap waivers \subseteq Waivable

(* What a gate that is not waived evaluates to, in terms of its children.  *)
LEMMA GateStateOf ==
    ASSUME ledger \in LedgerType, NEW g \in Gate \ waivers
    PROVE  GateState[g] = "PASS" <=>
             /\ EarnedBelow(g)
             /\ \A c \in Below[g] \ waivers : GateState[c] = "PASS"
<1> DEFINE State == Bad \cup {"PASS", "WAIVED", "REFUSED"}
           below == {GateState[c] : c \in Below[g]}
<1>1. ASSUME NEW h \in Gate
      PROVE  /\ GateState[h] \in State
             /\ h \in waivers => GateState[h] = IF h \in Waivable THEN "WAIVED" ELSE "REFUSED"
  <2> DEFINE bel == {GateState[c] : c \in Below[h]}
  <2>1. GateState[h] = IF h \in waivers THEN IF h \in Waivable THEN "WAIVED" ELSE "REFUSED"
                       ELSE CASE "REFUSED" \in bel -> "REFUSED"
                              [] "REFUSED" \notin bel /\ WorstOf(bel) # "PASS" -> WorstOf(bel)
                              [] OTHER -> WorstOf({Requirement(h)})
    BY GateStateEquation DEF GateStateStep
  <2>2. WorstOf(bel) \in Bad \cup {"PASS"} /\ WorstOf({Requirement(h)}) \in Bad \cup {"PASS"}
    BY WorstOfOK
  <2> HIDE DEF bel
  <2> QED
    BY <2>1, <2>2
<1>2. GateState[g] = CASE "REFUSED" \in below -> "REFUSED"
                       [] "REFUSED" \notin below /\ WorstOf(below) # "PASS" -> WorstOf(below)
                       [] OTHER -> WorstOf({Requirement(g)})
  BY GateStateEquation DEF GateStateStep
<1>3. GateState[g] = "PASS" <=>
        "REFUSED" \notin below /\ WorstOf(below) = "PASS" /\ WorstOf({Requirement(g)}) = "PASS"
  <2> HIDE DEF below
  <2> QED
    BY <1>2
<1>4. WorstOf({Requirement(g)}) = "PASS" <=> Earned(g)
  <2>1. {Requirement(g)} \cap Bad = {} <=> Requirement(g) = "PASS"
    BY RequirementOK DEF Bad
  <2> QED
    BY <2>1, RequirementOK, WorstOfOK
<1>5. WorstOf(below) = "PASS" <=> \A c \in Below[g] : GateState[c] \notin Bad
  BY WorstOfOK
<1>6. \A c \in Below[g] : c \in Gate
  BY ChildrenAreLower
<1>7. "REFUSED" \notin below <=> \A c \in Below[g] : GateState[c] # "REFUSED"
  OBVIOUS
<1>8. ASSUME NEW c \in Below[g]
      PROVE  GateState[c] \notin Bad /\ GateState[c] # "REFUSED" <=>
               (c \in waivers => c \in Waivable) /\ (c \notin waivers => GateState[c] = "PASS")
  <2>1. c \notin waivers => GateState[c] # "WAIVED"
    <3> SUFFICES ASSUME c \notin waivers PROVE GateState[c] # "WAIVED"
      OBVIOUS
    <3> DEFINE bel == {GateState[d] : d \in Below[c]}
    <3>1. GateState[c] = CASE "REFUSED" \in bel -> "REFUSED"
                           [] "REFUSED" \notin bel /\ WorstOf(bel) # "PASS" -> WorstOf(bel)
                           [] OTHER -> WorstOf({Requirement(c)})
      BY GateStateEquation, <1>6 DEF GateStateStep
    <3>2. WorstOf(bel) \in Bad \cup {"PASS"} /\ WorstOf({Requirement(c)}) \in Bad \cup {"PASS"}
      BY WorstOfOK
    <3> HIDE DEF bel
    <3> QED
      BY <3>1, <3>2 DEF Bad
  <2>2. "WAIVED" \notin Bad /\ "PASS" \notin Bad
    BY DEF Bad
  <2> QED
    BY <1>1, <1>6, <2>1, <2>2
<1> HIDE DEF below
<1>9. GateState[g] = "PASS" <=>
        Earned(g) /\ \A c \in Below[g] : GateState[c] \notin Bad /\ GateState[c] # "REFUSED"
  BY <1>3, <1>4, <1>5, <1>7
<1> QED
  BY <1>8, <1>9 DEF EarnedBelow

EarnedAt(g) == GateState[g] = "PASS" <=> \A h \in CountsFor[g] : EarnedBelow(h)

LEMMA EarnedLevel ==
    ASSUME ledger \in LedgerType, NEW g \in Gate \ waivers,
           \A c \in Below[g] \ waivers : EarnedAt(c)
    PROVE  EarnedAt(g)
<1>1. CountsFor[g] = {g} \cup UNION {CountsFor[h] : h \in Below[g] \ waivers}
  BY CountsForEquation DEF CountsForStep
<1>2. (\A h \in CountsFor[g] : EarnedBelow(h)) <=>
        EarnedBelow(g) /\ \A c \in Below[g] \ waivers : \A h \in CountsFor[c] : EarnedBelow(h)
  BY <1>1
<1> QED
  BY <1>2, GateStateOf DEF EarnedAt

LEMMA PassesAreEarned == ledger \in LedgerType => PassIsEarned
<1> SUFFICES ASSUME ledger \in LedgerType PROVE \A g \in Gate \ waivers : EarnedAt(g)
  BY DEF PassIsEarned, EarnedAt, EarnedBelow
<1> DEFINE Lev(n) == {g \in Gate \ waivers : GateLevel[g] = n}
<1>1. \A g \in Lev(0) : EarnedAt(g)
  <2>1. \A g \in Lev(0) : Below[g] = {}
    BY ChildrenAreLower
  <2> QED
    BY <2>1, EarnedLevel
<1>2. ASSUME NEW n \in Nat, \A g \in Lev(n) : EarnedAt(g) PROVE \A g \in Lev(n + 1) : EarnedAt(g)
  <2> SUFFICES ASSUME NEW g \in Lev(n + 1) PROVE EarnedAt(g)
    OBVIOUS
  <2>1. \A c \in Below[g] \ waivers : c \in Lev(n)
    BY ChildrenAreLower
  <2> QED
    BY <2>1, <1>2, EarnedLevel
<1> HIDE DEF Lev
<1>3. \A g \in Lev(1) : EarnedAt(g)
  BY <1>1, <1>2
<1>4. \A g \in Lev(2) : EarnedAt(g)
  BY <1>3, <1>2
<1>5. \A g \in Lev(3) : EarnedAt(g)
  BY <1>4, <1>2
<1>6. \A g \in Gate \ waivers : g \in Lev(0) \cup Lev(1) \cup Lev(2) \cup Lev(3)
  BY ValidationAssumption DEF Lev
<1> QED
  BY <1>1, <1>3, <1>4, <1>5, <1>6

(* A pass is earned: a gate that is not waived passes if and only if all   *)
(* gates that count for it, down to the fourth level, have passing         *)
(* evidence for the current binding and none against it, and their waivers *)
(* are allowed, whatever was recorded, invalidated, cut off, rebound or    *)
(* waived before (GateGraph.evaluate).                                     *)
THEOREM PassesRestOnEvidence == ValidationSpec => []PassIsEarned
<1>1. ValidationInv => PassIsEarned
  BY PassesAreEarned DEF ValidationInv, PassIsEarned
<1> QED
  BY <1>1, ValidationInitOK, ValidationNextOK, PTL DEF ValidationSpec

=============================================================================
