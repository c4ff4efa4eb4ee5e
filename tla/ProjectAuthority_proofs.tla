---------------------- MODULE ProjectAuthority_proofs ----------------------
(***************************************************************************)
(* Proofs about Project Authority inside the managed service, where every  *)
(* request runs under the authority lock (Hosted = Client), for any number *)
(* of requests, Project Models and proposals and any bounds.               *)
(***************************************************************************)
EXTENDS ProjectAuthority, TLAPS

(* The lock: at most one request is in progress.                           *)
OneActive ==
    \A c, d \in Client : step[c] # "idle" /\ step[d] # "idle" => c = d

(* An accepted revision has a Model beside it.                             *)
Established ==
    /\ Len(chain) <= MaxRevision
    /\ catalog <= Len(chain)
    /\ chain # <<>> => model \in Content

(* What the request in progress read is still so when it is used.          *)
Accepting(c) ==
    /\ work[c].proposal \in Proposal
    /\ chain # <<>>
    /\ work[c].number = Len(chain) + 1
    /\ work[c].parent = chain[Len(chain)].content
    /\ proposals[work[c].proposal] # NoProposal
    /\ proposals[work[c].proposal].expected = Len(chain)
    /\ proposals[work[c].proposal].content = work[c].content

Founding(c) ==
    /\ work[c].proposal = NoProposal
    /\ chain = <<>>
    /\ work[c].number = 1
    /\ work[c].parent = NoContent
    /\ work[c].content \in Content

WorkOK(c) ==
    /\ step[c] = "initialize" => work[c] = Nothing /\ model = NoContent
    /\ step[c] = "bootstrap" => work[c] = Nothing /\ model \in Content
    /\ step[c] \in {"load", "refuse", "save"} => Accepting(c)
    /\ step[c] \in {"exists", "write"} =>
          /\ Accepting(c) \/ Founding(c)
          /\ model \in Content
          /\ edits = 0 => model = work[c].content
    /\ step[c] = "audit" => work[c].number = Len(chain) /\ chain # <<>>
                            /\ chain[Len(chain)].proposal = work[c].proposal
    /\ step[c] = "register" => work[c].number = Len(chain)
    /\ step[c] = "record" =>
          /\ work[c].number = Len(chain)
          /\ work[c].proposal # NoProposal =>
                \E n \in 1..Len(chain) : chain[n].proposal = work[c].proposal
    /\ step[c] = "resolve" =>
          \E n \in 1..Len(chain) : chain[n].proposal = work[c].proposal
    /\ step[c] = "diverge" => work[c].proposal \in Proposal

Derived == Linked /\ DriftIsAPendingProposal /\ AuditedRevisionsExist /\ ResolvedByAcceptance

AuthorityInv ==
    /\ Hosted = Client
    /\ TypeOK
    /\ OneActive
    /\ Established
    /\ \A c \in Client : WorkOK(c)
    /\ Derived

LEMMA InitEstablishesAuthorityInv == Hosted = Client /\ Init => AuthorityInv
<1> SUFFICES ASSUME Hosted = Client, Init PROVE AuthorityInv
  OBVIOUS
<1> USE AuthorityAssumption
<1>1. TypeOK
  BY DEF Init, TypeOK, Step, Work, Nothing
<1>2. OneActive /\ Established /\ \A c \in Client : WorkOK(c)
  BY DEF Init, OneActive, Established, WorkOK
<1>3. Derived
  BY DEF Init, Derived, Linked, DriftIsAPendingProposal, AuditedRevisionsExist,
         ResolvedByAcceptance
<1> QED
  BY <1>1, <1>2, <1>3 DEF AuthorityInv

(* A request that has begun excludes the others, so that it is enough to   *)
(* look at the one that takes a step.                                      *)
LEMMA StepOfOne ==
  ASSUME AuthorityInv, NEW c \in Client, NEW x \in Step,
         step[c] # "idle" \/ Free(c),
         step' = [step EXCEPT ![c] = x]
  PROVE  OneActive' /\ \A d \in Client \ {c} : step'[d] = "idle"
<1>1. step \in [Client -> Step]
  BY DEF AuthorityInv, TypeOK
<1>2. \A d \in Client \ {c} : step[d] = "idle"
  BY DEF AuthorityInv, OneActive, Free
<1> QED
  BY <1>1, <1>2 DEF OneActive

LEMMA IdleWorkOK == ASSUME NEW c \in Client, step[c] = "idle" PROVE WorkOK(c)
  BY DEF WorkOK

(* Control steps: the files and what is derived from them stay.            *)
LEMMA ControlStep ==
  ASSUME AuthorityInv, NEW c \in Client, NEW x \in Step, NEW w \in Work,
         step[c] # "idle" \/ Free(c),
         step' = [step EXCEPT ![c] = x], work' = [work EXCEPT ![c] = w],
         UNCHANGED <<files, derived, edits>>, WorkOK(c)'
  PROVE  AuthorityInv'
<1>1. OneActive' /\ \A d \in Client \ {c} : step'[d] = "idle"
  BY StepOfOne
<1>2. \A d \in Client : WorkOK(d)'
  BY <1>1 DEF WorkOK
<1>3. TypeOK'
  BY DEF AuthorityInv, TypeOK, files, derived
<1>4. Established' /\ Derived'
  BY DEF AuthorityInv, Established, Derived, Linked, ContentAt, DriftIsAPendingProposal, Current,
         AuditedRevisionsExist, ResolvedByAcceptance, files, derived
<1> QED
  BY <1>1, <1>2, <1>3, <1>4 DEF AuthorityInv

LEMMA ControlActions ==
  ASSUME AuthorityInv, NEW c \in Client,
         \/ CallCreate(c) \/ CallAdopt(c) \/ Bootstrap(c) \/ ReadCurrent(c)
         \/ \E p \in Proposal : CallAccept(c, p)
         \/ LoadMaterialized(c) \/ RevisionIsNew(c) \/ CallContinue(c) \/ CallObserve(c)
         \/ Stop(c)
  PROVE  AuthorityInv'
<1> USE AuthorityAssumption
<1>t. TypeOK /\ Established /\ WorkOK(c) /\ work[c] \in Work /\ Nothing \in Work
  BY DEF AuthorityInv, TypeOK, Work, Nothing
<1>1. CASE CallCreate(c)
  <2>1. WorkOK(c)'
    BY <1>1, <1>t DEF CallCreate, Begin, WorkOK, TypeOK, files
  <2> QED
    BY <1>1, <1>t, <2>1, ControlStep DEF CallCreate, Begin, Step
<1>2. CASE CallAdopt(c)
  <2>1. WorkOK(c)'
    BY <1>2, <1>t DEF CallAdopt, Begin, WorkOK, TypeOK, files
  <2> QED
    BY <1>2, <1>t, <2>1, ControlStep DEF CallAdopt, Begin, Step
<1>3. CASE Bootstrap(c)
  <2>1. CASE chain # <<>>
    <3>1. step' = [step EXCEPT ![c] = "current"] /\ work' = [work EXCEPT ![c] = work[c]]
      BY <1>3, <2>1, <1>t DEF Bootstrap, Continue, TypeOK
    <3>2. WorkOK(c)'
      BY <3>1, <1>t DEF WorkOK, TypeOK
    <3> QED
      BY <1>3, <1>t, <3>1, <3>2, ControlStep DEF Bootstrap, Step
  <2>2. CASE chain = <<>>
    <3> DEFINE w == [number |-> 1, content |-> model, parent |-> NoContent, proposal |-> NoProposal]
    <3>1. work[c] = Nothing /\ model \in Content
      BY <1>3, <1>t DEF Bootstrap, WorkOK
    <3>2. step' = [step EXCEPT ![c] = "exists"] /\ work' = [work EXCEPT ![c] = w]
      BY <1>3, <2>2, <1>t, <3>1 DEF Bootstrap, TypeOK, Nothing
    <3>3. w \in Work
      BY <3>1 DEF Work, Nothing
    <3>4. WorkOK(c)'
      BY <1>3, <3>1, <3>2, <1>t, <2>2 DEF WorkOK, TypeOK, Founding, Nothing, Bootstrap, files
    <3> QED
      BY <1>3, <3>2, <3>3, <3>4, ControlStep DEF Bootstrap, Step
  <2> QED
    BY <2>1, <2>2
<1>4. CASE ReadCurrent(c)
  <2> DEFINE w == [work[c] EXCEPT !.number = Current]
  <2>1. w \in Work
    BY <1>t DEF Work, Current, Established, TypeOK
  <2>2. step' = [step EXCEPT ![c] = "register"] /\ work' = [work EXCEPT ![c] = w]
    BY <1>4, <1>t DEF ReadCurrent, TypeOK
  <2>3. WorkOK(c)'
    BY <1>4, <2>2, <2>1, <1>t DEF WorkOK, TypeOK, Work, Current, ReadCurrent, files
  <2> QED
    BY <1>4, <2>1, <2>2, <2>3, ControlStep DEF ReadCurrent, Step
<1>5. ASSUME NEW p \in Proposal, CallAccept(c, p) PROVE AuthorityInv'
  <2> DEFINE w == [number |-> Current + 1, content |-> proposals[p].content,
                   parent |-> ContentAt(Current), proposal |-> p]
  <2>0. proposals[p] \in [expected : 1..MaxRevision, content : Content]
    BY <1>5, <1>t DEF CallAccept, TypeOK
  <2>1. w \in Work
    <3>1. Current + 1 \in 0..MaxRevision
      BY <1>5, <1>t DEF CallAccept, Current, TypeOK
    <3>2. chain[Len(chain)] \in Revision /\ Len(chain) # 0
      BY <1>5, <1>t DEF CallAccept, Readable, TypeOK
    <3>3. ContentAt(Current) \in Content
      BY <3>2 DEF ContentAt, Current, Revision
    <3>4. proposals[p].content \in Content
      BY <2>0
    <3> QED
      BY <3>1, <3>3, <3>4 DEF Work
  <2>2. step' = [step EXCEPT ![c] = "load"] /\ work' = [work EXCEPT ![c] = w] /\ Free(c)
    BY <1>5 DEF CallAccept, Begin
  <2>3. WorkOK(c)'
    <3>1. step'[c] = "load" /\ work'[c] = w
      BY <2>2, <1>t DEF TypeOK
    <3>2. Accepting(c)'
      BY <1>5, <3>1, <1>t DEF CallAccept, Readable, Accepting, Current, ContentAt, files, TypeOK
    <3> QED
      BY <3>1, <3>2 DEF WorkOK
  <2> QED
    BY <1>5, <2>1, <2>2, <2>3, ControlStep DEF CallAccept, Step
<1>6. CASE LoadMaterialized(c)
  <2> DEFINE x == IF model \in {work[c].parent, work[c].content} THEN "save" ELSE "refuse"
  <2>1. step' = [step EXCEPT ![c] = x] /\ work' = [work EXCEPT ![c] = work[c]] /\ x \in Step
    BY <1>6, <1>t DEF LoadMaterialized, Continue, TypeOK, Step
  <2>2. WorkOK(c)'
    <3>1. step'[c] = x /\ work'[c] = work[c]
      BY <2>1, <1>t DEF TypeOK
    <3> QED
      BY <1>6, <3>1, <1>t DEF LoadMaterialized, WorkOK, Accepting, files
  <2> QED
    BY <1>6, <1>t, <2>1, <2>2, ControlStep DEF LoadMaterialized
<1>7. CASE RevisionIsNew(c)
  <2>1. step' = [step EXCEPT ![c] = "write"] /\ work' = [work EXCEPT ![c] = work[c]]
    BY <1>7, <1>t DEF RevisionIsNew, Continue, TypeOK
  <2>2. WorkOK(c)'
    <3>1. step'[c] = "write" /\ work'[c] = work[c]
      BY <2>1, <1>t DEF TypeOK
    <3> QED
      BY <1>7, <3>1, <1>t DEF RevisionIsNew, WorkOK, Accepting, Founding, files
  <2> QED
    BY <1>7, <1>t, <2>1, <2>2, ControlStep DEF RevisionIsNew, Step
<1>8. CASE CallContinue(c)
  <2> DEFINE w == [Nothing EXCEPT !.number = Current]
  <2>1. w \in Work
    BY <1>t DEF Work, Current, Established, TypeOK, Nothing
  <2>2. step' = [step EXCEPT ![c] = "record"] /\ work' = [work EXCEPT ![c] = w] /\ Free(c)
    BY <1>8 DEF CallContinue, Begin
  <2>3. WorkOK(c)'
    BY <1>8, <2>2, <1>t DEF WorkOK, TypeOK, Current, CallContinue, files, Nothing
  <2> QED
    BY <1>8, <2>1, <2>2, <2>3, ControlStep DEF CallContinue, Step
<1>9. CASE CallObserve(c)
  <2>1. WorkOK(c)'
    BY <1>9, <1>t DEF CallObserve, Begin, WorkOK, TypeOK, files
  <2> QED
    BY <1>9, <1>t, <2>1, ControlStep DEF CallObserve, Begin, Step
<1>10. CASE Stop(c)
  <2>1. WorkOK(c)'
    BY <1>10, <1>t DEF Stop, Return, WorkOK, TypeOK
  <2> QED
    BY <1>10, <1>t, <2>1, ControlStep DEF Stop, Return, Step
<1> QED
  BY <1>1, <1>2, <1>3, <1>4, <1>5, <1>6, <1>7, <1>8, <1>9, <1>10

(* Acceptance of the current revision needs its proposal unchanged, and    *)
(* a new proposal takes an identifier nobody uses.                         *)
LEMMA ProposingActions ==
  ASSUME AuthorityInv, NEW c \in Client, NEW p \in Proposal,
         \/ \E basis \in 1..MaxRevision, m \in Content : Propose(c, p, basis, m)
         \/ RefuseExternalMutation(c, p)
         \/ ObserveExternalMutation(c, p)
  PROVE  AuthorityInv'
<1> USE AuthorityAssumption
<1>t. TypeOK /\ Established /\ Derived /\ work[c] \in Work /\ Nothing \in Work
  BY DEF AuthorityInv, TypeOK, Work, Nothing
<1>r. Readable => Current \in 1..MaxRevision /\ model \in Content
  BY <1>t DEF Readable, Current, Established, TypeOK
<1>1. /\ proposals[p] = NoProposal
      /\ \E e \in 1..MaxRevision, m \in Content :
            proposals' = [proposals EXCEPT ![p] = [expected |-> e, content |-> m]]
      /\ UNCHANGED <<model, chain, audited, derived, edits>>
  BY <1>r DEF Propose, RefuseExternalMutation, ObserveExternalMutation
<1>2. proposals' \in [Proposal -> [expected : 1..MaxRevision, content : Content] \cup {NoProposal}]
  BY <1>1, <1>t DEF TypeOK
<1>3. \A q \in Proposal : proposals[q] # NoProposal => proposals'[q] = proposals[q]
  BY <1>1, <1>t DEF TypeOK
<1>4. Established'
  BY <1>1, <1>t DEF Established, derived
<1>5. Derived'
  <2>1. DriftIsAPendingProposal'
    <3> SUFFICES ASSUME edits = 0, chain # <<>>, model # ContentAt(Current)
                 PROVE  \E q \in Proposal : proposals'[q] = [expected |-> Current, content |-> model]
      BY <1>1 DEF DriftIsAPendingProposal, ContentAt, Current
    <3>1. PICK q \in Proposal : proposals[q] = [expected |-> Current, content |-> model]
      BY <1>t DEF Derived, DriftIsAPendingProposal
    <3>2. Current \in 1..MaxRevision /\ model \in Content
      BY <1>t DEF Current, Established, TypeOK
    <3>3. proposals[q] # NoProposal
      BY <3>1, <3>2
    <3> QED
      BY <3>1, <3>3, <1>3
  <2>2. Linked' /\ AuditedRevisionsExist' /\ ResolvedByAcceptance'
    BY <1>1, <1>t DEF Derived, Linked, ContentAt, AuditedRevisionsExist, ResolvedByAcceptance, derived
  <2> QED
    BY <2>1, <2>2 DEF Derived
<1>6. CASE \E basis \in 1..MaxRevision, m \in Content : Propose(c, p, basis, m)
  <2>1. UNCHANGED <<step, work>> /\ Free(c)
    BY <1>6 DEF Propose
  <2>2. \A d \in Client : step[d] = "idle"
    BY <2>1 DEF Free, AuthorityInv
  <2>3. OneActive' /\ \A d \in Client : WorkOK(d)'
    BY <2>1, <2>2 DEF OneActive, WorkOK
  <2>4. TypeOK'
    BY <1>1, <1>2, <1>t, <2>1 DEF TypeOK, derived
  <2> QED
    BY <1>4, <1>5, <2>3, <2>4 DEF AuthorityInv
<1>7. CASE RefuseExternalMutation(c, p)
  <2>1. step' = [step EXCEPT ![c] = "idle"] /\ work' = [work EXCEPT ![c] = Nothing] /\ step[c] # "idle"
    BY <1>7 DEF RefuseExternalMutation, Return
  <2>2. OneActive' /\ \A d \in Client \ {c} : step'[d] = "idle"
    BY <2>1, StepOfOne DEF Step
  <2>3. \A d \in Client : WorkOK(d)'
    BY <2>1, <2>2, <1>t DEF WorkOK, TypeOK
  <2>4. TypeOK'
    BY <1>1, <1>2, <1>t, <2>1 DEF TypeOK, derived, Step
  <2> QED
    BY <1>4, <1>5, <2>2, <2>3, <2>4 DEF AuthorityInv
<1>8. CASE ObserveExternalMutation(c, p)
  <2> DEFINE w == [work[c] EXCEPT !.proposal = p]
  <2>1. step' = [step EXCEPT ![c] = "diverge"] /\ work' = [work EXCEPT ![c] = w] /\ step[c] # "idle"
    BY <1>8 DEF ObserveExternalMutation
  <2>w. w \in Work /\ w.proposal = p
    BY <1>t DEF Work
  <2>2. OneActive' /\ \A d \in Client \ {c} : step'[d] = "idle"
    BY <2>1, StepOfOne DEF Step
  <2>3. \A d \in Client : WorkOK(d)'
    <3>1. step'[c] = "diverge" /\ work'[c].proposal = p
      BY <2>1, <2>w, <1>t DEF TypeOK
    <3> QED
      BY <3>1, <2>2 DEF WorkOK
  <2>4. TypeOK'
    BY <1>1, <1>2, <1>t, <2>1, <2>w DEF TypeOK, derived, Step
  <2> QED
    BY <1>4, <1>5, <2>2, <2>3, <2>4 DEF AuthorityInv
<1> QED
  BY <1>6, <1>7, <1>8

(* The Model file is written by creation, by acceptance and by hand.       *)
LEMMA InitializeStep ==
  ASSUME AuthorityInv, NEW c \in Client, NEW m \in Content, Initialize(c, m)
  PROVE  AuthorityInv'
<1> USE AuthorityAssumption
<1>t. TypeOK /\ Established /\ Derived /\ WorkOK(c)
  BY DEF AuthorityInv
<1>1. step' = [step EXCEPT ![c] = "bootstrap"] /\ UNCHANGED work /\ step[c] # "idle" /\ model' = m
  BY DEF Initialize, Continue
<1>2. chain = <<>> /\ work[c] = Nothing
  BY <1>t DEF Initialize, WorkOK, Established
<1>3. OneActive' /\ \A d \in Client \ {c} : step'[d] = "idle"
  BY <1>1, StepOfOne DEF Step
<1>4. \A d \in Client : WorkOK(d)'
  BY <1>1, <1>2, <1>3, <1>t DEF WorkOK, TypeOK
<1>5. TypeOK'
  BY <1>1, <1>t DEF TypeOK, Initialize, derived, Step
<1>6. Established' /\ Derived'
  BY <1>1, <1>2, <1>t DEF Established, Derived, Linked, ContentAt, DriftIsAPendingProposal,
                          AuditedRevisionsExist, ResolvedByAcceptance, Initialize, derived
<1> QED
  BY <1>3, <1>4, <1>5, <1>6 DEF AuthorityInv

LEMMA SaveModelStep ==
  ASSUME AuthorityInv, NEW c \in Client, SaveModel(c)
  PROVE  AuthorityInv'
<1> USE AuthorityAssumption
<1>t. TypeOK /\ Established /\ Derived /\ WorkOK(c)
  BY DEF AuthorityInv
<1>1. /\ step' = [step EXCEPT ![c] = "exists"] /\ UNCHANGED work /\ step[c] # "idle"
      /\ model' = work[c].content
      /\ UNCHANGED <<chain, proposals, audited, catalog, divergence, edits>>
  BY DEF SaveModel, Continue, derived
<1>2. Accepting(c)
  BY <1>t DEF SaveModel, WorkOK
<1>m. proposals[work[c].proposal] = [expected |-> Len(chain), content |-> work[c].content]
      /\ work[c].content \in Content
  BY <1>2, <1>t DEF Accepting, TypeOK
<1>3. OneActive' /\ \A d \in Client \ {c} : step'[d] = "idle"
  BY <1>1, StepOfOne DEF Step
<1>4. \A d \in Client : WorkOK(d)'
  <2>1. step'[c] = "exists" /\ Accepting(c)'
    BY <1>1, <1>2, <1>t DEF Accepting, TypeOK
  <2>2. WorkOK(c)'
    BY <1>1, <1>m, <2>1 DEF WorkOK
  <2> QED
    BY <2>2, <1>3 DEF WorkOK
<1>5. TypeOK'
  BY <1>1, <1>m, <1>t DEF TypeOK, Step
<1>6. Established' /\ Linked' /\ AuditedRevisionsExist' /\ ResolvedByAcceptance'
  BY <1>1, <1>m, <1>t DEF Established, Derived, Linked, ContentAt, AuditedRevisionsExist,
                          ResolvedByAcceptance
<1>7. DriftIsAPendingProposal'
  BY <1>1, <1>2, <1>m DEF DriftIsAPendingProposal, Accepting, Current
<1> QED
  BY <1>3, <1>4, <1>5, <1>6, <1>7 DEF AuthorityInv, Derived

LEMMA ExternalEditStep ==
  ASSUME AuthorityInv, NEW m \in Content, ExternalEdit(m)
  PROVE  AuthorityInv'
<1> USE AuthorityAssumption
<1>t. TypeOK /\ Established /\ Derived
  BY DEF AuthorityInv
<1>1. /\ UNCHANGED <<chain, proposals, audited, catalog, divergence, step, work>>
      /\ model' = m /\ model # NoContent /\ edits' = edits + 1 /\ edits < MaxEdits
  BY DEF ExternalEdit, derived
<1>2. TypeOK'
  BY <1>1, <1>t DEF TypeOK
<1>3. Established' /\ Derived'
  BY <1>1, <1>t DEF Established, Derived, Linked, ContentAt, AuditedRevisionsExist,
                    ResolvedByAcceptance, DriftIsAPendingProposal, TypeOK
<1>4. OneActive'
  BY <1>1 DEF OneActive, AuthorityInv
<1>5. ASSUME NEW c \in Client PROVE WorkOK(c)'
  <2>1. WorkOK(c)
    BY DEF AuthorityInv
  <2>2. (Accepting(c) => Accepting(c)') /\ (Founding(c) => Founding(c)')
    BY <1>1 DEF Accepting, Founding
  <2> QED
    BY <1>1, <1>t, <2>1, <2>2 DEF WorkOK, TypeOK
<1> QED
  BY <1>2, <1>3, <1>4, <1>5 DEF AuthorityInv

(* Under the lock the revision file is still missing when it is written:   *)
(* the chain grows by the successor of the revision that was read.         *)
LEMMA WriteAppends ==
  ASSUME AuthorityInv, NEW c \in Client, WriteRevision(c)
  PROVE  LET r == [content |-> work[c].content, parent |-> work[c].parent,
                   proposal |-> work[c].proposal]
         IN  /\ r \in Revision
             /\ chain' = Append(chain, r)
             /\ r.parent = ContentAt(Len(chain))
             /\ Len(chain) < MaxRevision
             /\ work[c].number = Len(chain) + 1
<1> USE AuthorityAssumption
<1> DEFINE r == [content |-> work[c].content, parent |-> work[c].parent,
                 proposal |-> work[c].proposal]
<1>t. TypeOK /\ WorkOK(c) /\ work[c] \in Work /\ Len(chain) \in Nat
  BY DEF AuthorityInv, TypeOK
<1>1. Accepting(c) \/ Founding(c)
  BY <1>t DEF WriteRevision, WorkOK
<1>2. work[c].number = Len(chain) + 1
  BY <1>1, <1>t DEF Accepting, Founding
<1>3. Len(chain) < MaxRevision
  BY <1>2, <1>t DEF Work
<1>4. chain' = Append(chain, r)
  BY <1>2, <1>t DEF WriteRevision
<1>5. r.parent = ContentAt(Len(chain))
  BY <1>1, <1>t DEF Accepting, Founding, ContentAt, TypeOK
<1>6. work[c].content \in Content
  BY <1>1, <1>t DEF Accepting, Founding, TypeOK
<1>7. r \in Revision
  BY <1>6, <1>t DEF Revision, Work
<1> QED
  BY <1>2, <1>3, <1>4, <1>5, <1>7

LEMMA WriteRevisionStep ==
  ASSUME AuthorityInv, NEW c \in Client, WriteRevision(c)
  PROVE  AuthorityInv'
<1> USE AuthorityAssumption
<1> DEFINE r == [content |-> work[c].content, parent |-> work[c].parent,
                 proposal |-> work[c].proposal]
<1>t. TypeOK /\ Established /\ Derived /\ WorkOK(c) /\ work[c] \in Work /\ Len(chain) \in Nat
  BY DEF AuthorityInv, TypeOK
<1>1. /\ step' = [step EXCEPT ![c] = "audit"] /\ UNCHANGED work /\ step[c] = "write"
      /\ UNCHANGED <<model, proposals, audited, catalog, divergence, edits>>
  BY DEF WriteRevision, Continue, derived
<1>2. /\ r \in Revision
      /\ chain' = Append(chain, r)
      /\ r.parent = ContentAt(Len(chain))
      /\ Len(chain) < MaxRevision
      /\ work[c].number = Len(chain) + 1
  BY WriteAppends
<1>3. /\ chain' \in Seq(Revision)
      /\ Len(chain') = Len(chain) + 1
      /\ \A n \in 1..Len(chain) : chain'[n] = chain[n]
      /\ chain'[Len(chain) + 1] = r
  BY <1>2, <1>t DEF TypeOK
<1>m. model \in Content
  BY <1>1, <1>t DEF WorkOK
<1>4. TypeOK'
  BY <1>1, <1>3, <1>t DEF TypeOK, Step
<1>5. OneActive' /\ \A d \in Client \ {c} : step'[d] = "idle"
  BY <1>1, StepOfOne DEF Step
<1>6. \A d \in Client : WorkOK(d)'
  <2>1. step'[c] = "audit" /\ work'[c] = work[c]
    BY <1>1, <1>t DEF TypeOK
  <2>2. WorkOK(c)'
    BY <2>1, <1>2, <1>3 DEF WorkOK
  <2> QED
    BY <2>2, <1>5 DEF WorkOK
<1>7. Established'
  BY <1>1, <1>2, <1>3, <1>m, <1>t DEF Established, TypeOK
<1>8. Linked'
  <2> SUFFICES ASSUME NEW n \in 1..Len(chain')
               PROVE  chain'[n].parent = IF n - 1 = 0 THEN NoContent ELSE chain'[n - 1].content
    BY DEF Linked, ContentAt
  <2>1. CASE n \in 1..Len(chain)
    <3>1. chain[n].parent = IF n - 1 = 0 THEN NoContent ELSE chain[n - 1].content
      BY <2>1, <1>t DEF Derived, Linked, ContentAt
    <3>2. n - 1 # 0 => chain'[n - 1] = chain[n - 1]
      BY <2>1, <1>3, <1>t
    <3> QED
      BY <3>1, <3>2, <2>1, <1>3
  <2>2. CASE n = Len(chain) + 1
    BY <2>2, <1>2, <1>3, <1>t DEF ContentAt
  <2> QED
    BY <2>1, <2>2, <1>3, <1>t
<1>9. DriftIsAPendingProposal'
  BY <1>1, <1>2, <1>3, <1>t DEF DriftIsAPendingProposal, Current, ContentAt, WorkOK
<1>10. AuditedRevisionsExist' /\ ResolvedByAcceptance'
  BY <1>1, <1>3, <1>t DEF Derived, AuditedRevisionsExist, ResolvedByAcceptance
<1> QED
  BY <1>4, <1>5, <1>6, <1>7, <1>8, <1>9, <1>10 DEF AuthorityInv, Derived

LEMMA AppendAuditStep ==
  ASSUME AuthorityInv, NEW c \in Client, AppendAudit(c)
  PROVE  AuthorityInv'
<1> USE AuthorityAssumption
<1> DEFINE x == IF work[c].proposal = NoProposal THEN "current" ELSE "record"
           e == [number |-> work[c].number, proposal |-> work[c].proposal]
<1>t. TypeOK /\ Established /\ Derived /\ WorkOK(c) /\ work[c] \in Work /\ Len(chain) \in Nat
  BY DEF AuthorityInv, TypeOK
<1>1. /\ step' = [step EXCEPT ![c] = x] /\ UNCHANGED work /\ step[c] = "audit"
      /\ audited' = audited \cup {e}
      /\ UNCHANGED <<model, chain, proposals, catalog, divergence, edits>>
  BY DEF AppendAudit, Continue, derived
<1>2. /\ work[c].number = Len(chain) /\ Len(chain) \in 1..MaxRevision
      /\ chain[Len(chain)].proposal = work[c].proposal
  BY <1>1, <1>t DEF WorkOK, TypeOK, Established
<1>3. TypeOK'
  BY <1>1, <1>2, <1>t DEF TypeOK, Step, Work
<1>4. OneActive' /\ \A d \in Client \ {c} : step'[d] = "idle"
  BY <1>1, StepOfOne DEF Step
<1>5. \A d \in Client : WorkOK(d)'
  <2>1. step'[c] = x /\ work'[c] = work[c]
    BY <1>1, <1>t DEF TypeOK
  <2>2. WorkOK(c)'
    BY <2>1, <1>1, <1>2 DEF WorkOK
  <2> QED
    BY <2>2, <1>4 DEF WorkOK
<1>6. Established' /\ Linked' /\ DriftIsAPendingProposal' /\ ResolvedByAcceptance'
  BY <1>1, <1>t DEF Established, Derived, Linked, ContentAt, DriftIsAPendingProposal, Current,
                    ResolvedByAcceptance
<1>7. AuditedRevisionsExist'
  BY <1>1, <1>2, <1>t DEF Derived, AuditedRevisionsExist
<1> QED
  BY <1>3, <1>4, <1>5, <1>6, <1>7 DEF AuthorityInv, Derived

(* Register, RecordRevision, ResolveProposal and AppendDivergence touch    *)
(* only what is derived from the files.                                    *)
LEMMA DerivedActions ==
  ASSUME AuthorityInv, NEW c \in Client,
         Register(c) \/ RecordRevision(c) \/ ResolveProposal(c) \/ AppendDivergence(c)
  PROVE  AuthorityInv'
<1> USE AuthorityAssumption
<1>t. TypeOK /\ Established /\ Derived /\ WorkOK(c) /\ work[c] \in Work /\ Len(chain) \in Nat
      /\ Nothing \in Work
  BY DEF AuthorityInv, TypeOK, Work, Nothing
<1>1. step[c] # "idle" /\ UNCHANGED <<model, chain, proposals, audited, edits>>
  BY DEF Register, RecordRevision, ResolveProposal, AppendDivergence, files
<1>2. \E x \in {"idle", "resolve"}, w \in Work :
         /\ step' = [step EXCEPT ![c] = x] /\ work' = [work EXCEPT ![c] = w]
         /\ x = "resolve" => w = work[c] /\ step[c] = "record" /\ work[c].proposal # NoProposal
  <2>1. CASE RecordRevision(c) /\ work[c].proposal # NoProposal
    BY <2>1, <1>t DEF RecordRevision, Continue, TypeOK
  <2>2. CASE ~(RecordRevision(c) /\ work[c].proposal # NoProposal)
    BY <2>2, <1>t DEF Register, RecordRevision, ResolveProposal, AppendDivergence, Return
  <2> QED
    BY <2>1, <2>2
<1>3. PICK x \in {"idle", "resolve"}, w \in Work :
         /\ step' = [step EXCEPT ![c] = x] /\ work' = [work EXCEPT ![c] = w]
         /\ x = "resolve" => w = work[c] /\ step[c] = "record" /\ work[c].proposal # NoProposal
  BY <1>2
<1>4. OneActive' /\ \A d \in Client \ {c} : step'[d] = "idle"
  BY <1>1, <1>3, StepOfOne DEF Step
<1>5. \A d \in Client : WorkOK(d)'
  <2>1. step'[c] = x /\ work'[c] = w
    BY <1>3, <1>t DEF TypeOK
  <2>2. WorkOK(c)'
    BY <2>1, <1>1, <1>3, <1>t DEF WorkOK
  <2> QED
    BY <2>2, <1>4 DEF WorkOK
<1>6. catalog' \in 0..MaxRevision /\ catalog' <= Len(chain)
  BY <1>t DEF Register, RecordRevision, ResolveProposal, AppendDivergence, WorkOK, TypeOK,
              Established, Work
<1>7. /\ divergence' \in [Proposal -> {"NONE", "PROPOSED", "RESOLVED"}]
      /\ \A p \in Proposal : divergence'[p] = "RESOLVED" =>
            divergence[p] = "RESOLVED" \/ \E n \in 1..Len(chain) : chain[n].proposal = p
  BY <1>t DEF Register, RecordRevision, ResolveProposal, AppendDivergence, WorkOK, TypeOK
<1>8. TypeOK'
  BY <1>1, <1>3, <1>6, <1>7, <1>t DEF TypeOK, Step
<1>9. Established' /\ Linked' /\ DriftIsAPendingProposal' /\ AuditedRevisionsExist'
  BY <1>1, <1>6, <1>t DEF Established, Derived, Linked, ContentAt, DriftIsAPendingProposal, Current,
                          AuditedRevisionsExist
<1>10. ResolvedByAcceptance'
  BY <1>1, <1>7, <1>t DEF Derived, ResolvedByAcceptance
<1> QED
  BY <1>4, <1>5, <1>8, <1>9, <1>10 DEF AuthorityInv, Derived

LEMMA AuthorityInvStep == AuthorityInv /\ [Next]_vars => AuthorityInv'
<1> SUFFICES ASSUME AuthorityInv, [Next]_vars PROVE AuthorityInv'
  OBVIOUS
<1>1. ASSUME NEW c \in Client, Establish(c) PROVE AuthorityInv'
  BY <1>1, ControlActions, InitializeStep, DerivedActions DEF Establish
<1>2. ASSUME NEW c \in Client, NEW p \in Proposal, NEW basis \in 1..MaxRevision,
             NEW m \in Content, Propose(c, p, basis, m)
      PROVE  AuthorityInv'
  BY <1>2, ProposingActions
<1>3. ASSUME NEW c \in Client, Accept(c) PROVE AuthorityInv'
  BY <1>3, ControlActions, ProposingActions, SaveModelStep, WriteRevisionStep, AppendAuditStep,
     DerivedActions DEF Accept
<1>4. ASSUME NEW c \in Client, Observe(c) PROVE AuthorityInv'
  BY <1>4, ControlActions, ProposingActions, DerivedActions DEF Observe
<1>5. ASSUME NEW c \in Client, Stop(c) PROVE AuthorityInv'
  BY <1>5, ControlActions
<1>6. ASSUME NEW m \in Content, ExternalEdit(m) PROVE AuthorityInv'
  BY <1>6, ExternalEditStep
<1>7. CASE UNCHANGED vars
  BY <1>7 DEF vars, files, derived, AuthorityInv, TypeOK, OneActive, Established, WorkOK, Accepting,
              Founding, Derived, Linked, ContentAt, DriftIsAPendingProposal, Current,
              AuditedRevisionsExist, ResolvedByAcceptance
<1> QED
  BY <1>1, <1>2, <1>3, <1>4, <1>5, <1>6, <1>7 DEF Next

(* The inductive invariant of Project Authority under the lock of the      *)
(* managed service.                                                        *)
THEOREM AuthorityInvariant == Hosted = Client /\ Spec => []AuthorityInv
  BY InitEstablishesAuthorityInv, AuthorityInvStep, PTL DEF Spec

(* Type correctness of the files, the derived state and the requests.      *)
THEOREM TypeCorrect == Hosted = Client /\ Spec => []TypeOK
<1>1. AuthorityInv => TypeOK
  BY DEF AuthorityInv
<1> QED
  BY <1>1, AuthorityInvariant, PTL

(* The accepted state stays readable (current).                            *)
THEOREM ChainStaysLinked == Hosted = Client /\ Spec => []RevisionChainLinked
<1>1. AuthorityInv => RevisionChainLinked
  BY DEF AuthorityInv, Derived, RevisionChainLinked
<1> QED
  BY <1>1, AuthorityInvariant, PTL

(* A cut acceptance leaves nothing but drift that can still be accepted    *)
(* (accept).                                                               *)
THEOREM DriftIsPending == Hosted = Client /\ Spec => []DriftIsAPendingProposal
<1>1. AuthorityInv => DriftIsAPendingProposal
  BY DEF AuthorityInv, Derived
<1> QED
  BY <1>1, AuthorityInvariant, PTL

(* The audit history, the divergences and the catalog claim no more than   *)
(* the chain (accept, record_revision, resolve_proposal).                  *)
THEOREM DerivedStateIsTruthful == Hosted = Client /\ Spec => []DerivedIsTruthful
<1>1. AuthorityInv => DerivedIsTruthful
  BY DEF AuthorityInv, Derived, Established, DerivedIsTruthful
<1> QED
  BY <1>1, AuthorityInvariant, PTL

LEMMA CatalogStep == AuthorityInv /\ [Next]_vars => [catalog <= catalog']_vars
<1> SUFFICES ASSUME AuthorityInv, [Next]_vars PROVE catalog <= catalog'
  OBVIOUS
<1>t. catalog \in Nat /\ Established
  BY AuthorityAssumption DEF AuthorityInv, TypeOK
<1>1. ASSUME NEW c \in Client, Register(c) \/ RecordRevision(c) PROVE catalog <= catalog'
  <2>1. WorkOK(c) /\ catalog' = work[c].number /\ step[c] \in {"register", "record"}
    BY <1>1 DEF AuthorityInv, Register, RecordRevision
  <2> QED
    BY <2>1, <1>t DEF WorkOK, Established
<1>2. CASE UNCHANGED catalog
  BY <1>2, <1>t
<1>3. UNCHANGED catalog \/ \E c \in Client : Register(c) \/ RecordRevision(c)
  BY DEF Next, vars, derived, Establish, Accept, Observe, CallCreate, Initialize, CallAdopt, Bootstrap,
         ReadCurrent, Propose, CallAccept, LoadMaterialized, RefuseExternalMutation, SaveModel,
         RevisionIsNew, WriteRevision, AppendAudit, ResolveProposal, CallContinue, CallObserve,
         ObserveExternalMutation, AppendDivergence, Stop, ExternalEdit
<1> QED
  BY <1>1, <1>2, <1>3

(* The catalog never falls back, although the revision number is read in   *)
(* one step and recorded in another (record_revision).                     *)
THEOREM CatalogIsMonotonic == Hosted = Client /\ Spec => CatalogNeverGoesBack
  BY CatalogStep, AuthorityInvariant, PTL DEF Spec, CatalogNeverGoesBack

-----------------------------------------------------------------------------
(* The contents of the chain, which is what the history is mapped to.      *)
Contents(s) == [n \in 1..Len(s) |-> s[n].content]

LEMMA ContentsOfAppend ==
  ASSUME NEW s \in Seq(Revision), NEW r \in Revision
  PROVE  /\ Contents(s) \in Seq(Content)
         /\ Len(Contents(s)) = Len(s)
         /\ Contents(Append(s, r)) = Append(Contents(s), r.content)
<1>0. \A n \in 1..Len(s) : s[n] \in Revision
  OBVIOUS
<1>1. \A n \in 1..Len(s) : s[n].content \in Content
  BY <1>0 DEF Revision
<1>2. Contents(s) \in Seq(Content) /\ Len(Contents(s)) = Len(s)
  BY <1>1 DEF Contents
<1>3. Len(Append(s, r)) = Len(s) + 1 /\ Len(s) \in Nat
  BY DEF Revision
<1>4. /\ \A n \in 1..Len(s) : Append(s, r)[n] = s[n]
      /\ Append(s, r)[Len(s) + 1] = r
  BY <1>3
<1>5. r.content \in Content
  BY DEF Revision
<1>6. /\ Append(Contents(s), r.content) \in Seq(Content)
      /\ Len(Append(Contents(s), r.content)) = Len(s) + 1
      /\ \A n \in 1..Len(s) : Append(Contents(s), r.content)[n] = s[n].content
      /\ Append(Contents(s), r.content)[Len(s) + 1] = r.content
  BY <1>2, <1>3, <1>5 DEF Contents
<1>7. Append(Contents(s), r.content) = [n \in 1..(Len(s) + 1) |-> Append(Contents(s), r.content)[n]]
  BY <1>6, <1>3
<1>8. \A n \in 1..(Len(s) + 1) : Append(Contents(s), r.content)[n] = Append(s, r)[n].content
  BY <1>3, <1>4, <1>6
<1>9. Contents(Append(s, r)) = [n \in 1..(Len(s) + 1) |-> Append(s, r)[n].content]
  BY <1>3 DEF Contents
<1> QED
  BY <1>2, <1>7, <1>8, <1>9

(* A step of the files is a step of the abstract history: the write of the *)
(* first revision founds it, every later one enters a proposal into it,    *)
(* and every proposal is an offer.                                         *)
LEMMA HistoryStep ==
  AuthorityInv /\ [Next]_vars => [History!HistoryNext]_<<Contents(chain), proposals>>
<1> SUFFICES ASSUME AuthorityInv, [Next]_vars
             PROVE  History!HistoryNext \/ UNCHANGED <<Contents(chain), proposals>>
  OBVIOUS
<1> USE AuthorityAssumption
<1>t. TypeOK /\ Established
  BY DEF AuthorityInv
<1>1. ASSUME NEW c \in Client, WriteRevision(c) PROVE History!HistoryNext
  <2> DEFINE r == [content |-> work[c].content, parent |-> work[c].parent,
                   proposal |-> work[c].proposal]
  <2>1. r \in Revision /\ chain' = Append(chain, r)
    BY <1>1, WriteAppends
  <2>2. /\ Contents(chain)' = Append(Contents(chain), work[c].content)
        /\ Len(Contents(chain)) = Len(chain)
        /\ Contents(chain) \in Seq(Content)
        /\ work[c].content \in Content
    <3>1. /\ Contents(Append(chain, r)) = Append(Contents(chain), r.content)
          /\ Len(Contents(chain)) = Len(chain)
          /\ Contents(chain) \in Seq(Content)
      BY <2>1, <1>t, ContentsOfAppend DEF TypeOK
    <3>2. Contents(chain)' = Contents(Append(chain, r))
      BY <2>1 DEF Contents
    <3>3. r.content = work[c].content /\ r.content \in Content
      BY <2>1 DEF Revision
    <3> QED
      BY <3>1, <3>2, <3>3
  <2>3. UNCHANGED proposals /\ WorkOK(c) /\ step[c] = "write"
    BY <1>1 DEF WriteRevision, AuthorityInv
  <2>4. CASE Accepting(c)
    <3>1. PICK p \in Proposal : p = work[c].proposal
      BY <2>4 DEF Accepting
    <3>2. History!Enter(p)
      BY <2>2, <2>3, <2>4, <3>1 DEF History!Enter, Accepting, Contents
    <3> QED
      BY <3>2 DEF History!HistoryNext
  <2>5. CASE Founding(c)
    <3>1. PICK m \in Content : m = work[c].content
      BY <2>2
    <3>2. Contents(chain) = <<>>
      BY <2>2, <2>5 DEF Founding
    <3>3. Contents(chain)' = <<m>>
      BY <2>2, <3>1, <3>2
    <3>4. History!Found(m)
      BY <2>3, <3>2, <3>3 DEF History!Found, Contents
    <3> QED
      BY <3>4 DEF History!HistoryNext
  <2> QED
    BY <2>3, <2>4, <2>5 DEF WorkOK
<1>2. ASSUME NEW c \in Client, NEW p \in Proposal,
             \/ \E basis \in 1..MaxRevision, m \in Content : Propose(c, p, basis, m)
             \/ RefuseExternalMutation(c, p)
             \/ ObserveExternalMutation(c, p)
      PROVE  History!HistoryNext
  <2>1. Readable => Current \in 1..MaxRevision /\ model \in Content
    BY <1>t DEF Readable, Current, Established, TypeOK
  <2>2. /\ proposals[p] = NoProposal /\ UNCHANGED chain
        /\ \E e \in 1..MaxRevision, m \in Content :
              proposals' = [proposals EXCEPT ![p] = [expected |-> e, content |-> m]]
    BY <1>2, <2>1 DEF Propose, RefuseExternalMutation, ObserveExternalMutation
  <2>3. PICK e \in 1..MaxRevision, m \in Content :
           proposals' = [proposals EXCEPT ![p] = [expected |-> e, content |-> m]]
    BY <2>2
  <2>4. proposals'[p] = [expected |-> e, content |-> m]
    BY <2>3, <1>t DEF TypeOK
  <2>5. proposals'[p] \in [expected : Nat \ {0}, content : Content]
    BY <2>4
  <2>6. proposals' = [proposals EXCEPT ![p] = proposals'[p]]
    BY <2>3, <2>4
  <2>7. History!Offer(p)
    BY <2>2, <2>5, <2>6 DEF History!Offer
  <2> QED
    BY <2>7 DEF History!HistoryNext
<1>3. CASE UNCHANGED <<chain, proposals>>
  BY <1>3 DEF Contents
<1>4. \/ UNCHANGED <<chain, proposals>>
      \/ \E c \in Client : WriteRevision(c)
      \/ \E c \in Client, p \in Proposal :
            \/ \E basis \in 1..MaxRevision, m \in Content : Propose(c, p, basis, m)
            \/ RefuseExternalMutation(c, p)
            \/ ObserveExternalMutation(c, p)
  BY DEF Next, vars, files, Establish, Accept, Observe, CallCreate, Initialize, CallAdopt, Bootstrap,
         ReadCurrent, Register, CallAccept, LoadMaterialized, SaveModel, RevisionIsNew, AppendAudit,
         RecordRevision, ResolveProposal, CallContinue, CallObserve, AppendDivergence, Stop,
         ExternalEdit
<1> QED
  BY <1>1, <1>2, <1>3, <1>4

(* Under the lock, the files of the Project repository behave as one       *)
(* history into which proposals enter by compare-and-append.               *)
THEOREM AuthorityImplementsHistory == Hosted = Client /\ Spec => ImplementsHistory
<1>1. Init => History!HistoryInit
  BY DEF Init, History!HistoryInit
<1>2. AuthorityInv /\ [Next]_vars
        => [History!HistoryNext]_<<[n \in 1..Len(chain) |-> chain[n].content], proposals>>
  BY HistoryStep DEF Contents
<1> QED
  BY <1>1, <1>2, AuthorityInvariant, PTL DEF Spec, ImplementsHistory, History!HistorySpec
=============================================================================
