-------------------------- MODULE Requests_proofs --------------------------
(***************************************************************************)
(* Proofs about requests that the managed runtime serves under its fence   *)
(* and about how they reach it: the authority to dispatch, interaction     *)
(* sessions, provider executions and transports.  Every section holds for  *)
(* any sets of incarnations and of what they work on, and however often    *)
(* the fence changes hands.                                                *)
(***************************************************************************)
EXTENDS DispatchAuthority, InteractionSessions, ProviderExecution, Transport,
        FiniteSetTheorems, TLAPS

-----------------------------------------------------------------------------
(* The authority to dispatch.                                              *)

RecordsTyped ==
    /\ terms \in Offer \cup {NoTerms}
    /\ running \in BOOLEAN
    /\ tries \in [Try -> [state : {"ABSENT", "PENDING", "RUNNING"}, ordinal : Nat]]
    /\ authorization = [t \in Try |-> authorization[t]]
    /\ desk = [w \in Worker |-> desk[w]]

(* Nothing happens before an Envelope is in force, and no more Attempts    *)
(* than it allows.                                                         *)
CountedWithin ==
    /\ running => terms # NoTerms
    /\ Counted # {} => terms # NoTerms /\ Cardinality(Counted) <= terms.maxAttempts

(* What makes an authorization good under the Envelope in force.           *)
Sound(a) ==
    /\ terms # NoTerms /\ a.terms = terms
    /\ MayDispatch(a.who, a.at)
    /\ OrderWithin(a.order, terms, a.at)

AuthorizedSoundly ==
    /\ \A t \in Try : authorization[t] # Unauthorized => Sound(authorization[t])
    /\ \A t \in Try : tries[t].state = "RUNNING" /\ terms.providers # {} =>
          authorization[t] # Unauthorized

(* What a worker checked when it prepared its request.                     *)
Prepared(w) ==
    /\ desk[w].step = "approve" => desk[w].offer \in Offer
    /\ desk[w].step = "run" => terms # NoTerms
    /\ desk[w].step = "try" =>
          /\ terms # NoTerms
          /\ desk[w].try \in Try
          /\ desk[w].ordinal \in Nat
          /\ Cardinality(Counted) + 1 <= terms.maxAttempts
    /\ desk[w].step = "dispatch" => desk[w].try \in Try
    /\ desk[w].step = "record" => desk[w].try \in Try /\ Sound(desk[w].authorization)
    /\ desk[w].step = "start" =>
          /\ desk[w].try \in Try
          /\ terms.providers # {} => authorization[desk[w].try] # Unauthorized

(* It still holds for the worker with the newest token: only that one      *)
(* writes, one request at a time.  Of the others nothing is said: what     *)
(* they checked may be stale.                                              *)
HolderIsCurrent == \A w \in Worker : fence = w => Prepared(w)

AuthorityInv == RecordsTyped /\ CountedWithin /\ AuthorizedSoundly /\ HolderIsCurrent

-----------------------------------------------------------------------------
LEMMA CountedIsFinite == IsFiniteSet(Counted) /\ Cardinality(Counted) \in Nat
<1>1. Counted \subseteq Try /\ IsFiniteSet(Try)
  BY AuthorityAssumption DEF Counted
<1> QED
  BY <1>1, FS_Subset, FS_CardinalityType

LEMMA InitEstablishesAuthorityInv == AuthorityInit => AuthorityInv
<1> SUFFICES ASSUME AuthorityInit PROVE AuthorityInv
  OBVIOUS
<1> USE DEF AuthorityInit
<1>1. RecordsTyped
  BY DEF RecordsTyped
<1>2. CountedWithin
  BY DEF CountedWithin, Counted
<1>3. AuthorizedSoundly
  BY DEF AuthorizedSoundly
<1>4. HolderIsCurrent
  BY DEF HolderIsCurrent, Prepared, Free
<1> QED
  BY <1>1, <1>2, <1>3, <1>4 DEF AuthorityInv

(* A step that writes no record and leaves the fence alone keeps what was  *)
(* counted and authorized, and only the desk it writes is in question.     *)
LEMMA RecordsKept ==
    ASSUME AuthorityInv, UNCHANGED recordVars, UNCHANGED fence, NEW w \in Worker, NEW request,
           desk' = [desk EXCEPT ![w] = request], Prepared(w)'
    PROVE  AuthorityInv'
<1> USE DEF AuthorityInv, recordVars
<1>1. RecordsTyped'
  BY DEF RecordsTyped
<1>2. Counted' = Counted
  BY DEF Counted
<1>3. CountedWithin'
  BY <1>2 DEF CountedWithin
<1>4. \A a : Sound(a)' <=> Sound(a)
  BY DEF Sound
<1>5. AuthorizedSoundly'
  BY <1>4 DEF AuthorizedSoundly, Sound
<1>6. ASSUME NEW v \in Worker, fence' = v PROVE Prepared(v)'
  <2>1. CASE v = w
    BY <2>1
  <2>2. CASE v # w
    <3>1. desk'[v] = desk[v] /\ Prepared(v)
      BY <2>2, <1>6 DEF RecordsTyped, HolderIsCurrent
    <3> QED
      BY <3>1, <1>2 DEF Prepared, Sound
  <2> QED
    BY <2>1, <2>2
<1>7. HolderIsCurrent'
  BY <1>6 DEF HolderIsCurrent
<1> QED
  BY <1>1, <1>3, <1>5, <1>7 DEF AuthorityInv

(* Requests that are prepared, from what the holder of the fence reads.    *)
LEMMA PreparingKeepsInv ==
    ASSUME AuthorityInv, NEW w \in Worker, NEW x \in Principals,
           \/ \E o \in Offer, proposed \in BOOLEAN : BeginApproval(w, x, o, proposed)
           \/ BeginRun(w, x)
           \/ \E t \in Try :
                 \/ BeginTry(w, x, t)
                 \/ BeginStart(w, x, t)
                 \/ \E d \in Order : BeginDispatch(w, x, t, d)
    PROVE  AuthorityInv'
<1> USE DEF fenceVars
<1>0. UNCHANGED recordVars => Counted' = Counted /\ \A a : Sound(a)' <=> Sound(a)
  BY DEF recordVars, Counted, Sound
<1>1. CASE \E o \in Offer, proposed \in BOOLEAN : BeginApproval(w, x, o, proposed)
  <2>1. PICK o \in Offer : Prepare(w, [step |-> "approve", offer |-> o])
    BY <1>1 DEF BeginApproval
  <2>2. Prepared(w)'
    BY <2>1 DEF Prepare, Prepared, AuthorityInv, RecordsTyped
  <2> QED
    BY <2>1, <2>2, RecordsKept DEF Prepare
<1>2. CASE BeginRun(w, x)
  <2>1. Prepared(w)'
    BY <1>2 DEF BeginRun, Prepare, Prepared, AuthorityInv, RecordsTyped, recordVars
  <2> QED
    BY <1>2, <2>1, RecordsKept DEF BeginRun, Prepare
<1>3. ASSUME NEW t \in Try, BeginTry(w, x, t) PROVE AuthorityInv'
  <2>1. Cardinality(Counted) \in Nat /\ Counted' = Counted
    BY <1>3, <1>0, CountedIsFinite DEF BeginTry, Prepare
  <2>2. Prepared(w)'
    BY <1>3, <2>1
    DEF BeginTry, Prepare, Prepared, AuthorityInv, RecordsTyped, CountedWithin, recordVars
  <2> QED
    BY <1>3, <2>2, RecordsKept DEF BeginTry, Prepare
<1>4. ASSUME NEW t \in Try, BeginStart(w, x, t) PROVE AuthorityInv'
  <2>1. Prepared(w)'
    BY <1>4 DEF BeginStart, Prepare, Prepared, AuthorityInv, RecordsTyped, recordVars
  <2> QED
    BY <1>4, <2>1, RecordsKept DEF BeginStart, Prepare
<1>5. ASSUME NEW t \in Try, NEW d \in Order, BeginDispatch(w, x, t, d) PROVE AuthorityInv'
  <2>1. Prepared(w)'
    BY <1>5 DEF BeginDispatch, Prepare, Prepared, AuthorityInv, RecordsTyped, recordVars
  <2> QED
    BY <1>5, <2>1, RecordsKept DEF BeginDispatch, Prepare
<1> QED
  BY <1>1, <1>2, <1>3, <1>4, <1>5

(* A commit leaves the desk of the holder, the only one that is spoken of, *)
(* free.                                                                   *)
LEMMA CommitFreesHolder ==
    ASSUME AuthorityInv, NEW w \in Worker, NEW step, Commit(w, step)
    PROVE  HolderIsCurrent' /\ fence = w /\ desk[w].step = step
           /\ Prepared(w) /\ desk' = [v \in Worker |-> desk'[v]]
<1>1. fence' = w /\ fence = w /\ desk[w].step = step /\ desk' = [desk EXCEPT ![w] = Free]
  BY DEF Commit, fenceVars
<1>2. desk'[w] = Free /\ desk' = [v \in Worker |-> desk'[v]]
  BY <1>1 DEF AuthorityInv, RecordsTyped
<1>3. HolderIsCurrent'
  BY <1>1, <1>2 DEF HolderIsCurrent, Prepared, Free
<1> QED
  BY <1>1, <1>2, <1>3 DEF AuthorityInv, HolderIsCurrent

LEMMA PutTermsKeepsInv ==
    ASSUME AuthorityInv, NEW w \in Worker, PutTerms(w) PROVE AuthorityInv'
<1>1. HolderIsCurrent' /\ desk[w].offer \in Offer /\ desk' = [v \in Worker |-> desk'[v]]
  BY CommitFreesHolder DEF PutTerms, Prepared
<1>2. terms' \in Offer /\ UNCHANGED <<running, tries, authorization>>
      /\ (terms = terms' \/ terms = NoTerms)
  BY <1>1 DEF PutTerms
<1>3. RecordsTyped'
  BY <1>1, <1>2 DEF AuthorityInv, RecordsTyped
<1>4. terms' # NoTerms /\ Counted' = Counted
  BY <1>2, AuthorityAssumption DEF Counted
<1>5. CountedWithin'
  BY <1>2, <1>4 DEF AuthorityInv, CountedWithin
<1>6. AuthorizedSoundly'
  <2>1. CASE terms' = terms
    BY <1>2, <2>1 DEF AuthorityInv, AuthorizedSoundly, Sound
  <2>2. CASE terms = NoTerms
    <3>1. \A t \in Try : authorization[t] = Unauthorized /\ tries[t].state = "ABSENT"
      BY <2>2 DEF AuthorityInv, AuthorizedSoundly, Sound, CountedWithin, Counted
    <3> QED
      BY <3>1, <1>2 DEF AuthorizedSoundly
  <2> QED
    BY <1>2, <2>1, <2>2
<1> QED
  BY <1>1, <1>3, <1>5, <1>6 DEF AuthorityInv

LEMMA InsertRunKeepsInv ==
    ASSUME AuthorityInv, NEW w \in Worker, InsertRun(w) PROVE AuthorityInv'
<1>1. HolderIsCurrent' /\ terms # NoTerms /\ desk' = [v \in Worker |-> desk'[v]]
  BY CommitFreesHolder DEF InsertRun, Prepared
<1>2. running' = TRUE /\ UNCHANGED <<terms, tries, authorization>>
  BY DEF InsertRun
<1>3. Counted' = Counted
  BY <1>2 DEF Counted
<1> QED
  BY <1>1, <1>2, <1>3
  DEF AuthorityInv, RecordsTyped, CountedWithin, AuthorizedSoundly, Sound

(* The count the holder read is still the count: it grows to what was      *)
(* compared with the Envelope.                                             *)
LEMMA InsertTryKeepsInv ==
    ASSUME AuthorityInv, NEW w \in Worker, InsertTry(w) PROVE AuthorityInv'
<1>1. HolderIsCurrent' /\ Prepared(w) /\ desk[w].step = "try"
      /\ desk' = [v \in Worker |-> desk'[v]]
  BY CommitFreesHolder DEF InsertTry
<1> DEFINE t == desk[w].try
<1>2. /\ terms # NoTerms /\ t \in Try /\ desk[w].ordinal \in Nat
      /\ Cardinality(Counted) + 1 <= terms.maxAttempts
  BY <1>1 DEF Prepared
<1>3. /\ tries[t].state = "ABSENT"
      /\ tries' = [tries EXCEPT ![t] = [state |-> "PENDING", ordinal |-> desk[w].ordinal]]
      /\ UNCHANGED <<terms, running, authorization>>
  BY DEF InsertTry
<1>4. RecordsTyped'
  BY <1>1, <1>2, <1>3 DEF AuthorityInv, RecordsTyped
<1>5. t \notin Counted /\ Counted' = Counted \cup {t}
  BY <1>2, <1>3 DEF AuthorityInv, RecordsTyped, Counted
<1>6. Cardinality(Counted') = Cardinality(Counted) + 1
  BY <1>5, CountedIsFinite, FS_AddElement
<1>7. CountedWithin'
  BY <1>2, <1>3, <1>6 DEF CountedWithin
<1>8. AuthorizedSoundly'
  BY <1>2, <1>3 DEF AuthorityInv, RecordsTyped, AuthorizedSoundly, Sound
<1> QED
  BY <1>1, <1>4, <1>7, <1>8 DEF AuthorityInv

LEMMA AuthorizeKeepsInv ==
    ASSUME AuthorityInv, NEW w \in Worker, Authorize(w) PROVE AuthorityInv'
<1> DEFINE a == [order |-> desk[w].order, who |-> desk[w].who, terms |-> terms, at |-> time]
           r == [step |-> "record", try |-> desk[w].try, authorization |-> a]
<1>1. /\ fence = w /\ desk[w].step = "dispatch" /\ tries[desk[w].try].state = "PENDING"
      /\ MayDispatch(a.who, a.at) /\ OrderWithin(a.order, terms, a.at)
      /\ desk' = [desk EXCEPT ![w] = r] /\ UNCHANGED <<fenceVars, recordVars>>
  BY DEF Authorize
<1>2. desk[w].try \in Try
  BY <1>1 DEF AuthorityInv, HolderIsCurrent, Prepared
<1>3. terms # NoTerms
  BY <1>1, <1>2 DEF AuthorityInv, CountedWithin, Counted
<1>4. Sound(a)
  BY <1>1, <1>3 DEF Sound
<1>5. Prepared(w)'
  <2>1. desk'[w] = r
    BY <1>1 DEF AuthorityInv, RecordsTyped
  <2>2. desk'[w].step = "record" /\ desk'[w].try \in Try /\ desk'[w].authorization = a
    BY <2>1, <1>2
  <2> HIDE DEF a, r
  <2> QED
    BY <2>2, <1>1, <1>4 DEF Prepared, Sound, recordVars
<1> HIDE DEF r
<1> QED
  BY <1>1, <1>5, RecordsKept DEF fenceVars

LEMMA RecordAuthorizationKeepsInv ==
    ASSUME AuthorityInv, NEW w \in Worker, RecordAuthorization(w) PROVE AuthorityInv'
<1>1. HolderIsCurrent' /\ Prepared(w) /\ desk[w].step = "record"
      /\ desk' = [v \in Worker |-> desk'[v]]
  BY CommitFreesHolder DEF RecordAuthorization
<1> DEFINE t == desk[w].try
           a == desk[w].authorization
<1>2. t \in Try /\ Sound(a)
  BY <1>1 DEF Prepared
<1>3. authorization[t] = Unauthorized /\ authorization' = [authorization EXCEPT ![t] = a]
      /\ UNCHANGED <<terms, running, tries>>
  BY DEF RecordAuthorization
<1>4. RecordsTyped' /\ Counted' = Counted
  BY <1>1, <1>2, <1>3 DEF AuthorityInv, RecordsTyped, Counted
<1>5. CountedWithin'
  BY <1>3, <1>4 DEF AuthorityInv, CountedWithin
<1>6. \A u \in Try : authorization'[u] = IF u = t THEN a ELSE authorization[u]
  BY <1>2, <1>3 DEF AuthorityInv, RecordsTyped
<1>7. AuthorizedSoundly'
  BY <1>2, <1>3, <1>6 DEF AuthorityInv, AuthorizedSoundly, Sound
<1> QED
  BY <1>1, <1>4, <1>5, <1>7 DEF AuthorityInv

LEMMA StartTryKeepsInv ==
    ASSUME AuthorityInv, NEW w \in Worker, StartTry(w) PROVE AuthorityInv'
<1>1. HolderIsCurrent' /\ Prepared(w) /\ desk[w].step = "start"
      /\ desk' = [v \in Worker |-> desk'[v]]
  BY CommitFreesHolder DEF StartTry
<1> DEFINE t == desk[w].try
<1>2. t \in Try /\ (terms.providers # {} => authorization[t] # Unauthorized)
  BY <1>1 DEF Prepared
<1>3. tries[t].state = "PENDING" /\ tries' = [tries EXCEPT ![t].state = "RUNNING"]
      /\ UNCHANGED <<terms, running, authorization>>
  BY DEF StartTry
<1>4. RecordsTyped' /\ Counted' = Counted
  BY <1>1, <1>2, <1>3 DEF AuthorityInv, RecordsTyped, Counted
<1>5. CountedWithin'
  BY <1>3, <1>4 DEF AuthorityInv, CountedWithin
<1>6. \A u \in Try : u # t => tries'[u] = tries[u]
  BY <1>2, <1>3 DEF AuthorityInv, RecordsTyped
<1>7. AuthorizedSoundly'
  BY <1>2, <1>3, <1>6 DEF AuthorityInv, AuthorizedSoundly, Sound
<1> QED
  BY <1>1, <1>4, <1>5, <1>7 DEF AuthorityInv

(* A desk that is cleared asks for nothing, whoever holds the fence next.  *)
LEMMA ReplacementKeepsInv ==
    ASSUME AuthorityInv, NEW w \in Worker, ReplaceClerk(w) PROVE AuthorityInv'
<1>1. fence' = w /\ desk' = [desk EXCEPT ![w] = Free] /\ UNCHANGED recordVars
  BY DEF ReplaceClerk, TakeFence
<1>2. RecordsTyped' /\ desk'[w] = Free
  BY <1>1 DEF AuthorityInv, RecordsTyped, recordVars
<1>3. HolderIsCurrent'
  BY <1>1, <1>2 DEF HolderIsCurrent, Prepared, Free
<1>4. CountedWithin' /\ AuthorizedSoundly'
  BY <1>1 DEF AuthorityInv, CountedWithin, AuthorizedSoundly, Counted, Sound, recordVars
<1> QED
  BY <1>2, <1>3, <1>4 DEF AuthorityInv

LEMMA WithdrawalKeepsInv ==
    ASSUME AuthorityInv, NEW w \in Worker, Withdraw(w) PROVE AuthorityInv'
<1>1. desk' = [desk EXCEPT ![w] = Free] /\ UNCHANGED <<fenceVars, recordVars>>
  BY DEF Withdraw
<1>2. Prepared(w)'
  BY <1>1 DEF AuthorityInv, RecordsTyped, Prepared, Free
<1> QED
  BY <1>1, <1>2, RecordsKept DEF fenceVars

LEMMA IdlingKeepsInv ==
    ASSUME AuthorityInv, UNCHANGED <<fenceVars, recordVars, desk>> PROVE AuthorityInv'
BY DEF AuthorityInv, RecordsTyped, CountedWithin, AuthorizedSoundly, HolderIsCurrent, Prepared,
       Counted, Sound, fenceVars, recordVars

LEMMA StepKeepsAuthorityInv == AuthorityInv /\ [AuthorityNext]_authorityVars => AuthorityInv'
<1> SUFFICES ASSUME AuthorityInv, [AuthorityNext]_authorityVars PROVE AuthorityInv'
  OBVIOUS
<1>1. CASE UNCHANGED authorityVars
  BY <1>1, IdlingKeepsInv DEF authorityVars
<1>2. CASE Tick
  BY <1>2, IdlingKeepsInv DEF Tick
<1>3. ASSUME NEW w \in Worker, NEW x \in Principals,
             \/ \E o \in Offer, proposed \in BOOLEAN : BeginApproval(w, x, o, proposed)
             \/ BeginRun(w, x)
             \/ \E t \in Try :
                   \/ BeginTry(w, x, t)
                   \/ BeginStart(w, x, t)
                   \/ \E d \in Order : BeginDispatch(w, x, t, d)
      PROVE  AuthorityInv'
  BY <1>3, PreparingKeepsInv
<1>4. ASSUME NEW w \in Worker, PutTerms(w) PROVE AuthorityInv'
  BY <1>4, PutTermsKeepsInv
<1>5. ASSUME NEW w \in Worker, InsertRun(w) PROVE AuthorityInv'
  BY <1>5, InsertRunKeepsInv
<1>6. ASSUME NEW w \in Worker, InsertTry(w) PROVE AuthorityInv'
  BY <1>6, InsertTryKeepsInv
<1>7. ASSUME NEW w \in Worker, Authorize(w) PROVE AuthorityInv'
  BY <1>7, AuthorizeKeepsInv
<1>8. ASSUME NEW w \in Worker, RecordAuthorization(w) PROVE AuthorityInv'
  BY <1>8, RecordAuthorizationKeepsInv
<1>9. ASSUME NEW w \in Worker, StartTry(w) PROVE AuthorityInv'
  BY <1>9, StartTryKeepsInv
<1>10. ASSUME NEW w \in Worker, Withdraw(w) PROVE AuthorityInv'
  BY <1>10, WithdrawalKeepsInv
<1>11. ASSUME NEW w \in Worker, ReplaceClerk(w) PROVE AuthorityInv'
  BY <1>11, ReplacementKeepsInv
<1> QED
  BY <1>1, <1>2, <1>3, <1>4, <1>5, <1>6, <1>7, <1>8, <1>9, <1>10, <1>11 DEF AuthorityNext

(* The strengthening is an invariant: what the newest incarnation has      *)
(* checked holds until it writes.                                          *)
THEOREM AuthorityInvariant == AuthoritySpec => []AuthorityInv
<1>1. AuthorityInit => AuthorityInv
  BY InitEstablishesAuthorityInv
<1>2. AuthorityInv /\ [AuthorityNext]_authorityVars => AuthorityInv'
  BY StepKeepsAuthorityInv
<1> QED
  BY <1>1, <1>2, PTL DEF AuthoritySpec

(* What runs, runs within the Envelope in force: attempts are counted and  *)
(* dispatches authorized before the transactions that write them           *)
(* (create_attempt, authorize_attempt_dispatch, start_attempt), and yet    *)
(* for any number of incarnations neither the bound nor the grants are     *)
(* overrun.                                                                *)
THEOREM DispatchStaysWithinAuthority == AuthoritySpec => []DispatchedWithinAuthority
<1>1. AuthorityInv => DispatchedWithinAuthority
  <2> SUFFICES ASSUME AuthorityInv PROVE DispatchedWithinAuthority
    OBVIOUS
  <2>1. Counted # {} => terms # NoTerms /\ Cardinality(Counted) <= terms.maxAttempts
    BY DEF AuthorityInv, CountedWithin
  <2>2. ASSUME NEW t \in Try, tries[t].state = "RUNNING", terms.providers # {}
        PROVE  authorization[t] # Unauthorized /\ Sound(authorization[t])
    BY <2>2 DEF AuthorityInv, AuthorizedSoundly
  <2> QED
    BY <2>1, <2>2 DEF DispatchedWithinAuthority, Sound
<1> QED
  BY <1>1, AuthorityInvariant, PTL

(* One step of AuthorityNeverChanges.                                      *)
AuthorityIsFinal ==
    /\ terms # NoTerms => terms' = terms
    /\ \A t \in Try : authorization[t] # Unauthorized => authorization'[t] = authorization[t]

(* An authorization is never replaced or withdrawn, and the Envelope it    *)
(* was given under is never exchanged for another (put_envelope,           *)
(* dispatch_authorizations).                                               *)
THEOREM AuthorityNeverChanges == AuthoritySpec => [][AuthorityIsFinal]_authorityVars
<1>1. AuthorityInv /\ [AuthorityNext]_authorityVars => [AuthorityIsFinal]_authorityVars
  <2> SUFFICES ASSUME AuthorityInv, AuthorityNext PROVE AuthorityIsFinal
    BY DEF AuthorityIsFinal, authorityVars, recordVars
  <2>1. ASSUME NEW w \in Worker, PutTerms(w) PROVE AuthorityIsFinal
    BY <2>1 DEF PutTerms, AuthorityIsFinal
  <2>2. ASSUME NEW w \in Worker, RecordAuthorization(w) PROVE AuthorityIsFinal
    BY <2>2, CommitFreesHolder
    DEF RecordAuthorization, AuthorityIsFinal, AuthorityInv, RecordsTyped, Prepared
  <2>3. ASSUME NEW w \in Worker, InsertRun(w) \/ InsertTry(w) \/ StartTry(w)
        PROVE  AuthorityIsFinal
    BY <2>3 DEF AuthorityIsFinal, InsertRun, InsertTry, StartTry
  <2>4. CASE UNCHANGED recordVars
    BY <2>4 DEF AuthorityIsFinal, recordVars
  <2>5. ASSUME NEW w \in Worker, NEW x \in Principals,
               \/ \E o \in Offer, proposed \in BOOLEAN : BeginApproval(w, x, o, proposed)
               \/ BeginRun(w, x)
               \/ \E t \in Try : BeginTry(w, x, t) \/ BeginStart(w, x, t)
        PROVE  UNCHANGED recordVars
    BY <2>5 DEF BeginApproval, BeginRun, BeginTry, BeginStart, Prepare
  <2>6. ASSUME NEW w \in Worker, NEW x \in Principals, NEW t \in Try, NEW d \in Order,
               BeginDispatch(w, x, t, d)
        PROVE  UNCHANGED recordVars
    BY <2>6 DEF BeginDispatch, Prepare
  <2>7. ASSUME NEW w \in Worker, Authorize(w) \/ Withdraw(w) \/ ReplaceClerk(w)
        PROVE  UNCHANGED recordVars
    BY <2>7 DEF Authorize, Withdraw, ReplaceClerk
  <2>8. Tick => UNCHANGED recordVars
    BY DEF Tick
  <2> QED
    BY <2>1, <2>2, <2>3, <2>4, <2>5, <2>6, <2>7, <2>8 DEF AuthorityNext
<1> QED
  BY <1>1, AuthorityInvariant, PTL DEF AuthoritySpec

-----------------------------------------------------------------------------
(* Interaction sessions.                                                   *)

SessionState == {"ABSENT", "ACTIVE", "DISCONNECTED", "CLOSED"}

SessionRow == [state : SessionState, seen : Nat]

Visits ==
    [step : {"idle", "open", "update", "submit", "publish", "record"},
     of : Session \cup {Unopened}, to : SessionState \cup {"NONE"}, read : SessionRow,
     number : Nat]

SessionTyped ==
    /\ session \in [Session -> SessionRow]
    /\ acceptedNumber \in Nat \ {0}
    /\ visit \in [Worker -> Visits]

(* Every revision was made for the one before it, and no session is ahead. *)
InStep ==
    /\ DOMAIN basis = 1 .. acceptedNumber
    /\ \A n \in 1 .. acceptedNumber : basis[n] = n - 1
    /\ \A i \in Session : session[i].seen <= acceptedNumber

(* What a request goes by in each of its steps.  The newest incarnation    *)
(* reads and writes sessions alone, one request at a time, so that what it *)
(* read is still so when it writes; what others read need not be.          *)
OnCourse(w, v) ==
    /\ v.step # "idle" => v.of \in Session
    /\ v.step = "update" => v.read.state # "CLOSED" /\ v.to \in SessionState \ {"ABSENT"}
    /\ v.read.seen <= acceptedNumber
    /\ v.step = "publish" => v.number = v.read.seen + 1
    /\ fence = w /\ v.step \in {"update", "submit", "publish"} => session[v.of].seen = v.read.seen
    /\ fence = w /\ v.step = "record" => session[v.of].seen <= v.read.seen

SessionInv == SessionTyped /\ InStep /\ \A w \in Worker : OnCourse(w, visit[w])

(* One step of SessionsKeepTheirPlace.                                     *)
KeepsItsPlace ==
    /\ \A i \in Session :
          /\ session'[i].seen <= acceptedNumber'
          /\ session[i].state = "CLOSED" => session'[i] = session[i]
          /\ session[i].state # "ABSENT" => session'[i].seen >= session[i].seen
    /\ \A n \in DOMAIN basis' : basis'[n] = n - 1

-----------------------------------------------------------------------------
LEMMA AwayIsOnCourse ==
    ASSUME NEW w \in Worker, SessionTyped PROVE Away \in Visits /\ OnCourse(w, Away)
BY DEF Away, Visits, SessionRow, SessionState, OnCourse, SessionTyped

LEMMA InitEstablishesSessionInv == SessionInit => SessionInv
<1> SUFFICES ASSUME SessionInit PROVE SessionInv
  OBVIOUS
<1>1. Away \in Visits
  BY DEF Away, Visits, SessionRow, SessionState
<1>2. SessionTyped
  BY <1>1 DEF SessionInit, SessionTyped, SessionRow, SessionState
<1>3. InStep
  BY DEF SessionInit, InStep
<1>4. \A w \in Worker : OnCourse(w, visit[w])
  BY <1>2, AwayIsOnCourse DEF SessionInit
<1> QED
  BY <1>2, <1>3, <1>4 DEF SessionInv

(* A request goes on, and no row changes.                                  *)
LEMMA VisitGoesOn ==
    ASSUME SessionInv, UNCHANGED <<fenceVars, session, acceptedNumber, basis>>,
           NEW w \in Worker, NEW v \in Visits, visit' = [visit EXCEPT ![w] = v], OnCourse(w, v)
    PROVE  SessionInv' /\ KeepsItsPlace
<1> USE DEF SessionInv, fenceVars
<1>1. SessionTyped' /\ \A u \in Worker : visit'[u] = IF u = w THEN v ELSE visit[u]
  BY DEF SessionTyped
<1>2. InStep'
  BY DEF InStep
<1>3. \A u \in Worker : OnCourse(u, visit[u])'
  BY <1>1 DEF OnCourse
<1>4. KeepsItsPlace
  BY DEF KeepsItsPlace, InStep, SessionTyped, SessionRow
<1> QED
  BY <1>1, <1>2, <1>3, <1>4

LEMMA VisitingKeepsInv ==
    ASSUME SessionInv, NEW w \in Worker, NEW i \in Session,
           NEW step \in {"update", "submit"}, NEW to \in SessionState \ {"ABSENT"},
           session[i].state # "CLOSED", Visiting(w, i, step, to)
    PROVE  SessionInv' /\ KeepsItsPlace
<1> DEFINE v == [step |-> step, of |-> i, to |-> to, read |-> session[i], number |-> 0]
<1>1. v \in Visits
  BY DEF SessionInv, SessionTyped, Visits
<1>2. OnCourse(w, v)
  BY DEF SessionInv, OnCourse, InStep, SessionTyped, SessionRow
<1>3. visit' = [visit EXCEPT ![w] = v] /\ UNCHANGED <<fenceVars, session, acceptedNumber, basis>>
  BY DEF Visiting
<1> HIDE DEF v
<1> QED
  BY <1>1, <1>2, <1>3, VisitGoesOn

LEMMA OpenReadKeepsInv ==
    ASSUME SessionInv, NEW w \in Worker, NEW i \in Session, OpenRead(w, i)
    PROVE  SessionInv' /\ KeepsItsPlace
<1> DEFINE v == [step |-> "open", of |-> i, to |-> "ACTIVE",
                 read |-> [state |-> "ABSENT", seen |-> acceptedNumber], number |-> 0]
<1>1. v \in Visits
  BY DEF SessionInv, SessionTyped, Visits, SessionRow, SessionState
<1>2. OnCourse(w, v)
  BY DEF SessionInv, OnCourse, SessionTyped
<1>3. visit' = [visit EXCEPT ![w] = v] /\ UNCHANGED <<fenceVars, session, acceptedNumber, basis>>
  BY DEF OpenRead
<1> HIDE DEF v
<1> QED
  BY <1>1, <1>2, <1>3, VisitGoesOn

LEMMA DepartingKeepsInv ==
    ASSUME SessionInv, NEW w \in Worker, Departs(w),
           UNCHANGED <<fenceVars, session, acceptedNumber, basis>>
    PROVE  SessionInv' /\ KeepsItsPlace
BY AwayIsOnCourse, VisitGoesOn DEF Departs, SessionInv

(* The holder of the fence writes one row and departs.                     *)
LEMMA RowWritten ==
    ASSUME SessionInv, NEW w \in Worker, fence = w, Departs(w),
           UNCHANGED <<fenceVars, acceptedNumber, basis>>,
           NEW i \in Session, NEW to \in SessionRow, session' = [session EXCEPT ![i] = to],
           to.seen <= acceptedNumber, session[i].state # "CLOSED",
           session[i].state # "ABSENT" => to.seen >= session[i].seen
    PROVE  SessionInv' /\ KeepsItsPlace
<1> USE DEF SessionInv, fenceVars
<1>1. /\ \A j \in Session : session'[j] = IF j = i THEN to ELSE session[j]
      /\ \A u \in Worker : visit'[u] = IF u = w THEN Away ELSE visit[u]
  BY DEF SessionTyped, Departs
<1>2. SessionTyped'
  BY AwayIsOnCourse DEF SessionTyped, Departs
<1>3. InStep'
  BY <1>1 DEF InStep
<1>4. ASSUME NEW u \in Worker PROVE OnCourse(u, visit[u])'
  <2>1. CASE u = w
    BY <2>1, <1>1, AwayIsOnCourse DEF OnCourse, Away, SessionTyped
  <2>2. CASE u # w
    BY <2>2, <1>1 DEF OnCourse
  <2> QED
    BY <2>1, <2>2
<1>5. KeepsItsPlace
  BY <1>1 DEF KeepsItsPlace, InStep, SessionTyped, SessionRow
<1> QED
  BY <1>2, <1>3, <1>4, <1>5

LEMMA OpenSessionKeepsInv ==
    ASSUME SessionInv, NEW w \in Worker, OpenSession(w) PROVE SessionInv' /\ KeepsItsPlace
<1> DEFINE i == visit[w].of
           to == [state |-> "ACTIVE", seen |-> visit[w].read.seen]
<1>1. visit[w].step = "open" /\ Departs(w) /\ UNCHANGED <<fenceVars, acceptedNumber, basis>>
  BY DEF OpenSession
<1>2. i \in Session /\ to.seen <= acceptedNumber
  BY <1>1 DEF SessionInv, OnCourse
<1>3. to \in SessionRow
  BY DEF SessionInv, SessionTyped, Visits, SessionRow, SessionState
<1>4. CASE UNCHANGED session
  BY <1>1, <1>4, DepartingKeepsInv
<1>5. CASE fence = w /\ session[i].state = "ABSENT" /\ session' = [session EXCEPT ![i] = to]
  BY <1>1, <1>2, <1>3, <1>5, RowWritten
<1> QED
  BY <1>4, <1>5 DEF OpenSession

(* Only the state is compared, and yet the revision that is written back   *)
(* is the one in the row.                                                  *)
LEMMA UpdateSessionKeepsInv ==
    ASSUME SessionInv, NEW w \in Worker, UpdateSession(w) PROVE SessionInv' /\ KeepsItsPlace
<1> DEFINE i == visit[w].of
           to == [state |-> visit[w].to, seen |-> visit[w].read.seen]
<1>1. visit[w].step = "update" /\ Departs(w) /\ UNCHANGED <<fenceVars, acceptedNumber, basis>>
  BY DEF UpdateSession
<1>2. /\ i \in Session /\ to.seen <= acceptedNumber /\ visit[w].read.state # "CLOSED"
      /\ visit[w].to \in SessionState /\ (fence = w => session[i].seen = to.seen)
  BY <1>1 DEF SessionInv, OnCourse
<1>3. to \in SessionRow
  BY <1>2 DEF SessionInv, SessionTyped, Visits, SessionRow
<1>4. CASE UNCHANGED session
  BY <1>1, <1>4, DepartingKeepsInv
<1>5. CASE /\ fence = w /\ session[i].state = visit[w].read.state
           /\ session' = [session EXCEPT ![i] = to]
  <2>1. session[i].seen \in Nat /\ to.seen >= session[i].seen
    BY <1>2, <1>5 DEF SessionInv, SessionTyped, SessionRow
  <2> HIDE DEF to
  <2> QED
    BY <1>1, <1>2, <1>3, <1>5, <2>1, RowWritten
<1> QED
  BY <1>4, <1>5 DEF UpdateSession

LEMMA RecordRevisionKeepsInv ==
    ASSUME SessionInv, NEW w \in Worker, RecordRevision(w) PROVE SessionInv' /\ KeepsItsPlace
<1> DEFINE i == visit[w].of
           to == [session[i] EXCEPT !.seen = visit[w].read.seen]
<1>1. visit[w].step = "record" /\ Departs(w) /\ UNCHANGED <<fenceVars, acceptedNumber, basis>>
  BY DEF RecordRevision
<1>2. /\ i \in Session /\ visit[w].read.seen <= acceptedNumber
      /\ (fence = w => session[i].seen <= visit[w].read.seen)
  BY <1>1 DEF SessionInv, OnCourse
<1>3. to \in SessionRow /\ to.seen = visit[w].read.seen
  BY <1>2 DEF SessionInv, SessionTyped, Visits, SessionRow
<1>4. CASE UNCHANGED session
  BY <1>1, <1>4, DepartingKeepsInv
<1>5. CASE /\ fence = w /\ session[i].state = "ACTIVE"
           /\ session' = [session EXCEPT ![i].seen = visit[w].read.seen]
  <2>1. session' = [session EXCEPT ![i] = to]
    BY <1>5
  <2>2. session[i].seen \in Nat /\ to.seen >= session[i].seen
    BY <1>2, <1>3, <1>5 DEF SessionInv, SessionTyped, SessionRow
  <2> HIDE DEF to
  <2> QED
    BY <1>1, <1>2, <1>3, <1>5, <2>1, <2>2, RowWritten
<1> QED
  BY <1>4, <1>5 DEF RecordRevision

(* A revision is made for the current one, or is written once more for the *)
(* number it was found free for.                                           *)
LEMMA RevisionKeepsStep ==
    ASSUME SessionInv, UNCHANGED session, NEW number \in Nat \ {0}, NEW seen,
           number <= acceptedNumber + 1, seen = number - 1,
           acceptedNumber' = IF number > acceptedNumber THEN number ELSE acceptedNumber,
           DOMAIN basis' = 1 .. acceptedNumber',
           \A n \in 1 .. acceptedNumber' : basis'[n] = IF n = number THEN seen ELSE basis[n]
    PROVE  InStep' /\ KeepsItsPlace /\ acceptedNumber' \in Nat \ {0}
                   /\ acceptedNumber' >= acceptedNumber
<1>1. /\ acceptedNumber \in Nat \ {0}
      /\ \A n \in 1 .. acceptedNumber : basis[n] = n - 1
      /\ \A i \in Session : session[i].seen \in Nat /\ session[i].seen <= acceptedNumber
  BY DEF SessionInv, InStep, SessionTyped, SessionRow
<1>2. \A n \in 1 .. acceptedNumber' : basis'[n] = n - 1
  BY <1>1
<1> QED
  BY <1>1, <1>2 DEF InStep, KeepsItsPlace

LEMMA AcceptBesideKeepsInv ==
    ASSUME SessionInv, AcceptBeside PROVE SessionInv' /\ KeepsItsPlace
<1> DEFINE number == acceptedNumber + 1
<1>0. acceptedNumber \in Nat \ {0} /\ DOMAIN basis = 1 .. acceptedNumber
  BY DEF SessionInv, InStep, SessionTyped
<1>1. UNCHANGED <<fenceVars, session, visit>> /\ acceptedNumber' = acceptedNumber + 1
  BY DEF AcceptBeside
<1>2. /\ DOMAIN basis' = 1 .. acceptedNumber'
      /\ \A n \in 1 .. acceptedNumber' :
            basis'[n] = IF n = number THEN acceptedNumber ELSE basis[n]
  BY <1>0, <1>1 DEF AcceptBeside
<1>3. /\ number \in Nat \ {0} /\ number <= acceptedNumber + 1 /\ acceptedNumber = number - 1
      /\ acceptedNumber' = IF number > acceptedNumber THEN number ELSE acceptedNumber
  BY <1>0, <1>1
<1> HIDE DEF number
<1>4. InStep' /\ KeepsItsPlace
  BY <1>1, <1>2, <1>3, RevisionKeepsStep
<1>5. SessionTyped'
  BY <1>0, <1>1 DEF SessionInv, SessionTyped
<1>6. \A w \in Worker : OnCourse(w, visit[w])'
  BY <1>1 DEF SessionInv, OnCourse, fenceVars, SessionTyped, Visits, SessionRow
<1> QED
  BY <1>4, <1>5, <1>6 DEF SessionInv

LEMMA SubmitFindsFreeKeepsInv ==
    ASSUME SessionInv, NEW w \in Worker, SubmitFindsFree(w) PROVE SessionInv' /\ KeepsItsPlace
<1> DEFINE v == visit[w]
           f == [v EXCEPT !.step = "publish"]
           e == [v EXCEPT !.step = "publish", !.number = acceptedNumber + 1]
<1>1. v.step = "submit" /\ UNCHANGED <<fenceVars, session, acceptedNumber, basis>>
  BY DEF SubmitFindsFree
<1>2. v \in Visits /\ OnCourse(w, v) /\ acceptedNumber + 1 \in Nat
  BY DEF SessionInv, SessionTyped
<1>3. CASE Departs(w)
  BY <1>1, <1>3, DepartingKeepsInv
<1>4. CASE v.read.seen = acceptedNumber /\ visit' = [visit EXCEPT ![w] = e]
  <2>1. f \in Visits /\ f.step = "publish" /\ f.of = v.of /\ f.read = v.read /\ f.to = v.to
    BY <1>2 DEF Visits
  <2>2. e = [f EXCEPT !.number = acceptedNumber + 1]
    OBVIOUS
  <2> HIDE DEF e, f
  <2>3. /\ e \in Visits /\ e.step = "publish" /\ e.of = v.of /\ e.read = v.read
        /\ e.number = acceptedNumber + 1
    BY <1>2, <2>1, <2>2 DEF Visits
  <2>4. OnCourse(w, e)
    BY <1>1, <1>2, <1>4, <2>3 DEF OnCourse
  <2> QED
    BY <1>1, <1>4, <2>3, <2>4, VisitGoesOn
<1> QED
  BY <1>3, <1>4 DEF SubmitFindsFree

(* The author's session is told of the new revision in a later step.       *)
LEMMA PublishSubmittedKeepsInv ==
    ASSUME SessionInv, NEW w \in Worker, PublishSubmitted(w) PROVE SessionInv' /\ KeepsItsPlace
<1> DEFINE v == visit[w]
           r == [v.read EXCEPT !.seen = v.number]
           e == [v EXCEPT !.step = "record", !.read = r]
<1>1. /\ v.step = "publish" /\ UNCHANGED <<fenceVars, session>>
      /\ acceptedNumber' = IF v.number > acceptedNumber THEN v.number ELSE acceptedNumber
      /\ DOMAIN basis' = 1 .. acceptedNumber'
      /\ \A n \in 1 .. acceptedNumber' :
            basis'[n] = IF n = v.number THEN v.read.seen ELSE basis[n]
      /\ visit' = [visit EXCEPT ![w] = e]
  BY DEF PublishSubmitted
<1>2. /\ v \in Visits /\ v.of \in Session /\ acceptedNumber \in Nat /\ v.read.seen \in Nat
      /\ v.read.seen <= acceptedNumber /\ v.number = v.read.seen + 1
      /\ (fence = w => session[v.of].seen = v.read.seen)
  BY <1>1 DEF SessionInv, SessionTyped, OnCourse, Visits, SessionRow
<1>3. r \in SessionRow /\ r.seen = v.number
  BY <1>2 DEF Visits, SessionRow
<1> HIDE DEF r
<1>4. e \in Visits /\ e.step = "record" /\ e.of = v.of /\ e.read = r
  BY <1>2, <1>3 DEF Visits
<1> HIDE DEF e, v
<1>5. /\ v.number \in Nat \ {0} /\ v.number <= acceptedNumber + 1 /\ v.read.seen = v.number - 1
      /\ v.number <= acceptedNumber'
  BY <1>1, <1>2
<1>6. InStep' /\ KeepsItsPlace /\ acceptedNumber' \in Nat \ {0} /\ acceptedNumber' >= acceptedNumber
  BY <1>1, <1>5, RevisionKeepsStep
<1>7. \A u \in Worker : visit'[u] = IF u = w THEN e ELSE visit[u]
  BY <1>1 DEF SessionInv, SessionTyped
<1>8. SessionTyped'
  BY <1>1, <1>4, <1>6 DEF SessionInv, SessionTyped
<1>9. ASSUME NEW u \in Worker PROVE OnCourse(u, visit[u])'
  <2>1. CASE u = w
    BY <2>1, <1>1, <1>2, <1>3, <1>4, <1>5, <1>7 DEF OnCourse, fenceVars
  <2>2. CASE u # w
    <3>1. visit'[u] = visit[u] /\ OnCourse(u, visit[u]) /\ visit[u].read.seen \in Nat
      BY <2>2, <1>7 DEF SessionInv, SessionTyped, Visits, SessionRow
    <3> QED
      BY <3>1, <1>1, <1>2, <1>6 DEF OnCourse, fenceVars
  <2> QED
    BY <2>1, <2>2
<1> QED
  BY <1>6, <1>8, <1>9 DEF SessionInv

LEMMA ReplaceServerKeepsInv ==
    ASSUME SessionInv, NEW w \in Worker, ReplaceServer(w) PROVE SessionInv' /\ KeepsItsPlace
<1>1. /\ visit[w].step = "idle" /\ fence' = w
      /\ UNCHANGED <<session, acceptedNumber, basis, visit>>
  BY DEF ReplaceServer, TakeFence
<1>2. SessionTyped' /\ InStep' /\ KeepsItsPlace
  BY <1>1 DEF SessionInv, SessionTyped, InStep, KeepsItsPlace, SessionRow
<1>3. \A u \in Worker : OnCourse(u, visit[u])'
  BY <1>1 DEF SessionInv, OnCourse
<1> QED
  BY <1>2, <1>3 DEF SessionInv

LEMMA SessionStep ==
    ASSUME SessionInv, SessionNext PROVE SessionInv' /\ KeepsItsPlace
<1> DEFINE Goal == SessionInv' /\ KeepsItsPlace
<1>1. ASSUME NEW w \in Worker, NEW i \in Session, OpenRead(w, i) PROVE Goal
  BY <1>1, OpenReadKeepsInv
<1>2. ASSUME NEW w \in Worker, NEW i \in Session, SubmitRead(w, i) PROVE Goal
  BY <1>2, VisitingKeepsInv DEF SubmitRead, SessionState
<1>3. ASSUME NEW w \in Worker, NEW i \in Session, DisconnectRead(w, i) PROVE Goal
  BY <1>3, VisitingKeepsInv DEF DisconnectRead, SessionState
<1>4. ASSUME NEW w \in Worker, NEW i \in Session, ReconnectRead(w, i) PROVE Goal
  BY <1>4, VisitingKeepsInv DEF ReconnectRead, SessionState
<1>5. ASSUME NEW w \in Worker, NEW i \in Session, CloseRead(w, i) PROVE Goal
  BY <1>5, VisitingKeepsInv DEF CloseRead, SessionState
<1>6. ASSUME NEW w \in Worker, OpenSession(w) PROVE Goal
  BY <1>6, OpenSessionKeepsInv
<1>7. ASSUME NEW w \in Worker, UpdateSession(w) PROVE Goal
  BY <1>7, UpdateSessionKeepsInv
<1>8. ASSUME NEW w \in Worker, SubmitFindsFree(w) \/ PublishSubmitted(w) PROVE Goal
  BY <1>8, SubmitFindsFreeKeepsInv, PublishSubmittedKeepsInv
<1>9. ASSUME NEW w \in Worker, RecordRevision(w) PROVE Goal
  BY <1>9, RecordRevisionKeepsInv
<1>10. ASSUME NEW w \in Worker, DropVisit(w) PROVE Goal
  BY <1>10, DepartingKeepsInv DEF DropVisit
<1>11. ASSUME NEW w \in Worker, ReplaceServer(w) PROVE Goal
  BY <1>11, ReplaceServerKeepsInv
<1>12. CASE AcceptBeside
  BY <1>12, AcceptBesideKeepsInv
<1> QED
  BY <1>1, <1>2, <1>3, <1>4, <1>5, <1>6, <1>7, <1>8, <1>9, <1>10, <1>11, <1>12 DEF SessionNext

(* What the newest incarnation read of a session is still in its row.      *)
THEOREM SessionInvariant == SessionSpec => []SessionInv
<1>1. SessionInit => SessionInv
  BY InitEstablishesSessionInv
<1>2. SessionInv /\ UNCHANGED sessionVars => SessionInv'
  BY DEF SessionInv, SessionTyped, InStep, OnCourse, sessionVars, fenceVars
<1>3. SessionInv /\ SessionNext => SessionInv'
  BY SessionStep
<1> QED
  BY <1>1, <1>2, <1>3, PTL DEF SessionSpec

(* No session is moved back, reopened or put ahead of the Project, and     *)
(* every revision rests on the number its author had seen, although an     *)
(* update compares the state of the row alone and submitting asks for no   *)
(* fence and writes a revision after it was found free                     *)
(* (update_interaction_session, record_revision, accept).                  *)
THEOREM SessionsNeverSlip == SessionSpec => SessionsKeepTheirPlace
<1>1. SessionInv /\ [SessionNext]_sessionVars => [KeepsItsPlace]_sessionVars
  BY SessionStep
<1> QED
  BY <1>1, SessionInvariant, PTL DEF SessionSpec, SessionsKeepTheirPlace, KeepsItsPlace

-----------------------------------------------------------------------------
(* Transports.                                                             *)

(* The operation of a call ran, where and as the caller asked.             *)
RanAsAsked(r, e) ==
    /\ e.times = 1
    /\ r.what = "runtime" => e.fenced = TRUE
    /\ OpensRuntime(r.what) => e.where = IF r.store = "none" THEN "host" ELSE r.store

(* What a call knows of its operation: it has not run before it is sent or *)
(* dispatched and while it waits for the host, and has run as asked only   *)
(* if the reply is "ok", which the caller is told unless it gave up.  Once *)
(* it gave up the operation may run, but not otherwise than asked.         *)
CallOK(c, r, e, waiting) ==
    /\ DOMAIN r = {"via", "step", "what", "store", "at", "key", "reply", "told"}
    /\ r.store \in {"none", "host", "other"}
    /\ e.times \in {0, 1}
    /\ c \in waiting =>
          /\ e.times = 0 /\ r.reply = "none"
          /\ r.step = "sent" \/ (r.step = "done" /\ r.told = "unavailable")
    /\ r.step \in {"idle", "found", "armed", "running"} => e.times = 0 /\ r.reply = "none"
    /\ r.step \in {"sent", "handled"} /\ r.reply # "ok" => e.times = 0
    /\ r.step \in {"sent", "handled"} /\ r.reply = "ok" => RanAsAsked(r, e)
    /\ r.step = "running" /\ OpensRuntime(r.what) => r.store # "none"
    /\ r.step # "done" => r.told = "none"
    /\ e.times = 1 => RanAsAsked(r, e)
    /\ r.told = "ok" => e.times = 1
    /\ r.told \in {"refused", "absent", "described"} => e.times = 0

TransportInv ==
    /\ DOMAIN conv = Caller /\ DOMAIN effect = Caller
    /\ \A c \in Caller : CallOK(c, conv[c], effect[c], inbox)

LEMMA TransportInitOK == TransportInit => TransportInv
<1> SUFFICES ASSUME TransportInit PROVE TransportInv
  OBVIOUS
<1>1. \A c \in Caller : conv[c] = NoCall /\ effect[c].times = 0
  BY DEF TransportInit
<1>2. /\ DOMAIN NoCall = {"via", "step", "what", "store", "at", "key", "reply", "told"}
      /\ NoCall.step = "idle" /\ NoCall.store = "none" /\ NoCall.reply = "none"
      /\ NoCall.told = "none"
  BY DEF NoCall
<1> QED
  BY <1>1, <1>2 DEF TransportInit, TransportInv, CallOK

(* A step of one call.                                                     *)
LEMMA CallMoves ==
    ASSUME TransportInv, NEW c \in Caller, NEW r, conv' = [conv EXCEPT ![c] = r],
           DOMAIN effect' = Caller, \A d \in Caller : d # c => effect'[d] = effect[d],
           inbox' \subseteq inbox \cup {c},
           CallOK(c, r, effect'[c], inbox')
    PROVE  TransportInv'
<1>1. conv'[c] = r /\ DOMAIN conv' = Caller /\ \A d \in Caller : d # c => conv'[d] = conv[d]
  BY DEF TransportInv
<1>2. ASSUME NEW d \in Caller PROVE CallOK(d, conv'[d], effect'[d], inbox')
  <2>1. CASE d = c
    BY <1>1, <2>1
  <2>2. CASE d # c
    <3>1. CallOK(d, conv[d], effect[d], inbox) /\ (d \in inbox' => d \in inbox)
      BY <2>2 DEF TransportInv
    <3> QED
      BY <1>1, <2>2, <3>1 DEF CallOK
  <2> QED
    BY <2>1, <2>2
<1> QED
  BY <1>1, <1>2 DEF TransportInv, CallOK, RanAsAsked, OpensRuntime

(* A call that ends by telling its caller something: what it asked for     *)
(* stays known.                                                            *)
LEMMA TellingIsOK ==
    ASSUME TransportInv, NEW c \in Caller, NEW told, Tell(c, told), UNCHANGED <<inbox, effect>>,
           c \notin inbox,
           told = "ok" => RanAsAsked(conv[c], effect[c]),
           told \in {"refused", "absent", "described"} => effect[c].times = 0
    PROVE  TransportInv'
<1> DEFINE r == [NoCall EXCEPT !.step = "done", !.what = conv[c].what, !.store = conv[c].store,
                               !.told = told]
<1>1. /\ DOMAIN r = {"via", "step", "what", "store", "at", "key", "reply", "told"}
      /\ r.step = "done" /\ r.what = conv[c].what /\ r.store = conv[c].store /\ r.told = told
      /\ r.reply = "none"
  BY DEF NoCall
<1>2. conv' = [conv EXCEPT ![c] = r]
  BY DEF Tell
<1> HIDE DEF r
<1>3. CallOK(c, conv[c], effect[c], inbox)
  BY DEF TransportInv
<1>4. RanAsAsked(conv[c], effect[c]) => RanAsAsked(r, effect[c])
  BY <1>1 DEF RanAsAsked
<1>5. told = "ok" => effect[c].times = 1
  BY DEF RanAsAsked
<1>6. /\ conv[c].store \in {"none", "host", "other"}
      /\ effect[c].times \in {0, 1} /\ (effect[c].times = 1 => RanAsAsked(r, effect[c]))
  BY <1>3, <1>4 DEF CallOK
<1>7. CallOK(c, r, effect[c], inbox)
  BY <1>1, <1>5, <1>6 DEF CallOK
<1> QED
  BY <1>2, <1>7, CallMoves DEF TransportInv

(* The operation runs, once.                                               *)
LEMMA RunsOnce ==
    ASSUME TransportInv, NEW c \in Caller, NEW where, NEW fenced \in BOOLEAN, Ran(c, where, fenced),
           effect[c].times = 0
    PROVE  /\ DOMAIN effect' = Caller /\ \A d \in Caller : d # c => effect'[d] = effect[d]
           /\ effect'[c].times = 1 /\ effect'[c].where = where /\ effect'[c].fenced = fenced
BY DEF Ran, TransportInv

(* A call runs in the process of its caller, or fails at once.             *)
LEMMA InProcessOK ==
    ASSUME TransportInv, NEW c \in Caller, NEW via, NEW what, NEW store \in {"none", "host", "other"},
           conv[c].step = "idle", DispatchInProcess(c, via, what, store)
    PROVE  TransportInv'
<1> DEFINE run == RunsInProcess(via, what, store)
           fail == [run EXCEPT !.step = "handled", !.reply = "failed"]
<1>1. /\ DOMAIN run = {"via", "step", "what", "store", "at", "key", "reply", "told"}
      /\ run.step = "running" /\ run.what = what /\ run.store = store /\ run.told = "none"
      /\ run.reply = "none"
  BY DEF RunsInProcess, NoCall
<1>2. /\ conv' = [conv EXCEPT ![c] = IF DispatchFails(what, store) THEN fail ELSE run]
      /\ UNCHANGED <<inbox, effect>>
  BY DEF DispatchInProcess
<1> HIDE DEF run
<1>3. /\ DOMAIN fail = {"via", "step", "what", "store", "at", "key", "reply", "told"}
      /\ fail.step = "handled" /\ fail.what = what /\ fail.store = store /\ fail.told = "none"
      /\ fail.reply = "failed"
  BY <1>1
<1> HIDE DEF fail
<1>4. CallOK(c, conv[c], effect[c], inbox)
  BY DEF TransportInv
<1>5. c \notin inbox /\ effect[c].times = 0
  BY <1>4 DEF CallOK
<1>6. CASE DispatchFails(what, store)
  BY <1>2, <1>3, <1>5, <1>6, CallMoves DEF CallOK, TransportInv
<1>7. CASE ~DispatchFails(what, store)
  <2>1. OpensRuntime(what) => store # "none"
    BY <1>7 DEF DispatchFails
  <2> QED
    BY <1>1, <1>2, <1>5, <1>7, <2>1, CallMoves DEF CallOK, TransportInv
<1> QED
  BY <1>6, <1>7

(* The caller's side of a call over the socket.                            *)
LEMMA ClientOK ==
    ASSUME TransportInv, NEW c \in Caller,
           \/ \E what \in Reached : \E store \in StoreArgument(what) : ReadServiceState(c, what, store)
           \/ ReadCredential(c) \/ SendRequest(c) \/ Receive(c) \/ GiveUp(c)
    PROVE  TransportInv'
<1>0. CallOK(c, conv[c], effect[c], inbox)
  BY DEF TransportInv
<1>1. ASSUME NEW what \in Reached, NEW store \in StoreArgument(what), ReadServiceState(c, what, store)
      PROVE  TransportInv'
  <2> DEFINE r == [NoCall EXCEPT !.via = "service", !.step = "found", !.what = what,
                                 !.store = store, !.at = advert.at]
             none == [NoCall EXCEPT !.step = "done", !.told = "absent"]
  <2>1. /\ DOMAIN r = {"via", "step", "what", "store", "at", "key", "reply", "told"}
        /\ r.step = "found" /\ r.store = store /\ r.told = "none" /\ r.reply = "none"
    BY DEF NoCall
  <2>2. /\ DOMAIN none = {"via", "step", "what", "store", "at", "key", "reply", "told"}
        /\ none.step = "done" /\ none.store = "none" /\ none.told = "absent"
        /\ none.reply = "none"
    BY DEF NoCall
  <2>3. /\ conv[c].step = "idle" /\ UNCHANGED <<inbox, effect>>
        /\ conv' = [conv EXCEPT ![c] = r] \/ conv' = [conv EXCEPT ![c] = none]
    BY <1>1 DEF ReadServiceState
  <2> HIDE DEF r, none
  <2>4. store \in {"none", "host", "other"}
    BY DEF StoreArgument
  <2>5. c \notin inbox /\ effect[c].times = 0
    BY <1>0, <2>3 DEF CallOK
  <2>6. CallOK(c, r, effect[c], inbox) /\ CallOK(c, none, effect[c], inbox)
    BY <2>1, <2>2, <2>4, <2>5 DEF CallOK
  <2> QED
    BY <2>3, <2>6, CallMoves DEF TransportInv
<1>2. CASE ReadCredential(c)
  <2>1. /\ conv[c].step = "found" /\ UNCHANGED <<inbox, effect>>
        /\ effect[c].times = 0 /\ c \notin inbox
    BY <1>0, <1>2 DEF ReadCredential, CallOK
  <2>2. CASE Tell(c, "absent")
    BY <2>1, <2>2, TellingIsOK
  <2>3. CASE ~Tell(c, "absent")
    <3> DEFINE r == [conv[c] EXCEPT !.step = "armed", !.key = credential]
    <3>1. conv' = [conv EXCEPT ![c] = r]
      BY <1>2, <2>3 DEF ReadCredential
    <3>2. /\ DOMAIN r = DOMAIN conv[c] /\ r.step = "armed" /\ r.store = conv[c].store
          /\ r.told = conv[c].told /\ r.reply = conv[c].reply
      BY <1>0 DEF CallOK
    <3> HIDE DEF r
    <3>3. CallOK(c, r, effect[c], inbox)
      BY <1>0, <2>1, <3>2 DEF CallOK
    <3> QED
      BY <2>1, <3>1, <3>3, CallMoves DEF TransportInv
  <2> QED
    BY <2>2, <2>3
<1>3. CASE SendRequest(c)
  <2>1. /\ conv[c].step = "armed" /\ UNCHANGED effect /\ effect[c].times = 0 /\ c \notin inbox
        /\ conv[c].reply = "none" /\ conv[c].told = "none"
    BY <1>0, <1>3 DEF SendRequest, CallOK
  <2>2. CASE Answers(up, conv[c].at)
    <3> DEFINE r == [conv[c] EXCEPT !.step = "sent"]
    <3>1. conv' = [conv EXCEPT ![c] = r] /\ inbox' = inbox \cup {c}
      BY <1>3, <2>2 DEF SendRequest, Step
    <3>2. /\ DOMAIN r = DOMAIN conv[c] /\ r.step = "sent" /\ r.store = conv[c].store
          /\ r.told = conv[c].told /\ r.reply = conv[c].reply
      BY <1>0 DEF CallOK
    <3> HIDE DEF r
    <3>3. /\ DOMAIN conv[c] = {"via", "step", "what", "store", "at", "key", "reply", "told"}
          /\ conv[c].store \in {"none", "host", "other"}
      BY <1>0 DEF CallOK
    <3>4. CallOK(c, r, effect[c], inbox')
      BY <2>1, <3>2, <3>3 DEF CallOK
    <3> QED
      BY <2>1, <3>1, <3>4, CallMoves DEF TransportInv
  <2>3. CASE ~Answers(up, conv[c].at)
    BY <1>3, <2>1, <2>3, TellingIsOK DEF SendRequest
  <2> QED
    BY <2>2, <2>3
<1>4. CASE Receive(c)
  <2> DEFINE told == IF conv[c].reply = "unauthorized" THEN "refused" ELSE conv[c].reply
  <2>1. /\ conv[c].step = "sent" /\ conv[c].reply # "none" /\ c \notin inbox
        /\ UNCHANGED <<inbox, effect>> /\ Tell(c, told)
    BY <1>0, <1>4 DEF Receive, CallOK
  <2>2. /\ told = "ok" => RanAsAsked(conv[c], effect[c])
        /\ told # "ok" => effect[c].times = 0
    BY <1>0, <2>1 DEF CallOK
  <2> HIDE DEF told
  <2> QED
    BY <2>1, <2>2, TellingIsOK
<1>5. CASE GiveUp(c)
  <2> DEFINE r == [conv[c] EXCEPT !.step = "done", !.told = "unavailable"]
  <2>1. /\ conv[c].step = "sent" /\ UNCHANGED <<inbox, effect>>
        /\ conv' = [conv EXCEPT ![c] = r]
    BY <1>5 DEF GiveUp
  <2>2. /\ DOMAIN r = DOMAIN conv[c] /\ r.step = "done" /\ r.store = conv[c].store
        /\ r.told = "unavailable" /\ r.reply = conv[c].reply /\ r.what = conv[c].what
    BY <1>0 DEF CallOK
  <2> HIDE DEF r
  <2>3. CallOK(c, r, effect[c], inbox)
    BY <1>0, <2>1, <2>2 DEF CallOK, RanAsAsked
  <2> QED
    BY <2>1, <2>3, CallMoves DEF TransportInv
<1> QED
  BY <1>1, <1>2, <1>3, <1>4, <1>5

(* The host's side: it answers a request that waits, and takes it off.     *)
LEMMA HandlingOK ==
    ASSUME TransportInv, NEW c \in Caller, HostRefuses(c) \/ HostSucceeds(c) \/ HostFails(c)
    PROVE  TransportInv'
<1>0. CallOK(c, conv[c], effect[c], inbox)
  BY DEF TransportInv
<1>1. /\ c \in inbox /\ inbox' = inbox \ {c} /\ effect[c].times = 0
      /\ conv[c].step = "sent" \/ (conv[c].step = "done" /\ conv[c].told = "unavailable")
  BY <1>0 DEF HostRefuses, HostSucceeds, HostFails, CallOK
<1>2. ASSUME NEW reply, conv' = [conv EXCEPT ![c].reply = reply], reply # "ok", UNCHANGED effect
      PROVE  TransportInv'
  <2> DEFINE r == [conv[c] EXCEPT !.reply = reply]
  <2>1. conv' = [conv EXCEPT ![c] = r]
    BY <1>2
  <2>2. /\ DOMAIN r = DOMAIN conv[c] /\ r.step = conv[c].step /\ r.store = conv[c].store
        /\ r.told = conv[c].told /\ r.reply = reply
    BY <1>0 DEF CallOK
  <2> HIDE DEF r
  <2>3. CallOK(c, r, effect[c], inbox')
    BY <1>0, <1>1, <1>2, <2>2 DEF CallOK
  <2> QED
    BY <1>1, <1>2, <2>1, <2>3, CallMoves DEF TransportInv
<1>3. CASE HostRefuses(c) \/ HostFails(c)
  BY <1>2, <1>3 DEF HostRefuses, HostFails
<1>4. CASE HostSucceeds(c)
  <2> DEFINE r == [conv[c] EXCEPT !.reply = "ok"]
             where == IF OpensRuntime(conv[c].what) THEN "host" ELSE "none"
  <2>1. /\ conv' = [conv EXCEPT ![c] = r] /\ Ran(c, where, opened = up)
        /\ conv[c].what = "runtime" => opened = up
        /\ OpensRuntime(conv[c].what) => conv[c].store # "other"
    BY <1>4 DEF HostSucceeds, HostedAccepts
  <2>2. /\ DOMAIN r = DOMAIN conv[c] /\ r.step = conv[c].step /\ r.store = conv[c].store
        /\ r.told = conv[c].told /\ r.reply = "ok" /\ r.what = conv[c].what
    BY <1>0 DEF CallOK
  <2>3. /\ DOMAIN effect' = Caller /\ \A d \in Caller : d # c => effect'[d] = effect[d]
        /\ effect'[c].times = 1 /\ effect'[c].where = where /\ effect'[c].fenced = (opened = up)
    <3>1. (opened = up) \in BOOLEAN
      OBVIOUS
    <3> QED
      BY <1>1, <2>1, <3>1, RunsOnce
  <2>4. conv[c].what = "runtime" => effect'[c].fenced = TRUE
    BY <2>1, <2>3
  <2> HIDE DEF r
  <2>5. RanAsAsked(r, effect'[c])
    BY <1>0, <2>1, <2>2, <2>3, <2>4 DEF RanAsAsked, CallOK
  <2>6. CallOK(c, r, effect'[c], inbox')
    BY <1>0, <1>1, <2>2, <2>3, <2>5 DEF CallOK
  <2> QED
    BY <1>1, <2>1, <2>3, <2>6, CallMoves
<1> QED
  BY <1>3, <1>4

(* Calls in the process of the caller: the command line and the MCP server.*)
LEMMA LocalCallsOK ==
    ASSUME TransportInv, NEW c \in Caller,
           \/ \E what \in Reached : \E store \in StoreArgument(what) :
                 Emit(c, what, store) \/ McpCalls(c, what, store)
           \/ McpRejects(c) \/ McpDescribes(c) \/ HandlerSucceeds(c) \/ HandlerFails(c)
           \/ Exits(c) \/ McpAnswers(c) \/ CallerDies(c)
    PROVE  TransportInv'
<1>0. CallOK(c, conv[c], effect[c], inbox)
  BY DEF TransportInv
<1>1. ASSUME NEW what \in Reached, NEW store \in StoreArgument(what),
             Emit(c, what, store) \/ McpCalls(c, what, store)
      PROVE  TransportInv'
  <2>1. store \in {"none", "host", "other"}
    BY DEF StoreArgument
  <2> QED
    BY <1>1, <2>1, InProcessOK DEF Emit, McpCalls
<1>2. CASE McpRejects(c) \/ McpDescribes(c)
  <2>1. conv[c].step = "idle" /\ UNCHANGED <<inbox, effect>> /\ effect[c].times = 0 /\ c \notin inbox
    BY <1>0, <1>2 DEF McpRejects, McpDescribes, CallOK
  <2>2. Tell(c, "refused") \/ Tell(c, "described")
    BY <1>2 DEF McpRejects, McpDescribes
  <2> QED
    BY <2>1, <2>2, TellingIsOK
<1>3. ASSUME NEW reply, conv' = [conv EXCEPT ![c] = [conv[c] EXCEPT !.step = "handled", !.reply = reply]],
             conv[c].step = "running", UNCHANGED inbox,
             DOMAIN effect' = Caller, \A d \in Caller : d # c => effect'[d] = effect[d],
             effect'[c].times \in {0, 1},
             reply = "ok" => RanAsAsked(conv[c], effect'[c]), reply # "ok" => effect'[c].times = 0
      PROVE  TransportInv'
  <2> DEFINE r == [conv[c] EXCEPT !.step = "handled", !.reply = reply]
  <2>1. /\ DOMAIN r = DOMAIN conv[c] /\ r.step = "handled" /\ r.store = conv[c].store
        /\ r.told = conv[c].told /\ r.reply = reply /\ r.what = conv[c].what
    BY <1>0 DEF CallOK
  <2>2. conv' = [conv EXCEPT ![c] = r]
    BY <1>3
  <2> HIDE DEF r
  <2>3. RanAsAsked(conv[c], effect'[c]) => RanAsAsked(r, effect'[c])
    BY <2>1 DEF RanAsAsked
  <2>4. CallOK(c, r, effect'[c], inbox')
    BY <1>0, <1>3, <2>1, <2>3 DEF CallOK
  <2> QED
    BY <1>3, <2>2, <2>4, CallMoves
<1>4. CASE HandlerSucceeds(c)
  <2> DEFINE where == IF OpensRuntime(conv[c].what) THEN conv[c].store ELSE "none"
             fenced == conv[c].store = "host" => opened = c
  <2>1. /\ conv[c].step = "running" /\ Ran(c, where, fenced) /\ UNCHANGED inbox
        /\ conv' = [conv EXCEPT ![c] = [conv[c] EXCEPT !.step = "handled", !.reply = "ok"]]
        /\ conv[c].what = "runtime" => fenced
    BY <1>4 DEF HandlerSucceeds
  <2>2. effect[c].times = 0 /\ (OpensRuntime(conv[c].what) => conv[c].store # "none")
    BY <1>0, <2>1 DEF CallOK
  <2>3. fenced \in BOOLEAN
    OBVIOUS
  <2>4. /\ DOMAIN effect' = Caller /\ \A d \in Caller : d # c => effect'[d] = effect[d]
        /\ effect'[c].times = 1 /\ effect'[c].where = where /\ effect'[c].fenced = fenced
    BY <2>1, <2>2, <2>3, RunsOnce
  <2>5. conv[c].what = "runtime" => effect'[c].fenced = TRUE
    BY <2>1, <2>3, <2>4
  <2>6. RanAsAsked(conv[c], effect'[c])
    BY <2>2, <2>4, <2>5 DEF RanAsAsked
  <2> QED
    BY <1>3, <2>1, <2>4, <2>6
<1>5. CASE HandlerFails(c)
  <2>1. /\ conv[c].step = "running" /\ UNCHANGED <<inbox, effect>> /\ effect[c].times = 0
        /\ conv' = [conv EXCEPT ![c] = [conv[c] EXCEPT !.step = "handled", !.reply = "failed"]]
    BY <1>0, <1>5 DEF HandlerFails, CallOK
  <2>2. /\ DOMAIN effect' = Caller /\ \A d \in Caller : d # c => effect'[d] = effect[d]
        /\ effect'[c].times = 0 /\ effect'[c].times \in {0, 1}
    BY <2>1 DEF TransportInv
  <2>3. "failed" # "ok" /\ UNCHANGED inbox
    BY <2>1
  <2> QED
    BY <1>3, <2>1, <2>2, <2>3
<1>6. CASE Exits(c) \/ McpAnswers(c)
  <2>1. /\ conv[c].step = "handled" /\ UNCHANGED <<inbox, effect>> /\ c \notin inbox
    BY <1>0, <1>6 DEF Exits, McpAnswers, CallOK
  <2>2. Tell(c, conv[c].reply) \/ Tell(c, "silence")
    BY <1>6 DEF Exits, McpAnswers
  <2>3. /\ conv[c].reply = "ok" => RanAsAsked(conv[c], effect[c])
        /\ conv[c].reply # "ok" => effect[c].times = 0
    BY <1>0, <2>1 DEF CallOK
  <2> QED
    BY <2>1, <2>2, <2>3, TellingIsOK
<1>7. CASE CallerDies(c)
  <2>1. Tell(c, "silence") /\ UNCHANGED <<inbox, effect>> /\ c \notin inbox
    BY <1>0, <1>7 DEF CallerDies, CallOK
  <2> QED
    BY <2>1, TellingIsOK
<1> QED
  BY <1>1, <1>2, <1>4, <1>5, <1>6, <1>7

LEMMA TransportStepOK == TransportInv /\ [TransportNext]_transportVars => TransportInv'
<1> SUFFICES ASSUME TransportInv, [TransportNext]_transportVars PROVE TransportInv'
  OBVIOUS
<1>1. ASSUME UNCHANGED <<conv, effect>>, inbox' \subseteq inbox PROVE TransportInv'
  BY <1>1 DEF TransportInv, CallOK, RanAsAsked, OpensRuntime
<1>2. CASE \/ \E i \in HostRun : HostOpens(i)
           \/ HostListens \/ HostStops \/ HostCrashes \/ UNCHANGED transportVars
  <2>1. UNCHANGED <<conv, effect>> /\ inbox' \subseteq inbox
    BY <1>2 DEF HostOpens, HostListens, HostStops, HostCrashes, transportVars
  <2> QED
    BY <1>1, <2>1
<1> QED
  BY <1>2, ClientOK, HandlingOK, LocalCallsOK DEF TransportNext

(* Whatever a caller is told, its operation ran at most once and only as   *)
(* asked, and what it is told for certain is so: for any number of callers *)
(* and of incarnations of the host, whichever ports these listen on,       *)
(* whoever takes the fence in between and whoever gives up                 *)
(* (LocalServiceClient.call, _dispatch_transport, Application.dispatch).   *)
THEOREM CallersAreToldTheTruth == TransportSpec => []AnswersAreTrue
<1>1. TransportInv => AnswersAreTrue
  <2> SUFFICES ASSUME TransportInv, NEW c \in Caller
               PROVE  /\ effect[c].times <= 1
                      /\ effect[c].times = 1 =>
                            /\ conv[c].what = "runtime" => effect[c].fenced
                            /\ OpensRuntime(conv[c].what) =>
                                  effect[c].where = IF conv[c].store = "none" THEN "host"
                                                    ELSE conv[c].store
                      /\ conv[c].told = "ok" => effect[c].times = 1
                      /\ conv[c].told \in {"refused", "absent", "described"} =>
                            effect[c].times = 0
    BY DEF AnswersAreTrue
  <2>1. CallOK(c, conv[c], effect[c], inbox)
    BY DEF TransportInv
  <2>2. effect[c].times <= 1
    BY <2>1 DEF CallOK
  <2>3. effect[c].times = 1 => RanAsAsked(conv[c], effect[c])
    BY <2>1 DEF CallOK
  <2> QED
    BY <2>1, <2>2, <2>3 DEF CallOK, RanAsAsked
<1> QED
  BY <1>1, TransportInitOK, TransportStepOK, PTL DEF TransportSpec

-----------------------------------------------------------------------------
(* Provider executions.                                                    *)

(* Steps of a call whose authorization was committed: of all calls for one *)
(* Attempt, only one ever takes them.                                      *)
LiveSteps == {"authorized", "started", "running", "judged", "failed"}

(* What passing evidence stands for.                                       *)
Earned(r, c, t, a) ==
    /\ c = "exited"
    /\ a.ended = "object" /\ a.status = "SUCCESS" /\ a.bound = TRUE /\ a.claimed \subseteq OwnedPath
    /\ \A p \in OwnedPath : Present(t, p)
    /\ r.dispatched \in AllowedProvider
    /\ r.dispatched # "deepseek" => AtBaseline(t)

GateVerdict(verdict) == IF verdict = "SUCCESS" THEN "passed" ELSE "failed"

(* The records: r is the row of the Attempt, n counts launches, ev is the  *)
(* evidence, c the process, t the worktree and a the answer.               *)
RecordsOK(r, n, ev, c, t, a) ==
    /\ DOMAIN r = {"state", "dispatched"} /\ r.dispatched \in AllowedProvider \cup {"none"}
    /\ n \in {0, 1}
    /\ n = 1 => r.dispatched # "none" /\ r.state # "PENDING"
    /\ n = 0 => c = "none"
    /\ DOMAIN ev = RequiredGate
    /\ \A g \in RequiredGate : ev[g] \in {"none", "passed", "failed"}
    /\ r.dispatched = "none" => \A g \in RequiredGate : ev[g] = "none"
    /\ (\E g \in RequiredGate : ev[g] = "passed") => Earned(r, c, t, a)
    /\ \A g, h \in RequiredGate : ev[g] # "none" /\ ev[h] # "none" => ev[g] = ev[h]

(* A call x against these records.                                         *)
CallOnTrack(x, r, n, ev, c, t, a) ==
    /\ DOMAIN x = {"step", "provider", "before", "verdict"}
    /\ x.step \in {"idle", "prepared"} \cup LiveSteps
    /\ x.step # "idle" => x.provider \in AllowedProvider
    /\ x.step \in LiveSteps => r.dispatched = x.provider
    /\ x.step \in {"authorized", "started"} => n = 0
    /\ x.step \in {"authorized", "started", "running"} => \A g \in RequiredGate : ev[g] = "none"
    /\ x.step \in LiveSteps \ {"authorized"} => r.state # "PENDING"
    /\ x.step = "judged" => \A g \in RequiredGate : ev[g] \in {"none", GateVerdict(x.verdict)}
    /\ x.step = "judged" /\ x.verdict = "SUCCESS" =>
          /\ Earned(r, c, t, a)
          /\ x.provider # "codex" =>
                \A p \in Path \ OwnedPath : t.content[p] = x.before.content[p]

ExecutionInv ==
    /\ RecordsOK(row, launches, evidenceOf, child, tree, answer)
    /\ DOMAIN exec = Worker
    /\ \A w \in Worker : CallOnTrack(exec[w], row, launches, evidenceOf, child, tree, answer)
    /\ \A v, w \in Worker : exec[v].step \in LiveSteps /\ exec[w].step \in LiveSteps => v = w

LEMMA NoneIsNoProvider == "none" \notin AllowedProvider /\ "NONE" \notin ProviderId
BY ExecutionAssumption DEF ProviderId

LEMMA ExecutionInitOK == ExecutionInit => ExecutionInv
<1> SUFFICES ASSUME ExecutionInit PROVE ExecutionInv
  OBVIOUS
<1>1. /\ DOMAIN AtRest = {"step", "provider", "before", "verdict"} /\ AtRest.step = "idle"
  BY DEF AtRest
<1>2. \A w \in Worker : exec[w] = AtRest
  BY DEF ExecutionInit
<1>3. RecordsOK(row, launches, evidenceOf, child, tree, answer)
  BY DEF ExecutionInit, RecordsOK
<1>4. DOMAIN exec = Worker
  BY DEF ExecutionInit
<1>5. \A w \in Worker : CallOnTrack(exec[w], row, launches, evidenceOf, child, tree, answer)
  BY <1>1, <1>2 DEF CallOnTrack, LiveSteps
<1> QED
  BY <1>1, <1>2, <1>3, <1>4, <1>5 DEF ExecutionInv, LiveSteps

(* The first of the providers that are eligible is one of them.            *)
LEMMA FirstInPlace ==
    ASSUME NEW S \in SUBSET ProviderId, S # {}
    PROVE  \E id \in S : \A other \in S : Place(id) <= Place(other)
<1>1. Place("claude") = 1 /\ Place("codex") = 2 /\ Place("deepseek") = 3
  BY DEF Place
<1>2. CASE "claude" \in S
  <2>1. \A other \in S : Place("claude") <= Place(other)
    BY <1>1 DEF ProviderId
  <2> QED
    BY <1>2, <2>1
<1>3. CASE "claude" \notin S /\ "codex" \in S
  <2>1. \A other \in S : Place("codex") <= Place(other)
    BY <1>1, <1>3 DEF ProviderId
  <2> QED
    BY <1>3, <2>1
<1>4. CASE "claude" \notin S /\ "codex" \notin S
  <2>1. S = {"deepseek"}
    BY <1>4 DEF ProviderId
  <2> QED
    BY <1>1, <2>1
<1> QED
  BY <1>2, <1>3, <1>4

LEMMA LoadedAreProviders ==
    ASSUME NEW machine, NEW configuration, NEW certified,
           NEW j \in LoadGraph(machine, configuration, certified)
    PROVE  j.provider \in ProviderId
<1>1. PICK id \in {i \in ProviderId : configuration[i].enabled} :
         j = [provider |-> id,
              available |-> Readiness(id, machine[id], configuration[id]) = "AVAILABLE",
              roles |-> configuration[id].roles, governed |-> configuration[id].governed,
              capabilities |-> Capabilities(id, machine[id]),
              certified |-> certified[id] \cap configuration[id].roles]
  BY Zenon DEF LoadGraph
<1>2. j.provider = id
  BY <1>1
<1> QED
  BY <1>1, <1>2

(* What is resolved for an execution is allowed by the Envelope.           *)
LEMMA ResolvedIsAllowed ==
    ASSUME NEW id \in ProviderId, NEW m \in Machine, id = Resolve(Composed(m), ExecutionRequest(id))
    PROVE  id \in AllowedProvider
<1> DEFINE request == ExecutionRequest(id)
           eligible == {j \in Composed(m) : Eligible(j, request)}
           candidates == {i.provider : i \in eligible}
<1>1. request.allowed = AllowedProvider /\ request.preferred = id
  BY DEF ExecutionRequest
<1>2. \A j \in Composed(m) : j.provider \in ProviderId
  BY LoadedAreProviders DEF Composed
<1>3. \A j \in eligible : j.provider \in AllowedProvider
  BY <1>1, ExecutionAssumption DEF Eligible
<1>4. candidates \subseteq ProviderId /\ candidates \subseteq AllowedProvider
  BY <1>2, <1>3
<1>5. id = IF candidates = {} THEN "NONE"
           ELSE IF request.preferred \in candidates THEN request.preferred
           ELSE CHOOSE i \in candidates : \A other \in candidates : Place(i) <= Place(other)
  BY DEF Resolve
<1> HIDE DEF candidates, request
<1>6. candidates # {}
  BY <1>5, NoneIsNoProvider
<1>7. \E i \in candidates : \A other \in candidates : Place(i) <= Place(other)
  BY <1>4, <1>6, FirstInPlace
<1>8. (CHOOSE i \in candidates : \A other \in candidates : Place(i) <= Place(other)) \in candidates
  BY <1>7
<1> QED
  BY <1>4, <1>5, <1>6, <1>8

(* A call that is judged a SUCCESS has earned it.                          *)
LEMMA SuccessIsEarned ==
    ASSUME NEW w \in Worker, NEW a \in Answer, Judged(w, a) = "SUCCESS",
           exec[w].provider \in ProviderId
    PROVE  /\ a.ended = "object" /\ a.status = "SUCCESS" /\ a.bound = TRUE
           /\ a.claimed \subseteq OwnedPath /\ \A p \in OwnedPath : Present(tree, p)
           /\ exec[w].provider # "deepseek" => AtBaseline(tree)
           /\ exec[w].provider # "codex" => UnownedKept(w)
<1> DEFINE id == exec[w].provider
<1>1. /\ AdapterOutcome(id, exec[w].before, tree, a) = "SUCCESS" /\ OwnedArtifactsHold(a.claimed)
      /\ id = "deepseek" => UnownedKept(w)
  BY DEF Judged
<1>2. a.bound \in BOOLEAN
  BY DEF Answer
<1>3. a.status \in ExecutionStatus /\ a.status # "RAISES"
  BY DEF Answer, ExecutionStatus
<1>4. CASE id = "codex"
  <2>1. CodexOutcome(exec[w].before, tree, a) = "SUCCESS"
    BY <1>1, <1>4 DEF AdapterOutcome
  <2>2. CodexRunner(a) # "RAISES" /\ Classified(CodexRunner(a), AtBaseline(tree)) = "SUCCESS"
    BY <2>1 DEF CodexOutcome
  <2>3. AtBaseline(tree) /\ CodexRunner(a) = "SUCCESS"
    BY <2>2 DEF Classified
  <2>4. a.ended = "object" /\ a.status = "SUCCESS" /\ a.bound = TRUE
    BY <1>2, <2>3 DEF CodexRunner, CodexFits
  <2> QED
    BY <1>1, <1>4, <2>3, <2>4 DEF OwnedArtifactsHold
<1>5. CASE id = "claude"
  <2>1. ClaudeOutcome(exec[w].before, tree, a) = "SUCCESS"
    BY <1>1, <1>5 DEF AdapterOutcome
  <2>2. ClaudeRunner(a) = "SUCCESS" /\ AtBaseline(tree) /\ ClaudeStayedInside(exec[w].before, tree)
    BY <2>1 DEF ClaudeOutcome
  <2>3. a.ended = "object" /\ a.status = "SUCCESS" /\ a.bound = TRUE
    BY <1>2, <2>2 DEF ClaudeRunner, ClaudeFits
  <2>4. UnownedKept(w)
    BY <2>2 DEF ClaudeStayedInside, Changed, UnownedKept
  <2> QED
    BY <1>1, <1>5, <2>2, <2>3, <2>4 DEF OwnedArtifactsHold
<1>6. CASE id = "deepseek"
  <2>1. DeepSeekOutcome(a) = "SUCCESS"
    BY <1>1, <1>6 DEF AdapterOutcome
  <2>2. a.ended = "object" /\ a.status = "SUCCESS" /\ a.bound = TRUE
    BY <1>2, <2>1 DEF DeepSeekOutcome, DeepSeekNormalized, Classified
  <2> QED
    BY <1>1, <1>6, <2>2 DEF OwnedArtifactsHold
<1> QED
  BY <1>4, <1>5, <1>6 DEF ProviderId

(* A call that is not live is on track whatever the records say.           *)
LEMMA NotLiveIsOnTrack ==
    ASSUME NEW x, NEW r, NEW n, NEW ev, NEW c, NEW t, NEW a,
           DOMAIN x = {"step", "provider", "before", "verdict"}, x.step \in {"idle", "prepared"},
           x.step # "idle" => x.provider \in AllowedProvider
    PROVE  CallOnTrack(x, r, n, ev, c, t, a)
BY DEF CallOnTrack, LiveSteps

(* The call of w becomes x; the others stay as they are.                   *)
CallBecomes(w, x) ==
    /\ DOMAIN exec' = Worker /\ exec'[w] = x
    /\ \A v \in Worker : v # w => exec'[v] = exec[v]

(* The one live call takes a step, or a call becomes live when no other is.*)
LEMMA LiveCallMoves ==
    ASSUME ExecutionInv, NEW w \in Worker, NEW x, CallBecomes(w, x),
           exec[w].step \in LiveSteps \/ row.dispatched = "none",
           RecordsOK(row', launches', evidenceOf', child', tree', answer'),
           CallOnTrack(x, row', launches', evidenceOf', child', tree', answer')
    PROVE  ExecutionInv'
<1>1. /\ DOMAIN exec' = Worker /\ exec'[w] = x
      /\ \A v \in Worker : v # w => exec'[v] = exec[v]
  BY DEF CallBecomes
<1>2. \A v \in Worker : CallOnTrack(exec[v], row, launches, evidenceOf, child, tree, answer)
  BY DEF ExecutionInv
<1>3. ASSUME NEW v \in Worker, v # w PROVE exec[v].step \notin LiveSteps
  <2>1. CASE exec[w].step \in LiveSteps
    BY <1>3, <2>1 DEF ExecutionInv
  <2>2. CASE row.dispatched = "none"
    BY <1>2, <2>2, NoneIsNoProvider DEF CallOnTrack, LiveSteps
  <2> QED
    BY <2>1, <2>2
<1>4. ASSUME NEW v \in Worker
      PROVE  CallOnTrack(exec'[v], row', launches', evidenceOf', child', tree', answer')
  <2>1. CASE v = w
    BY <1>1, <2>1
  <2>2. CASE v # w
    <3>1. /\ DOMAIN exec[v] = {"step", "provider", "before", "verdict"}
          /\ exec[v].step \in {"idle", "prepared"}
          /\ exec[v].step # "idle" => exec[v].provider \in AllowedProvider
      BY <1>2, <1>3, <2>2 DEF CallOnTrack
    <3> QED
      BY <1>1, <2>2, <3>1, NotLiveIsOnTrack
  <2> QED
    BY <2>1, <2>2
<1>5. \A u, v \in Worker : exec'[u].step \in LiveSteps /\ exec'[v].step \in LiveSteps => u = v
  BY <1>1, <1>3
<1> HIDE DEF RecordsOK, CallOnTrack
<1> QED
  BY <1>1, <1>4, <1>5 DEF ExecutionInv

(* The row changes its state, but not back to PENDING.                     *)
RowMoves ==
    /\ DOMAIN row' = {"state", "dispatched"} /\ row'.dispatched = row.dispatched
    /\ row'.state = "PENDING" => row.state = "PENDING"

LEMMA RowMovesOK ==
    ASSUME ExecutionInv, RowMoves
    PROVE  /\ RecordsOK(row', launches, evidenceOf, child, tree, answer)
           /\ \A w \in Worker :
                 CallOnTrack(exec[w], row', launches, evidenceOf, child, tree, answer)
<1>1. Earned(row, child, tree, answer) => Earned(row', child, tree, answer)
  BY DEF RowMoves, Earned
<1>2. RecordsOK(row', launches, evidenceOf, child, tree, answer)
  BY <1>1 DEF RowMoves, ExecutionInv, RecordsOK
<1>3. ASSUME NEW w \in Worker
      PROVE  CallOnTrack(exec[w], row', launches, evidenceOf, child, tree, answer)
  <2>1. CallOnTrack(exec[w], row, launches, evidenceOf, child, tree, answer)
    BY DEF ExecutionInv
  <2> QED
    BY <1>1, <2>1 DEF RowMoves, CallOnTrack
<1> QED
  BY <1>2, <1>3

(* A call ends, or begins to prepare, beside the live one.                 *)
LEMMA CallRests ==
    ASSUME ExecutionInv, RowMoves, UNCHANGED <<evidenceOf, tree, child, launches, answer>>,
           NEW w \in Worker, NEW x, exec' = [exec EXCEPT ![w] = x],
           DOMAIN x = {"step", "provider", "before", "verdict"}, x.step \in {"idle", "prepared"},
           x.step # "idle" => x.provider \in AllowedProvider
    PROVE  ExecutionInv'
<1>1. /\ DOMAIN exec' = Worker /\ exec'[w] = x
      /\ \A v \in Worker : v # w => exec'[v] = exec[v]
  BY DEF ExecutionInv
<1>2. /\ RecordsOK(row', launches, evidenceOf, child, tree, answer)
      /\ \A v \in Worker : CallOnTrack(exec[v], row', launches, evidenceOf, child, tree, answer)
  BY RowMovesOK
<1>3. CallOnTrack(x, row', launches, evidenceOf, child, tree, answer)
  BY NotLiveIsOnTrack
<1>4. x.step \notin LiveSteps
  BY DEF LiveSteps
<1>5. \A u, v \in Worker : exec'[u].step \in LiveSteps /\ exec'[v].step \in LiveSteps => u = v
  BY <1>1, <1>4 DEF ExecutionInv
<1>6. \A v \in Worker : CallOnTrack(exec'[v], row', launches, evidenceOf, child, tree, answer)
  BY <1>1, <1>2, <1>3
<1> QED
  BY <1>1, <1>2, <1>5, <1>6 DEF ExecutionInv

(* The worktree changes under a process that works, or before there is one.*)
LEMMA WorktreeMoves ==
    ASSUME ExecutionInv, child # "exited",
           UNCHANGED <<row, evidenceOf, child, launches, answer, exec>>
    PROVE  ExecutionInv'
<1>1. ~Earned(row, child, tree, answer) /\ ~Earned(row, child, tree', answer)
  BY DEF Earned
<1>2. RecordsOK(row, launches, evidenceOf, child, tree', answer)
  BY <1>1 DEF ExecutionInv, RecordsOK
<1>3. ASSUME NEW w \in Worker
      PROVE  CallOnTrack(exec[w], row, launches, evidenceOf, child, tree', answer)
  <2>1. CallOnTrack(exec[w], row, launches, evidenceOf, child, tree, answer)
    BY DEF ExecutionInv
  <2> QED
    BY <1>1, <2>1 DEF CallOnTrack
<1> QED
  BY <1>2, <1>3 DEF ExecutionInv

LEMMA LeavingOK ==
    ASSUME ExecutionInv, NEW w \in Worker, Leaves(w), RowMoves,
           UNCHANGED <<evidenceOf, tree, child, launches, answer>>
    PROVE  ExecutionInv'
<1>1. DOMAIN AtRest = {"step", "provider", "before", "verdict"} /\ AtRest.step = "idle"
  BY DEF AtRest
<1> QED
  BY <1>1, CallRests DEF Leaves

(* A live call raises inside the try: nothing else changes.                *)
LEMMA FailingOK ==
    ASSUME ExecutionInv, NEW w \in Worker, Goes(w, "failed"),
           exec[w].step \in {"started", "running", "judged"},
           UNCHANGED <<row, evidenceOf, tree, launches>>,
           UNCHANGED <<child, answer>> \/ exec[w].step = "running",
           launches = 0 => child' = "none"
    PROVE  ExecutionInv'
<1> DEFINE x == [exec[w] EXCEPT !.step = "failed"]
<1>1. CallOnTrack(exec[w], row, launches, evidenceOf, child, tree, answer)
  BY DEF ExecutionInv
<1>2. DOMAIN x = DOMAIN exec[w] /\ x.step = "failed" /\ x.provider = exec[w].provider
  BY <1>1 DEF CallOnTrack
<1>3. CallBecomes(w, x)
  BY DEF Goes, CallBecomes, ExecutionInv
<1> HIDE DEF x
<1>4. CallOnTrack(x, row, launches, evidenceOf, child', tree, answer')
  BY <1>1, <1>2 DEF CallOnTrack, LiveSteps
<1>5. RecordsOK(row, launches, evidenceOf, child', tree, answer')
  <2>1. CASE UNCHANGED <<child, answer>>
    BY <2>1 DEF ExecutionInv
  <2>2. CASE exec[w].step = "running"
    <3>1. \A g \in RequiredGate : evidenceOf[g] = "none"
      BY <1>1, <2>2 DEF CallOnTrack
    <3> QED
      BY <3>1 DEF ExecutionInv, RecordsOK
  <2> QED
    BY <2>1, <2>2
<1> QED
  BY <1>3, <1>4, <1>5, LiveCallMoves DEF LiveSteps

(* What the row of w's call looks like while the call goes on.             *)
LEMMA CallOf ==
    ASSUME ExecutionInv, NEW w \in Worker
    PROVE  /\ CallOnTrack(exec[w], row, launches, evidenceOf, child, tree, answer)
           /\ RecordsOK(row, launches, evidenceOf, child, tree, answer)
BY DEF ExecutionInv

LEMMA PrepareOK ==
    ASSUME ExecutionInv, NEW w \in Worker, NEW id \in ProviderId, PrepareExecution(w, id)
    PROVE  ExecutionInv'
<1> DEFINE x == [step |-> "prepared", provider |-> id, before |-> tree, verdict |-> "none"]
<1>1. PICK m \in Machine : id = Resolve(Composed(m), ExecutionRequest(id))
  BY DEF PrepareExecution
<1>2. id \in AllowedProvider
  BY <1>1, ResolvedIsAllowed
<1>3. RowMoves /\ UNCHANGED <<evidenceOf, tree, child, launches, answer>>
  BY CallOf DEF PrepareExecution, onRecord, worldVars, RowMoves, RecordsOK
<1>4. exec' = [exec EXCEPT ![w] = x]
  BY DEF PrepareExecution
<1>5. /\ DOMAIN x = {"step", "provider", "before", "verdict"}
      /\ x.step = "prepared" /\ x.provider \in AllowedProvider
  BY <1>2
<1> HIDE DEF x
<1> QED
  BY <1>3, <1>4, <1>5, CallRests

LEMMA AuthorizeOK ==
    ASSUME ExecutionInv, NEW w \in Worker, AuthorizeExecution(w)
    PROVE  ExecutionInv'
<1>1. UNCHANGED <<evidenceOf, tree, child, launches, answer>>
  BY DEF AuthorizeExecution, worldVars
<1>2. CASE fence = w /\ row.state = "PENDING" /\ row.dispatched = "none"
  <2> DEFINE x == [exec[w] EXCEPT !.step = "authorized"]
             r == [row EXCEPT !.dispatched = exec[w].provider]
  <2>1. row' = r /\ Goes(w, "authorized") /\ exec[w].step = "prepared"
    BY <1>2 DEF AuthorizeExecution, At
  <2>2. /\ DOMAIN exec[w] = {"step", "provider", "before", "verdict"}
        /\ exec[w].provider \in AllowedProvider
    BY <2>1, CallOf DEF CallOnTrack
  <2>3. /\ DOMAIN x = {"step", "provider", "before", "verdict"}
        /\ x.step = "authorized" /\ x.provider = exec[w].provider
    BY <2>2
  <2>4. CallBecomes(w, x)
    BY <2>1 DEF Goes, CallBecomes, ExecutionInv
  <2>5. /\ DOMAIN r = {"state", "dispatched"} /\ r.state = "PENDING"
        /\ r.dispatched = exec[w].provider
    BY <1>2, CallOf DEF RecordsOK
  <2>6. launches = 0 /\ \A g \in RequiredGate : evidenceOf[g] = "none"
    BY <1>2, CallOf DEF RecordsOK
  <2> HIDE DEF x, r
  <2>7. RecordsOK(r, launches, evidenceOf, child, tree, answer)
    BY <2>2, <2>5, <2>6, CallOf DEF RecordsOK
  <2>8. CallOnTrack(x, r, launches, evidenceOf, child, tree, answer)
    BY <2>2, <2>3, <2>5, <2>6 DEF CallOnTrack, LiveSteps
  <2> QED
    BY <1>1, <1>2, <2>1, <2>4, <2>7, <2>8, LiveCallMoves
<1>3. CASE ~(fence = w /\ row.state = "PENDING" /\ row.dispatched = "none")
  <2>1. Leaves(w) /\ row' = row
    BY <1>3 DEF AuthorizeExecution
  <2>2. RowMoves
    BY <2>1, CallOf DEF RowMoves, RecordsOK
  <2> QED
    BY <1>1, <2>1, <2>2, LeavingOK
<1> QED
  BY <1>2, <1>3

LEMMA StartOK ==
    ASSUME ExecutionInv, NEW w \in Worker, StartExecution(w)
    PROVE  ExecutionInv'
<1>1. UNCHANGED <<evidenceOf, tree, child, launches, answer>>
  BY DEF StartExecution, worldVars
<1>2. CASE fence = w /\ row.state = "PENDING"
  <2> DEFINE x == [exec[w] EXCEPT !.step = "started"]
  <2>1. /\ row' = [row EXCEPT !.state = "RUNNING"] /\ Goes(w, "started")
        /\ exec[w].step = "authorized"
    BY <1>2 DEF StartExecution, At
  <2>2. RowMoves /\ row'.state = "RUNNING"
    BY <2>1, CallOf DEF RowMoves, RecordsOK
  <2>3. /\ RecordsOK(row', launches, evidenceOf, child, tree, answer)
        /\ CallOnTrack(exec[w], row', launches, evidenceOf, child, tree, answer)
    BY <2>2, RowMovesOK
  <2>4. /\ DOMAIN x = DOMAIN exec[w] /\ x.step = "started" /\ x.provider = exec[w].provider
    BY <2>3 DEF CallOnTrack
  <2>5. CallBecomes(w, x)
    BY <2>1 DEF Goes, CallBecomes, ExecutionInv
  <2> HIDE DEF x
  <2>6. CallOnTrack(x, row', launches, evidenceOf, child, tree, answer)
    BY <2>1, <2>2, <2>3, <2>4 DEF CallOnTrack, LiveSteps
  <2> QED
    BY <1>1, <2>1, <2>3, <2>5, <2>6, LiveCallMoves DEF LiveSteps
<1>3. CASE ~(fence = w /\ row.state = "PENDING")
  <2>1. Leaves(w) /\ row' = row
    BY <1>3 DEF StartExecution
  <2>2. RowMoves
    BY <2>1, CallOf DEF RowMoves, RecordsOK
  <2> QED
    BY <1>1, <2>1, <2>2, LeavingOK
<1> QED
  BY <1>2, <1>3

LEMMA LaunchOK ==
    ASSUME ExecutionInv, NEW w \in Worker, LaunchProvider(w)
    PROVE  ExecutionInv'
<1>1. UNCHANGED <<row, evidenceOf, tree, answer>> /\ exec[w].step = "started"
  BY DEF LaunchProvider, At, onRecord
<1>2. CallOnTrack(exec[w], row, launches, evidenceOf, child, tree, answer)
  BY CallOf
<1>3. CASE MayLaunch(exec[w].provider, tree)
  <2> DEFINE b == IF exec[w].provider = "deepseek" THEN exec[w].before ELSE tree
             x == [exec[w] EXCEPT !.step = "running", !.before = b]
  <2>1. exec' = [exec EXCEPT ![w] = x] /\ child' = "working" /\ launches' = launches + 1
    BY <1>3 DEF LaunchProvider
  <2>2. CallBecomes(w, x)
    BY <2>1 DEF CallBecomes, ExecutionInv
  <2>3. DOMAIN x = DOMAIN exec[w] /\ x.step = "running" /\ x.provider = exec[w].provider
    BY <1>2 DEF CallOnTrack
  <2> HIDE DEF x
  <2>4. /\ launches = 0 /\ row.dispatched \in AllowedProvider /\ row.state # "PENDING"
        /\ \A g \in RequiredGate : evidenceOf[g] = "none"
    BY <1>1, <1>2 DEF CallOnTrack, LiveSteps
  <2>5. launches' = 1
    BY <2>1, <2>4
  <2>6. RecordsOK(row, launches', evidenceOf, child', tree, answer)
    BY <2>4, <2>5, CallOf, NoneIsNoProvider DEF RecordsOK
  <2>7. CallOnTrack(x, row, launches', evidenceOf, child', tree, answer)
    BY <1>1, <1>2, <2>3, <2>4 DEF CallOnTrack, LiveSteps
  <2> QED
    BY <1>1, <2>2, <2>6, <2>7, LiveCallMoves DEF LiveSteps
<1>4. CASE ~MayLaunch(exec[w].provider, tree)
  <2>1. Goes(w, "failed") /\ UNCHANGED <<child, launches>>
    BY <1>4 DEF LaunchProvider
  <2>2. launches = 0 => child = "none"
    BY CallOf DEF RecordsOK
  <2> QED
    BY <1>1, <2>1, <2>2, FailingOK
<1> QED
  BY <1>3, <1>4

LEMMA EndsOK ==
    ASSUME ExecutionInv, NEW w \in Worker, NEW a \in Answer, ProviderEnds(w, a)
    PROVE  ExecutionInv'
<1>1. /\ UNCHANGED <<row, evidenceOf, tree, launches>> /\ exec[w].step = "running"
      /\ child = "working"
  BY DEF ProviderEnds, At, onRecord
<1>2. CallOnTrack(exec[w], row, launches, evidenceOf, child, tree, answer)
  BY CallOf
<1>3. launches # 0
  BY <1>1, CallOf DEF RecordsOK
<1>4. CASE Goes(w, "failed")
  BY <1>1, <1>3, <1>4, FailingOK
<1>5. CASE exec' = [exec EXCEPT ![w] = [@ EXCEPT !.step = "judged", !.verdict = Judged(w, a)]]
  <2> DEFINE x == [exec[w] EXCEPT !.step = "judged", !.verdict = Judged(w, a)]
  <2>1. CallBecomes(w, x)
    BY <1>5 DEF CallBecomes, ExecutionInv
  <2>2. /\ DOMAIN x = DOMAIN exec[w] /\ x.step = "judged" /\ x.provider = exec[w].provider
        /\ x.before = exec[w].before /\ x.verdict = Judged(w, a)
    BY <1>2 DEF CallOnTrack
  <2> HIDE DEF x
  <2>3. /\ row.dispatched = exec[w].provider /\ row.state # "PENDING"
        /\ exec[w].provider \in AllowedProvider
        /\ \A g \in RequiredGate : evidenceOf[g] = "none"
    BY <1>1, <1>2 DEF CallOnTrack, LiveSteps
  <2>4. exec[w].provider \in ProviderId
    BY <2>3, ExecutionAssumption
  <2>5. RecordsOK(row, launches, evidenceOf, child', tree, answer')
    BY <1>3, <2>3, CallOf DEF RecordsOK
  <2>6. ASSUME x.verdict = "SUCCESS"
        PROVE  /\ Earned(row, child', tree, answer')
               /\ x.provider # "codex" =>
                     \A p \in Path \ OwnedPath : tree.content[p] = x.before.content[p]
    <3>1. /\ a.ended = "object" /\ a.status = "SUCCESS" /\ a.bound = TRUE
          /\ a.claimed \subseteq OwnedPath /\ \A p \in OwnedPath : Present(tree, p)
          /\ exec[w].provider # "deepseek" => AtBaseline(tree)
          /\ exec[w].provider # "codex" => UnownedKept(w)
      BY <2>2, <2>4, <2>6, SuccessIsEarned
    <3>2. child' = "exited" /\ answer' = a
      BY <2>2, <2>6, <3>1 DEF ProviderEnds
    <3> QED
      BY <2>2, <2>3, <3>1, <3>2 DEF Earned, UnownedKept
  <2>7. CallOnTrack(x, row, launches, evidenceOf, child', tree, answer')
    BY <1>2, <2>2, <2>3, <2>6 DEF CallOnTrack, LiveSteps
  <2> QED
    BY <1>1, <2>1, <2>5, <2>7, LiveCallMoves DEF LiveSteps
<1> QED
  BY <1>4, <1>5 DEF ProviderEnds

LEMMA GateOK ==
    ASSUME ExecutionInv, NEW w \in Worker, NEW g \in RequiredGate, RecordGateEvidence(w, g)
    PROVE  ExecutionInv'
<1>1. /\ UNCHANGED <<row, tree, child, launches, answer>> /\ exec[w].step = "judged"
      /\ evidenceOf[g] = "none"
  BY DEF RecordGateEvidence, At, worldVars
<1>2. CallOnTrack(exec[w], row, launches, evidenceOf, child, tree, answer)
  BY CallOf
<1>3. RecordsOK(row, launches, evidenceOf, child, tree, answer)
  BY CallOf
<1>4. CASE fence = w
  <2> DEFINE said == GateVerdict(exec[w].verdict)
  <2>1. evidenceOf' = [evidenceOf EXCEPT ![g] = said] /\ exec' = exec
    BY <1>4 DEF RecordGateEvidence, GateVerdict
  <2>2. /\ DOMAIN evidenceOf' = RequiredGate /\ evidenceOf'[g] = said
        /\ \A h \in RequiredGate : h # g => evidenceOf'[h] = evidenceOf[h]
    BY <1>3, <2>1 DEF RecordsOK
  <2>3. /\ \A h \in RequiredGate : evidenceOf[h] \in {"none", said}
        /\ row.dispatched = exec[w].provider /\ exec[w].provider \in AllowedProvider
        /\ row.state # "PENDING"
        /\ exec[w].verdict = "SUCCESS" => Earned(row, child, tree, answer)
    BY <1>1, <1>2 DEF CallOnTrack, LiveSteps
  <2>4. \A h \in RequiredGate : evidenceOf'[h] \in {"none", said}
    BY <2>2, <2>3
  <2>5. /\ said \in {"passed", "failed"}
        /\ said = "passed" => exec[w].verdict = "SUCCESS"
    BY DEF GateVerdict
  <2>6. CallOnTrack(exec[w], row, launches, evidenceOf', child, tree, answer)
    BY <1>1, <1>2, <2>4 DEF CallOnTrack
  <2> HIDE DEF said
  <2>7. RecordsOK(row, launches, evidenceOf', child, tree, answer)
    BY <1>3, <2>2, <2>3, <2>4, <2>5, NoneIsNoProvider DEF RecordsOK
  <2>8. CallBecomes(w, exec[w])
    BY <2>1 DEF CallBecomes, ExecutionInv
  <2> QED
    BY <1>1, <2>6, <2>7, <2>8, LiveCallMoves DEF LiveSteps
<1>5. CASE fence # w
  <2>1. Goes(w, "failed") /\ UNCHANGED evidenceOf
    BY <1>5 DEF RecordGateEvidence
  <2>2. launches = 0 => child = "none"
    BY <1>3 DEF RecordsOK
  <2> QED
    BY <1>1, <2>1, <2>2, FailingOK
<1> QED
  BY <1>4, <1>5

LEMMA ReportOK ==
    ASSUME ExecutionInv, NEW w \in Worker, ReportExecution(w)
    PROVE  ExecutionInv'
<1>1. UNCHANGED <<evidenceOf, tree, child, launches, answer>> /\ exec[w].step = "judged"
  BY DEF ReportExecution, At, worldVars
<1>2. CASE fence = w /\ row.state = "RUNNING"
  <2>1. /\ row' = [row EXCEPT !.state =
                     IF exec[w].verdict = "CANCELLED" THEN "CANCELLED" ELSE "FINISHED"]
        /\ Leaves(w)
    BY <1>2 DEF ReportExecution
  <2>2. RowMoves
    BY <2>1, CallOf DEF RowMoves, RecordsOK
  <2> QED
    BY <1>1, <2>1, <2>2, LeavingOK
<1>3. CASE ~(fence = w /\ row.state = "RUNNING")
  <2>1. Goes(w, "failed") /\ UNCHANGED row
    BY <1>3 DEF ReportExecution
  <2>2. launches = 0 => child = "none"
    BY CallOf DEF RecordsOK
  <2> QED
    BY <1>1, <2>1, <2>2, FailingOK
<1> QED
  BY <1>2, <1>3

(* The steps that end a call, or happen between calls.                     *)
LEMMA BetweenCallsOK ==
    ASSUME ExecutionInv, NEW w \in Worker,
           \/ ExecutionRaises(w) \/ MarkUnknownAfterFailure(w)
           \/ TakeOver(w) \/ WorkerDies(w) \/ Operate(w)
    PROVE  ExecutionInv'
<1>1. /\ launches = 0 => child = "none"
      /\ DOMAIN row = {"state", "dispatched"}
  BY CallOf DEF RecordsOK
<1>2. CASE ExecutionRaises(w)
  <2>1. /\ exec[w].step \in {"started", "judged"} /\ Goes(w, "failed")
        /\ UNCHANGED <<row, evidenceOf, tree, launches, child, answer>>
    BY <1>2 DEF ExecutionRaises, onRecord, worldVars
  <2> QED
    BY <1>1, <2>1, FailingOK
<1>3. CASE MarkUnknownAfterFailure(w)
  <2>1. Leaves(w) /\ UNCHANGED <<evidenceOf, tree, child, launches, answer>>
    BY <1>3 DEF MarkUnknownAfterFailure, worldVars
  <2>2. row' = [row EXCEPT !.state = IF fence = w /\ @ = "RUNNING" THEN "UNKNOWN" ELSE @]
    BY <1>3 DEF MarkUnknownAfterFailure
  <2>3. RowMoves
    BY <1>1, <2>2 DEF RowMoves
  <2> QED
    BY <2>1, <2>3, LeavingOK
<1>4. CASE TakeOver(w)
  BY <1>4 DEF TakeOver, worldVars, ExecutionInv
<1>5. CASE WorkerDies(w)
  <2>1. Leaves(w) /\ UNCHANGED <<row, evidenceOf, tree, child, launches, answer>>
    BY <1>5 DEF WorkerDies, onRecord, worldVars
  <2>2. RowMoves
    BY <1>1, <2>1 DEF RowMoves
  <2> QED
    BY <2>1, <2>2, LeavingOK
<1>6. CASE Operate(w)
  <2>1. UNCHANGED <<evidenceOf, tree, child, launches, answer, exec>>
    BY <1>6 DEF Operate, worldVars
  <2>2. PICK to \in {"CANCELLED", "UNKNOWN", "NEEDS_RECONCILIATION", "FINISHED",
                     "RECONCILED_RETRYABLE"} : row' = [row EXCEPT !.state = to]
    BY <1>6 DEF Operate
  <2>3. RowMoves
    BY <1>1, <2>2 DEF RowMoves
  <2> QED
    BY <2>1, <2>3, RowMovesOK DEF ExecutionInv
<1> QED
  BY <1>2, <1>3, <1>4, <1>5, <1>6

LEMMA ExecutionStepOK == ExecutionInv /\ [ExecutionNext]_executionVars => ExecutionInv'
<1> SUFFICES ASSUME ExecutionInv, [ExecutionNext]_executionVars PROVE ExecutionInv'
  OBVIOUS
<1>1. CASE \E w \in Worker : \E id \in ProviderId : PrepareExecution(w, id)
  BY <1>1, PrepareOK
<1>2. CASE \E w \in Worker : AuthorizeExecution(w) \/ StartExecution(w) \/ LaunchProvider(w)
  BY <1>2, AuthorizeOK, StartOK, LaunchOK
<1>3. CASE \E w \in Worker : \E a \in Answer : ProviderEnds(w, a)
  BY <1>3, EndsOK
<1>4. CASE \E w \in Worker : \E g \in RequiredGate : RecordGateEvidence(w, g)
  BY <1>4, GateOK
<1>5. CASE \E w \in Worker : ReportExecution(w)
  BY <1>5, ReportOK
<1>6. CASE \E w \in Worker :
              \/ ExecutionRaises(w) \/ MarkUnknownAfterFailure(w)
              \/ TakeOver(w) \/ WorkerDies(w) \/ Operate(w)
  BY <1>6, BetweenCallsOK
<1>7. CASE \/ \E p \in Path : ProviderWrites(p, "edited") \/ EditedByHand(p)
           \/ \E p \in OwnedPath : ProviderWrites(p, "absent")
           \/ ProviderCommits
  BY <1>7, WorktreeMoves DEF ProviderWrites, EditedByHand, ProviderCommits, onRecord
<1>8. CASE UNCHANGED executionVars
  BY <1>8 DEF executionVars, ExecutionInv
<1> QED
  BY <1>1, <1>2, <1>3, <1>4, <1>5, <1>6, <1>7, <1>8 DEF ExecutionNext

(* Of all the calls that several incarnations of the runtime make for one  *)
(* Attempt, one at a time is past the authorization, for the provider on   *)
(* record, and what it judged agrees with what it recorded: the            *)
(* inductive invariant of runtime.provider.execute.                        *)
THEOREM ExecutionInvariant == ExecutionSpec => []ExecutionInv
BY ExecutionInitOK, ExecutionStepOK, PTL DEF ExecutionSpec

(* runtime.provider.execute starts no process twice for an Attempt, and    *)
(* none for an Attempt that was not dispatched and started, for any number *)
(* of incarnations, any Envelope and any files (start_attempt,             *)
(* execute_provider).                                                      *)
THEOREM LaunchedOnce == ExecutionSpec => []LaunchedAtMostOnce
<1>1. ExecutionInv => LaunchedAtMostOnce
  BY DEF ExecutionInv, RecordsOK, LaunchedAtMostOnce
<1> QED
  BY <1>1, ExecutionInvariant, PTL

(* Evidence that passes is on record only for a process that ended, whose  *)
(* result and whose worktree bear it out, and all gates say the same,      *)
(* whatever calls, takeovers, crashes and edits interleave                 *)
(* (_record_required_evidence, _validate_owned_artifacts).                 *)
THEOREM EvidenceIsEarned == ExecutionSpec => []PassingEvidenceIsEarned
<1>1. ASSUME ExecutionInv PROVE PassingEvidenceIsEarned
  <2>1. ASSUME NEW g \in RequiredGate, evidenceOf[g] = "passed"
        PROVE  Earned(row, child, tree, answer)
    BY <1>1, <2>1 DEF ExecutionInv, RecordsOK
  <2>2. ASSUME NEW g \in RequiredGate, evidenceOf[g] = "passed",
               NEW w \in Worker, At(w, "judged"), row.dispatched # "codex"
        PROVE  UnownedKept(w)
    <3>1. CallOnTrack(exec[w], row, launches, evidenceOf, child, tree, answer)
      BY <1>1, CallOf
    <3>2. exec[w].verdict = "SUCCESS" /\ row.dispatched = exec[w].provider
      BY <2>2, <3>1 DEF CallOnTrack, GateVerdict, At, LiveSteps
    <3> QED
      BY <2>2, <3>1, <3>2 DEF CallOnTrack, UnownedKept, At
  <2>3. \A g, h \in RequiredGate :
           evidenceOf[g] # "none" /\ evidenceOf[h] # "none" => evidenceOf[g] = evidenceOf[h]
    BY <1>1 DEF ExecutionInv, RecordsOK
  <2>4. \A w \in Worker : At(w, "judged") => row.dispatched = exec[w].provider
    BY <1>1, CallOf DEF CallOnTrack, LiveSteps, At
  <2> QED
    BY <2>1, <2>2, <2>3, <2>4 DEF PassingEvidenceIsEarned, Earned
<1> QED
  BY <1>1, ExecutionInvariant, PTL
=============================================================================
