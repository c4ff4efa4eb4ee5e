---------------------- MODULE LeaseAndPromotion_proofs ----------------------
(***************************************************************************)
(* Proofs about the coordinator lease, for every set of incarnations,      *)
(* every assignment of identities to them, every TTL and every bound; and  *)
(* about promotion and the receipts that follow from it, which ask for no  *)
(* fence, for any number of incarnations, workspaces and Attempts and of   *)
(* revisions accepted elsewhere.                                           *)
(***************************************************************************)
EXTENDS CoordinatorLease, Promotion, SequenceTheorems, TLAPS

-----------------------------------------------------------------------------
(* The coordinator lease.                                                  *)


(* Clock readings are never ahead of the clock, and the expiry never lies  *)
(* more than a TTL beyond the reading that the newest incarnation is about *)
(* to use.                                                                 *)
ReadingsBehind ==
    /\ expires <= clock + TTL
    /\ \A p \in Process :
          /\ read[p] <= clock
          /\ token[p] # 0 /\ token[p] = generation /\ read[p] # NoRead
                => expires <= read[p] + TTL

(* Nobody holds, and nothing was written under, a generation that has not  *)
(* been handed out.                                                        *)
GenerationsBound ==
    /\ lastWriter <= generation
    /\ \A p \in Process : token[p] <= generation

(* The inductive strengthening of OneFenceHolder: tokens are unique only   *)
(* because no token is ahead of the row, and expiry comparisons are safe   *)
(* only because readings are never ahead of the clock.                     *)
LeaseInv == TypeOK /\ OneFenceHolder /\ GenerationsBound /\ ReadingsBehind

LEMMA InitEstablishesLeaseInv == Init => LeaseInv
<1> SUFFICES ASSUME Init PROVE LeaseInv
  OBVIOUS
<1> USE LeaseAssumption DEF Init, NoRead
<1>1. TypeOK
  BY DEF TypeOK
<1>2. OneFenceHolder
  BY DEF OneFenceHolder
<1>3. GenerationsBound
  BY DEF GenerationsBound
<1>4. ReadingsBehind
  BY DEF ReadingsBehind
<1> QED
  BY <1>1, <1>2, <1>3, <1>4 DEF LeaseInv

LEMMA TypeStep == TypeOK /\ [Next]_vars => TypeOK'
<1> SUFFICES ASSUME TypeOK, [Next]_vars PROVE TypeOK'
  OBVIOUS
<1> USE LeaseAssumption DEF TypeOK, NoRead
<1>1. CASE Tick
  BY <1>1 DEF Tick
<1>2. ASSUME NEW p \in Process, ReadClock(p) PROVE TypeOK'
  BY <1>2 DEF ReadClock
<1>3. ASSUME NEW p \in Process, AcquireCoordinator(p) PROVE TypeOK'
  BY <1>3 DEF AcquireCoordinator
<1>4. ASSUME NEW p \in Process, RenewCoordinator(p) PROVE TypeOK'
  BY <1>4 DEF RenewCoordinator
<1>5. ASSUME NEW p \in Process, Mutate(p) PROVE TypeOK'
  BY <1>5 DEF Mutate
<1>6. ASSUME NEW p \in Process, Refused(p) PROVE TypeOK'
  BY <1>6 DEF Refused
<1>7. ASSUME NEW p \in Process, Crash(p) PROVE TypeOK'
  BY <1>7 DEF Crash
<1>8. CASE UNCHANGED vars
  BY <1>8 DEF vars
<1> QED
  BY <1>1, <1>2, <1>3, <1>4, <1>5, <1>6, <1>7, <1>8 DEF Next

LEMMA LeaseInvStep == LeaseInv /\ [Next]_vars => LeaseInv'
<1> SUFFICES ASSUME LeaseInv, [Next]_vars PROVE LeaseInv'
  OBVIOUS
<1>t. TypeOK /\ TypeOK'
  BY TypeStep DEF LeaseInv
<1> USE LeaseAssumption DEF NoRead
<1>1. CASE Tick
  <2>1. OneFenceHolder' /\ GenerationsBound'
    BY <1>1 DEF Tick, LeaseInv, OneFenceHolder, GenerationsBound
  <2>2. ReadingsBehind'
    BY <1>1, <1>t DEF Tick, LeaseInv, ReadingsBehind, TypeOK
  <2> QED
    BY <2>1, <2>2, <1>t DEF LeaseInv
<1>2. ASSUME NEW p \in Process, ReadClock(p) PROVE LeaseInv'
  <2>1. OneFenceHolder' /\ GenerationsBound'
    BY <1>2 DEF ReadClock, LeaseInv, OneFenceHolder, GenerationsBound
  <2>2. ReadingsBehind'
    BY <1>2, <1>t DEF ReadClock, LeaseInv, ReadingsBehind, TypeOK
  <2> QED
    BY <2>1, <2>2, <1>t DEF LeaseInv
<1>3. ASSUME NEW p \in Process, AcquireCoordinator(p) PROVE LeaseInv'
  <2>1. GenerationsBound'
    BY <1>3, <1>t DEF AcquireCoordinator, LeaseInv, GenerationsBound, TypeOK
  <2>2. OneFenceHolder'
    BY <1>3, <1>t DEF AcquireCoordinator, LeaseInv, GenerationsBound, OneFenceHolder, TypeOK
  <2>3. ReadingsBehind'
    BY <1>3, <1>t DEF AcquireCoordinator, LeaseInv, GenerationsBound, ReadingsBehind, TypeOK
  <2> QED
    BY <2>1, <2>2, <2>3, <1>t DEF LeaseInv
<1>4. ASSUME NEW p \in Process, RenewCoordinator(p) PROVE LeaseInv'
  <2>1. OneFenceHolder' /\ GenerationsBound'
    BY <1>4 DEF RenewCoordinator, LeaseInv, OneFenceHolder, GenerationsBound
  <2>2. ReadingsBehind'
    BY <1>4, <1>t DEF RenewCoordinator, AssertFence, LeaseInv, OneFenceHolder,
                      ReadingsBehind, TypeOK
  <2> QED
    BY <2>1, <2>2, <1>t DEF LeaseInv
<1>5. ASSUME NEW p \in Process, Mutate(p) PROVE LeaseInv'
  <2>1. OneFenceHolder' /\ GenerationsBound'
    BY <1>5, <1>t DEF Mutate, AssertFence, LeaseInv, OneFenceHolder, GenerationsBound, TypeOK
  <2>2. ReadingsBehind'
    BY <1>5, <1>t DEF Mutate, LeaseInv, ReadingsBehind, TypeOK
  <2> QED
    BY <2>1, <2>2, <1>t DEF LeaseInv
<1>6. ASSUME NEW p \in Process, Refused(p) PROVE LeaseInv'
  <2>1. OneFenceHolder' /\ GenerationsBound'
    BY <1>6 DEF Refused, LeaseInv, OneFenceHolder, GenerationsBound
  <2>2. ReadingsBehind'
    BY <1>6, <1>t DEF Refused, LeaseInv, ReadingsBehind, TypeOK
  <2> QED
    BY <2>1, <2>2, <1>t DEF LeaseInv
<1>7. ASSUME NEW p \in Process, Crash(p) PROVE LeaseInv'
  <2>1. OneFenceHolder' /\ GenerationsBound'
    BY <1>7, <1>t DEF Crash, LeaseInv, OneFenceHolder, GenerationsBound, TypeOK
  <2>2. ReadingsBehind'
    BY <1>7, <1>t DEF Crash, LeaseInv, ReadingsBehind, TypeOK
  <2> QED
    BY <2>1, <2>2, <1>t DEF LeaseInv
<1>8. CASE UNCHANGED vars
  BY <1>8 DEF vars, LeaseInv, TypeOK, OneFenceHolder, GenerationsBound, ReadingsBehind
<1> QED
  BY <1>1, <1>2, <1>3, <1>4, <1>5, <1>6, <1>7, <1>8 DEF Next

(* The inductive invariant of the lease row and its incarnations.          *)
THEOREM LeaseInvariant == Spec => []LeaseInv
  BY InitEstablishesLeaseInv, LeaseInvStep, PTL DEF Spec

(* Type correctness of the lease row, the tokens and the clock readings.   *)
THEOREM TypeCorrect == Spec => []TypeOK
<1>1. LeaseInv => TypeOK
  BY DEF LeaseInv
<1> QED
  BY <1>1, LeaseInvariant, PTL

(* At most one incarnation ever holds the newest generation, and the lease *)
(* row names its identity (acquire_coordinator).                           *)
THEOREM FenceHolderIsUnique == Spec => []OneFenceHolder
<1>1. LeaseInv => OneFenceHolder
  BY DEF LeaseInv
<1> QED
  BY <1>1, LeaseInvariant, PTL

(* Mutations are committed in generation order (_assert_fence).            *)
THEOREM WritesOrdered == Spec => WritesInGenerationOrder
<1>1. LeaseInv /\ [Next]_vars => [lastWriter' >= lastWriter]_vars
  BY DEF LeaseInv, TypeOK, GenerationsBound, Next, vars, Tick, ReadClock, AcquireCoordinator,
         RenewCoordinator, Mutate, Refused, Crash, AssertFence
<1> QED
  BY <1>1, LeaseInvariant, PTL DEF Spec, WritesInGenerationOrder

(* The lease is taken over by a foreign identity only after it expired by  *)
(* the real clock (acquire_coordinator compares an older reading).         *)
THEOREM LiveLeaseIsNotStolen == Spec => LiveLeaseKeepsItsHolder
<1>1. LeaseInv /\ [Next]_vars
        => [generation # 0 /\ leaseHolder' # leaseHolder => expires <= clock]_vars
  BY DEF LeaseInv, TypeOK, ReadingsBehind, Next, vars, Tick, ReadClock, AcquireCoordinator,
         RenewCoordinator, Mutate, Refused, Crash, MayAcquire, NoRead
<1> QED
  BY <1>1, LeaseInvariant, PTL DEF Spec, LiveLeaseKeepsItsHolder

(* Renewals only push the expiry back (renew_coordinator).                 *)
THEOREM RenewalsExtend == Spec => RenewalNeverShortens
<1>1. LeaseInv /\ [Next]_vars => [generation' = generation => expires' >= expires]_vars
  BY LeaseAssumption
     DEF LeaseInv, TypeOK, ReadingsBehind, Next, vars, Tick, ReadClock, AcquireCoordinator,
         RenewCoordinator, Mutate, Refused, Crash, AssertFence, NoRead
<1> QED
  BY <1>1, LeaseInvariant, PTL DEF Spec, RenewalNeverShortens

(* The lease, as coded with clocks and identities, implements the abstract *)
(* fencing authority that the RunStore is built on.                        *)
THEOREM LeaseImplementsFencing == Spec => ImplementsFencing
<1>1. Init => Fencing!FencingInit
  BY DEF Init, Fencing!FencingInit
<1>2. LeaseInv /\ [Next]_vars => [Fencing!FencingNext]_(Fencing!fencingVars)
  <2> SUFFICES ASSUME LeaseInv, [Next]_vars
               PROVE  [Fencing!FencingNext]_(Fencing!fencingVars)
    OBVIOUS
  <2> USE DEF Fencing!FencingNext, Fencing!fencingVars
  <2>1. CASE Tick \/ UNCHANGED vars
    BY <2>1 DEF Tick, vars
  <2>2. ASSUME NEW p \in Process, ReadClock(p) \/ RenewCoordinator(p) \/ Refused(p)
        PROVE  UNCHANGED Fencing!fencingVars
    BY <2>2 DEF ReadClock, RenewCoordinator, Refused
  <2>3. ASSUME NEW p \in Process, AcquireCoordinator(p) PROVE Fencing!Grant(p)
    BY <2>3 DEF AcquireCoordinator, Fencing!Grant
  <2>4. ASSUME NEW p \in Process, Mutate(p) PROVE Fencing!FencedWrite(p)
    BY <2>4 DEF Mutate, AssertFence, Fencing!FencedWrite
  <2>5. ASSUME NEW p \in Process, Crash(p) PROVE Fencing!Drop(p)
    BY <2>5 DEF Crash, Fencing!Drop
  <2> QED
    BY <2>1, <2>2, <2>3, <2>4, <2>5 DEF Next
<1> QED
  BY <1>1, <1>2, LeaseInvariant, PTL DEF Spec, ImplementsFencing, Fencing!FencingSpec

-----------------------------------------------------------------------------
(* Promotion.                                                              *)


Steps ==
    {"idle", "insert", "accept", "publish", "conflict", "conflict_job", "promoted", "event",
     "certify", "interact"}

Errands ==
    [step : Steps, ws : Workspace \cup {Nobody}, attempt : Execution \cup {Nobody},
     provider : Interlocutor \cup {"none"}, number : Nat, bound : BOOLEAN]

PromotionTyped ==
    /\ directory \subseteq Workspace
    /\ workspace \in [Workspace -> [state : {"ABSENT", "ACTIVE", "PROMOTED", "PROMOTION_CONFLICT"},
                                    attempt : Execution \cup {Nobody}]]
    /\ origin \in Seq(Workspace \cup {Elsewhere}) /\ found \in Nat
    /\ errand \in [Worker -> Errands]

(* What a request relies on in each of its steps, whoever holds the fence: *)
(* the Project is not behind it.                                           *)
Fits(e) ==
    /\ e.step = "insert" => e.ws \in directory /\ e.attempt \in Execution
                            /\ workspace[e.ws].state = "ABSENT"
    /\ e.step \in {"accept", "conflict"} => e.ws \in Workspace
    /\ e.step \in {"accept", "publish"} => decided # Nobody
    /\ e.step = "publish" => e.ws \in Workspace /\ e.number = 2
    /\ e.step \in {"promoted", "event", "certify"} =>
          /\ e.ws \in Workspace /\ e.number = 2
          /\ Len(origin) >= 1 /\ e.ws \in published
    /\ e.step \in {"event", "certify"} => workspace[e.ws].state = "PROMOTED"
    /\ e.step = "interact" => e.provider \in Interlocutor

ErrandsFit == \A w \in Worker : Fits(errand[w])

(* A workspace is inserted by the request that made its directory.         *)
OneInserter ==
    /\ \A s \in Workspace \ directory : workspace[s].state = "ABSENT"
    /\ \A v, w \in Worker :
          Busy(v, "insert") /\ Busy(w, "insert") /\ errand[v].ws = errand[w].ws => v = w

OnceOnTop ==
    /\ \A i \in DOMAIN origin : origin[i] \in Workspace => i = 1 /\ decided # Nobody
    /\ \A s \in Workspace : workspace[s].state = "PROMOTED" => Len(origin) >= 1 /\ s \in published

NobodyPromoted == \A s \in Workspace : workspace[s].state # "PROMOTED"

(* The holder of the fence took it before it found the revision free.  A   *)
(* workspace PROMOTED before that had written it, and one PROMOTED since   *)
(* is its own: while it is about to write and to mark, there is none.      *)
OnePromoted ==
    /\ fence \in Worker
    /\ Busy(fence, "publish") \/ Busy(fence, "promoted") => NobodyPromoted
    /\ \A s, t \in Workspace :
          workspace[s].state = "PROMOTED" /\ workspace[t].state = "PROMOTED" => s = t

Earned(r) ==
    /\ r.before = r.number
    /\ r.role = "EXECUTION_IMPLEMENTER" =>
          /\ r.number = 2
          /\ \E s \in Workspace : /\ workspace[s].state = "PROMOTED"
                                  /\ DispatchedTo[workspace[s].attempt] = r.provider
    /\ r.provider = "deepseek" => r.role = "EXECUTION_IMPLEMENTER" /\ r.bound

ReceiptsEarned == \A r \in receipts : Earned(r)

PromotionInv ==
    PromotionTyped /\ ErrandsFit /\ OneInserter /\ OnceOnTop /\ OnePromoted /\ ReceiptsEarned

-----------------------------------------------------------------------------
LEMMA AtHomeFits == AtHome \in Errands /\ Fits(AtHome)
BY DEF AtHome, Errands, Steps, Fits

LEMMA InitEstablishesPromotionInv == PromotionInit => PromotionInv
<1> SUFFICES ASSUME PromotionInit PROVE PromotionInv
  OBVIOUS
<1> USE DEF PromotionInit
<1>1. PromotionTyped
  BY AtHomeFits DEF PromotionTyped
<1>2. ErrandsFit
  BY AtHomeFits DEF ErrandsFit
<1>3. OneInserter
  BY DEF OneInserter, Busy, AtHome
<1>4. OnceOnTop
  BY DEF OnceOnTop
<1>5. OnePromoted
  BY DEF OnePromoted, NobodyPromoted, FencedInit
<1>6. ReceiptsEarned
  BY DEF ReceiptsEarned
<1> QED
  BY <1>1, <1>2, <1>3, <1>4, <1>5, <1>6 DEF PromotionInv

(* What a request keeps of OnePromoted that takes no fence, marks nothing  *)
(* and enters neither of the two steps.                                    *)
LEMMA OthersKeepOnePromoted ==
    ASSUME PromotionInv, UNCHANGED fence, NEW w \in Worker,
           \A v \in Worker : v # w => errand'[v] = errand[v],
           \/ errand'[w].step \notin {"publish", "promoted"}
           \/ w = fence => NobodyPromoted',
           \A s \in Workspace : workspace'[s].state = "PROMOTED" => workspace[s].state = "PROMOTED"
    PROVE  OnePromoted'
<1> USE DEF PromotionInv, OnePromoted
<1>1. NobodyPromoted => NobodyPromoted'
  BY DEF NobodyPromoted
<1>2. Busy(fence, "publish")' \/ Busy(fence, "promoted")' => NobodyPromoted'
  BY <1>1 DEF Busy
<1> QED
  BY <1>2

(* A request goes on without writing anything.                             *)
LEMMA ErrandGoesOn ==
    ASSUME PromotionInv,
           UNCHANGED <<fence, directory, workspace, decided, revisionVars, receipts>>,
           NEW w \in Worker, NEW e \in Errands, errand' = [errand EXCEPT ![w] = e],
           Fits(e), e.step # "insert",
           e.step \in {"publish", "promoted"} /\ w = fence => NobodyPromoted
    PROVE  PromotionInv'
<1> USE DEF PromotionInv, revisionVars
<1>1. PromotionTyped'
  BY DEF PromotionTyped
<1>2. \A v \in Worker : errand'[v] = IF v = w THEN e ELSE errand[v]
  BY DEF PromotionTyped
<1>3. ErrandsFit'
  BY <1>2 DEF ErrandsFit, Fits
<1>4. OneInserter'
  BY <1>2 DEF OneInserter, Busy
<1>5. OnceOnTop'
  BY DEF OnceOnTop
<1>6. OnePromoted'
  BY <1>2, OthersKeepOnePromoted DEF NobodyPromoted
<1>7. ReceiptsEarned'
  BY DEF ReceiptsEarned, Earned
<1> QED
  BY <1>1, <1>3, <1>4, <1>5, <1>6, <1>7

LEMMA CreateDirectoryKeepsInv ==
    ASSUME PromotionInv, NEW w \in Worker, NEW s \in Workspace, NEW a \in Execution,
           CreateDirectory(w, s, a)
    PROVE  PromotionInv'
<1> DEFINE e == [AtHome EXCEPT !.step = "insert", !.ws = s, !.attempt = a]
<1>1. /\ s \notin directory /\ directory' = directory \cup {s}
      /\ UNCHANGED <<fence, workspace, decided, revisionVars, receipts>>
      /\ errand' = [errand EXCEPT ![w] = e]
  BY DEF CreateDirectory, projectVars, fenceVars
<1>2. e \in Errands /\ e.step = "insert" /\ e.ws = s /\ e.attempt = a
  BY DEF AtHome, Errands, Steps
<1> HIDE DEF e
<1>3. \A v \in Worker : errand'[v] = IF v = w THEN e ELSE errand[v]
  BY <1>1 DEF PromotionInv, PromotionTyped
<1>4. PromotionTyped'
  BY <1>1, <1>2 DEF PromotionInv, PromotionTyped, revisionVars
<1>5. workspace[s].state = "ABSENT"
  BY <1>1 DEF PromotionInv, OneInserter
<1>6. ASSUME NEW v \in Worker PROVE Fits(errand[v])'
  <2>1. CASE v = w
    BY <2>1, <1>1, <1>2, <1>3, <1>5 DEF Fits
  <2>2. CASE v # w
    BY <2>2, <1>1, <1>3 DEF PromotionInv, ErrandsFit, Fits, revisionVars
  <2> QED
    BY <2>1, <2>2
<1>7. ErrandsFit'
  BY <1>6 DEF ErrandsFit
<1>8. \A v \in Worker : Busy(v, "insert") => errand[v].ws # s
  BY <1>1 DEF PromotionInv, ErrandsFit, Fits, Busy
<1>9. OneInserter'
  BY <1>1, <1>2, <1>3, <1>8 DEF PromotionInv, OneInserter, Busy
<1>10. OnceOnTop' /\ ReceiptsEarned'
  BY <1>1 DEF PromotionInv, OnceOnTop, ReceiptsEarned, Earned, revisionVars
<1>11. OnePromoted'
  BY <1>1, <1>2, <1>3, OthersKeepOnePromoted
<1> QED
  BY <1>4, <1>7, <1>9, <1>10, <1>11 DEF PromotionInv

(* Back home, after whatever was written.                                  *)
LEMMA ReturningLeavesOthers ==
    ASSUME PromotionInv, NEW w \in Worker, Returns(w)
    PROVE  /\ errand' \in [Worker -> Errands]
           /\ \A v \in Worker : errand'[v] = IF v = w THEN AtHome ELSE errand[v]
BY AtHomeFits DEF PromotionInv, PromotionTyped, Returns

(* The row is inserted into an empty place; no request and no receipt      *)
(* relies on one.                                                          *)
LEMMA InsertWorkspaceKeepsInv ==
    ASSUME PromotionInv, NEW w \in Worker, InsertWorkspace(w) PROVE PromotionInv'
<1> DEFINE s == errand[w].ws
           a == errand[w].attempt
<1>1. /\ Busy(w, "insert") /\ Returns(w)
      /\ UNCHANGED <<fence, directory, decided, revisionVars, receipts>>
      /\ \/ UNCHANGED workspace
         \/ workspace' = [workspace EXCEPT ![s] = [state |-> "ACTIVE", attempt |-> a]]
  BY DEF InsertWorkspace, projectVars, fenceVars
<1>2. CASE UNCHANGED workspace
  BY <1>1, <1>2, ErrandGoesOn, AtHomeFits DEF Returns, AtHome
<1>3. CASE workspace' = [workspace EXCEPT ![s] = [state |-> "ACTIVE", attempt |-> a]]
  <2>1. s \in directory /\ s \in Workspace /\ a \in Execution /\ workspace[s].state = "ABSENT"
    BY <1>1 DEF PromotionInv, ErrandsFit, Fits, Busy, PromotionTyped
  <2>2. /\ errand' \in [Worker -> Errands]
        /\ \A v \in Worker : errand'[v] = IF v = w THEN AtHome ELSE errand[v]
    BY <1>1, ReturningLeavesOthers
  <2>3. /\ \A u \in Workspace : u # s => workspace'[u] = workspace[u]
        /\ workspace'[s].state = "ACTIVE"
    BY <1>3, <2>1 DEF PromotionInv, PromotionTyped
  <2>4. PromotionTyped'
    BY <1>1, <1>3, <2>1, <2>2 DEF PromotionInv, PromotionTyped, revisionVars
  <2>5. ASSUME NEW v \in Worker PROVE Fits(errand[v])'
    <3>1. CASE v = w
      BY <3>1, <2>2 DEF Fits, AtHome
    <3>2. CASE v # w
      <4>1. errand'[v] = errand[v] /\ Fits(errand[v])
        BY <3>2, <2>2 DEF PromotionInv, ErrandsFit
      <4>2. Busy(v, "insert") => errand[v].ws # s
        BY <3>2, <1>1 DEF PromotionInv, OneInserter
      <4>3. directory \subseteq Workspace
        BY DEF PromotionInv, PromotionTyped
      <4> QED
        BY <4>1, <4>2, <4>3, <1>1, <2>1, <2>3 DEF Fits, Busy, revisionVars
    <3> QED
      BY <3>1, <3>2
  <2>6. ErrandsFit'
    BY <2>5 DEF ErrandsFit
  <2>7. OneInserter'
    <3>1. \A u \in Workspace \ directory' : workspace'[u].state = "ABSENT"
      BY <1>1, <2>1, <2>3 DEF PromotionInv, OneInserter
    <3> QED
      BY <3>1, <2>2 DEF PromotionInv, OneInserter, Busy, AtHome
  <2>8. OnceOnTop'
    BY <1>1, <2>1, <2>3 DEF PromotionInv, OnceOnTop, revisionVars
  <2>9. ReceiptsEarned'
    BY <1>1, <2>1, <2>3 DEF PromotionInv, ReceiptsEarned, Earned
  <2>10. OnePromoted'
    <3>1. errand'[w].step \notin {"publish", "promoted"}
      BY <2>2 DEF AtHome
    <3>2. \A u \in Workspace : workspace'[u].state = "PROMOTED" => workspace[u].state = "PROMOTED"
      BY <2>3
    <3> QED
      BY <1>1, <2>2, <3>1, <3>2, OthersKeepOnePromoted
  <2> QED
    BY <2>4, <2>6, <2>7, <2>8, <2>9, <2>10 DEF PromotionInv
<1> QED
  BY <1>1, <1>2, <1>3

(* A decision is taken once and the Project only grows.                    *)
LEMMA DecideKeepsInv ==
    ASSUME PromotionInv, NEW a \in Execution, DecideAccept(a) PROVE PromotionInv'
<1>1. /\ decided' # Nobody
      /\ UNCHANGED <<fence, directory, workspace, origin, published, found, receipts, errand>>
  BY PromotionAssumption DEF DecideAccept, revisionVars, fenceVars
<1>2. PromotionTyped'
  BY <1>1 DEF PromotionInv, PromotionTyped
<1>3. ErrandsFit'
  BY <1>1 DEF PromotionInv, ErrandsFit, Fits
<1>4. OneInserter'
  BY <1>1 DEF PromotionInv, OneInserter, Busy
<1>5. OnceOnTop' /\ ReceiptsEarned'
  BY <1>1 DEF PromotionInv, OnceOnTop, ReceiptsEarned, Earned
<1>6. OnePromoted'
  BY <1>1 DEF PromotionInv, OnePromoted, NobodyPromoted, Busy
<1> QED
  BY <1>2, <1>3, <1>4, <1>5, <1>6 DEF PromotionInv

(* A revision is written where it was found free, or over what has come    *)
(* there since; no other one changes.                                      *)
LEMMA ReplacedRevision ==
    ASSUME PromotionInv, NEW o \in Workspace \cup {Elsewhere}, NEW n \in Nat,
           origin' = Replaced(n, o)
    PROVE  /\ origin' \in Seq(Workspace \cup {Elsewhere})
           /\ Len(origin) \in Nat /\ DOMAIN origin = 1 .. Len(origin)
           /\ Len(origin') >= 1 /\ DOMAIN origin' = 1 .. Len(origin')
           /\ \A i \in DOMAIN origin' :
                 \/ origin'[i] = o /\ (i = n - 1 \/ i = Len(origin) + 1)
                 \/ i \in DOMAIN origin /\ origin'[i] = origin[i]
<1>1. origin \in Seq(Workspace \cup {Elsewhere})
  BY DEF PromotionInv, PromotionTyped
<1>2. CASE n - 1 \in DOMAIN origin /\ origin' = [origin EXCEPT ![n - 1] = o]
  BY <1>1, <1>2
<1>3. CASE origin' = Append(origin, o)
  BY <1>1, <1>3
<1> QED
  BY <1>2, <1>3 DEF Replaced

LEMMA FindFreeElsewhereKeepsInv ==
    ASSUME PromotionInv, FindFreeElsewhere PROVE PromotionInv'
<1>1. /\ found' = Number + 1
      /\ UNCHANGED <<fence, directory, workspace, decided, origin, published, receipts, errand>>
  BY DEF FindFreeElsewhere, fenceVars
<1>2. Number + 1 \in Nat
  BY DEF PromotionInv, PromotionTyped, Number
<1>3. PromotionTyped'
  BY <1>1, <1>2 DEF PromotionInv, PromotionTyped
<1>4. ErrandsFit'
  BY <1>1 DEF PromotionInv, ErrandsFit, Fits
<1>5. OneInserter' /\ OnceOnTop'
  BY <1>1 DEF PromotionInv, OneInserter, Busy, OnceOnTop
<1>6. OnePromoted'
  BY <1>1 DEF PromotionInv, OnePromoted, NobodyPromoted, Busy
<1>7. ReceiptsEarned'
  BY <1>1 DEF PromotionInv, ReceiptsEarned, Earned
<1> QED
  BY <1>3, <1>4, <1>5, <1>6, <1>7 DEF PromotionInv

(* What another process writes over a promoted revision takes nothing from *)
(* what the requests rely on: that it was written.                         *)
LEMMA PublishElsewhereKeepsInv ==
    ASSUME PromotionInv, PublishElsewhere PROVE PromotionInv'
<1>1. /\ origin' = Replaced(found, Elsewhere) /\ found' = 0
      /\ UNCHANGED <<fence, directory, workspace, decided, published, receipts, errand>>
  BY DEF PublishElsewhere, fenceVars
<1>2. found \in Nat
  BY DEF PromotionInv, PromotionTyped
<1>3. /\ origin' \in Seq(Workspace \cup {Elsewhere})
      /\ Len(origin') >= 1 /\ DOMAIN origin' = 1 .. Len(origin')
      /\ \A i \in DOMAIN origin' :
            origin'[i] = Elsewhere \/ (i \in DOMAIN origin /\ origin'[i] = origin[i])
  BY <1>1, <1>2, ReplacedRevision
<1>4. PromotionTyped'
  BY <1>1, <1>3 DEF PromotionInv, PromotionTyped
<1>5. ErrandsFit'
  BY <1>1, <1>3 DEF PromotionInv, ErrandsFit, Fits
<1>6. OneInserter'
  BY <1>1 DEF PromotionInv, OneInserter, Busy
<1>7. OnceOnTop'
  BY <1>1, <1>3, PromotionAssumption DEF PromotionInv, OnceOnTop
<1>8. OnePromoted'
  BY <1>1 DEF PromotionInv, OnePromoted, NobodyPromoted, Busy
<1>9. ReceiptsEarned'
  BY <1>1 DEF PromotionInv, ReceiptsEarned, Earned
<1> QED
  BY <1>4, <1>5, <1>6, <1>7, <1>8, <1>9 DEF PromotionInv

LEMMA BeginPromoteKeepsInv ==
    ASSUME PromotionInv, NEW w \in Worker, NEW s \in Workspace, NEW actor,
           BeginPromote(w, s, actor)
    PROVE  PromotionInv'
<1> DEFINE e == [AtHome EXCEPT !.step = IF Number = 1 THEN "accept" ELSE "conflict", !.ws = s]
<1>1. /\ decided # Nobody /\ errand' = [errand EXCEPT ![w] = e]
      /\ UNCHANGED <<fence, directory, workspace, decided, revisionVars, receipts>>
  BY DEF BeginPromote, PromotableBy, projectVars, fenceVars
<1>2. e \in Errands /\ e.step \in {"accept", "conflict"} /\ e.ws = s
  BY DEF AtHome, Errands, Steps
<1> HIDE DEF e
<1>3. Fits(e)
  BY <1>1, <1>2 DEF Fits
<1> QED
  BY <1>1, <1>2, <1>3, ErrandGoesOn

(* A request takes its next step, which keeps all but the step.            *)
LEMMA NextStepOfErrand ==
    ASSUME PromotionInv, NEW w \in Worker, NEW step \in Steps, Proceeds(w, step)
    PROVE  /\ errand' \in [Worker -> Errands]
           /\ errand'[w].step = step
           /\ errand'[w].ws = errand[w].ws /\ errand'[w].number = errand[w].number
           /\ \A v \in Worker : v # w => errand'[v] = errand[v]
           /\ errand' = [errand EXCEPT ![w] = errand'[w]]
<1> DEFINE e == [errand[w] EXCEPT !.step = step]
<1>1. errand[w] \in Errands /\ errand \in [Worker -> Errands]
  BY DEF PromotionInv, PromotionTyped
<1>2. e \in Errands /\ e.step = step /\ e.ws = errand[w].ws /\ e.number = errand[w].number
  BY <1>1 DEF Errands
<1>3. errand' = [errand EXCEPT ![w] = e]
  BY DEF Proceeds
<1> HIDE DEF e
<1> QED
  BY <1>1, <1>2, <1>3

(* The state of an ACTIVE workspace changes, and its request goes on.      *)
LEMMA SettledWorkspace ==
    ASSUME PromotionInv, NEW w \in Worker, NEW s \in Workspace, NEW state,
           state \in {"PROMOTED", "PROMOTION_CONFLICT"},
           workspace[s].state = "ACTIVE",
           workspace' = [workspace EXCEPT ![s].state = state],
           UNCHANGED <<fence, directory, decided, revisionVars, receipts>>,
           errand' \in [Worker -> Errands],
           \A v \in Worker : v # w => errand'[v] = errand[v],
           Fits(errand[w])', errand'[w].step \notin {"insert", "publish", "promoted"},
           state = "PROMOTED" =>
              /\ Len(origin) >= 1 /\ s \in published
              /\ fence = w /\ NobodyPromoted
    PROVE  PromotionInv'
<1> USE DEF revisionVars
<1>1. /\ \A u \in Workspace : u # s => workspace'[u] = workspace[u]
      /\ workspace'[s].state = state /\ workspace'[s].attempt = workspace[s].attempt
      /\ workspace' \in [Workspace -> [state : {"ABSENT", "ACTIVE", "PROMOTED",
                                                "PROMOTION_CONFLICT"},
                                       attempt : Execution \cup {Nobody}]]
  BY DEF PromotionInv, PromotionTyped
<1>2. PromotionTyped'
  BY <1>1 DEF PromotionInv, PromotionTyped
<1>3. ASSUME NEW v \in Worker, v # w PROVE Fits(errand[v])'
  <2>1. errand'[v] = errand[v] /\ Fits(errand[v]) /\ directory \subseteq Workspace
    BY <1>3 DEF PromotionInv, ErrandsFit, PromotionTyped
  <2> QED
    BY <2>1, <1>1 DEF Fits
<1>4. ErrandsFit'
  BY <1>3 DEF ErrandsFit
<1>5. OneInserter'
  <2>1. \A u \in Workspace \ directory' : workspace'[u].state = "ABSENT"
    BY <1>1 DEF PromotionInv, OneInserter
  <2> QED
    BY <2>1 DEF PromotionInv, OneInserter, Busy
<1>6. OnceOnTop'
  BY <1>1 DEF PromotionInv, OnceOnTop
<1>7. ReceiptsEarned'
  BY <1>1 DEF PromotionInv, ReceiptsEarned, Earned
<1>8. OnePromoted'
  <2>1. CASE state = "PROMOTED"
    <3>1. \A u \in Workspace : workspace'[u].state = "PROMOTED" => u = s
      BY <2>1, <1>1 DEF NobodyPromoted
    <3>2. fence' = w /\ w \in Worker /\ ~Busy(w, "publish")' /\ ~Busy(w, "promoted")'
      BY <2>1 DEF Busy
    <3> QED
      BY <3>1, <3>2 DEF OnePromoted
  <2>2. CASE state = "PROMOTION_CONFLICT"
    <3>1. \A u \in Workspace : workspace'[u].state = "PROMOTED" => workspace[u].state = "PROMOTED"
      BY <2>2, <1>1
    <3> QED
      BY <3>1, OthersKeepOnePromoted
  <2> QED
    BY <2>1, <2>2
<1> QED
  BY <1>2, <1>4, <1>5, <1>6, <1>7, <1>8 DEF PromotionInv

LEMMA MarkWorkspaceConflictKeepsInv ==
    ASSUME PromotionInv, NEW w \in Worker, MarkWorkspaceConflict(w) PROVE PromotionInv'
<1> DEFINE s == errand[w].ws
<1>1. Busy(w, "conflict") /\ UNCHANGED <<fence, directory, decided, revisionVars, receipts>>
  BY DEF MarkWorkspaceConflict, projectVars, fenceVars
<1>2. s \in Workspace
  BY <1>1 DEF PromotionInv, ErrandsFit, Fits, Busy
<1>3. CASE UNCHANGED workspace /\ Returns(w)
  BY <1>1, <1>3, ErrandGoesOn, AtHomeFits DEF Returns, AtHome
<1>4. CASE /\ workspace[s].state = "ACTIVE"
           /\ workspace' = [workspace EXCEPT ![s].state = "PROMOTION_CONFLICT"]
           /\ Proceeds(w, "conflict_job")
  <2>1. /\ errand' \in [Worker -> Errands] /\ errand'[w].step = "conflict_job"
        /\ \A v \in Worker : v # w => errand'[v] = errand[v]
    <3>1. "conflict_job" \in Steps
      BY DEF Steps
    <3> QED
      BY <1>4, <3>1, NextStepOfErrand
  <2>2. Fits(errand[w])'
    BY <2>1 DEF Fits
  <2> QED
    BY <1>1, <1>2, <1>4, <2>1, <2>2, SettledWorkspace
<1> QED
  BY <1>3, <1>4 DEF MarkWorkspaceConflict

(* Only a workspace that was written as the first revision after the       *)
(* baseline becomes PROMOTED, and only by the holder of the fence, which   *)
(* found that revision free.                                               *)
LEMMA MarkPromotedKeepsInv ==
    ASSUME PromotionInv, NEW w \in Worker, MarkPromoted(w) PROVE PromotionInv'
<1> DEFINE s == errand[w].ws
<1>1. Busy(w, "promoted") /\ UNCHANGED <<fence, directory, decided, revisionVars, receipts>>
  BY DEF MarkPromoted, projectVars, fenceVars
<1>2. s \in Workspace /\ errand[w].number = 2 /\ Len(origin) >= 1 /\ s \in published
  BY <1>1 DEF PromotionInv, ErrandsFit, Fits, Busy
<1>3. CASE UNCHANGED workspace /\ Returns(w)
  BY <1>1, <1>3, ErrandGoesOn, AtHomeFits DEF Returns, AtHome
<1>4. CASE /\ fence = w /\ workspace[s].state = "ACTIVE"
           /\ workspace' = [workspace EXCEPT ![s].state = "PROMOTED"]
           /\ Proceeds(w, "event")
  <2>1. /\ errand' \in [Worker -> Errands] /\ errand'[w].step = "event"
        /\ errand'[w].ws = s /\ errand'[w].number = 2
        /\ \A v \in Worker : v # w => errand'[v] = errand[v]
    <3>1. "event" \in Steps
      BY DEF Steps
    <3> QED
      BY <1>2, <1>4, <3>1, NextStepOfErrand
  <2>2. workspace'[s].state = "PROMOTED"
    BY <1>2, <1>4 DEF PromotionInv, PromotionTyped
  <2>3. Fits(errand[w])'
    BY <1>1, <1>2, <2>1, <2>2 DEF Fits, revisionVars
  <2>4. NobodyPromoted
    BY <1>1, <1>4 DEF PromotionInv, OnePromoted
  <2> QED
    BY <1>1, <1>2, <1>4, <2>1, <2>3, <2>4, SettledWorkspace
<1> QED
  BY <1>3, <1>4 DEF MarkPromoted

LEMMA RecordPromotionKeepsInv ==
    ASSUME PromotionInv, NEW w \in Worker, RecordPromotion(w) PROVE PromotionInv'
<1>1. /\ Busy(w, "event")
      /\ UNCHANGED <<fence, directory, workspace, decided, revisionVars, receipts>>
  BY DEF RecordPromotion, projectVars, fenceVars
<1>2. CASE Returns(w)
  BY <1>1, <1>2, ErrandGoesOn, AtHomeFits DEF Returns, AtHome
<1>3. CASE Proceeds(w, "certify")
  <2>1. /\ errand'[w] \in Errands /\ errand'[w].step = "certify"
        /\ errand'[w].ws = errand[w].ws /\ errand'[w].number = errand[w].number
        /\ errand' = [errand EXCEPT ![w] = errand'[w]]
    <3>1. "certify" \in Steps
      BY DEF Steps
    <3> QED
      BY <1>3, <3>1, NextStepOfErrand
  <2>2. Fits(errand'[w])
    BY <1>1, <2>1 DEF PromotionInv, ErrandsFit, Fits, Busy
  <2> QED
    BY <1>1, <2>1, <2>2, ErrandGoesOn
<1> QED
  BY <1>2, <1>3 DEF RecordPromotion

(* The file of revision 2 is missing: nobody has promoted anything yet.    *)
LEMMA FindRevisionFreeKeepsInv ==
    ASSUME PromotionInv, NEW w \in Worker, FindRevisionFree(w) PROVE PromotionInv'
<1> DEFINE e == [errand[w] EXCEPT !.step = "publish", !.number = Number + 1]
<1>1. /\ Busy(w, "accept")
      /\ UNCHANGED <<fence, directory, workspace, decided, revisionVars, receipts>>
  BY DEF FindRevisionFree, projectVars, fenceVars
<1>2. errand[w].ws \in Workspace /\ decided # Nobody
  BY <1>1 DEF PromotionInv, ErrandsFit, Fits, Busy
<1>3. CASE errand' = [errand EXCEPT ![w] = AtHome]
  BY <1>1, <1>3, ErrandGoesOn, AtHomeFits DEF AtHome
<1>4. CASE Number = 1 /\ errand' = [errand EXCEPT ![w] = e]
  <2>1. NobodyPromoted
    BY <1>4 DEF PromotionInv, PromotionTyped, OnceOnTop, NobodyPromoted, Number
  <2>2. e \in Errands /\ e.step = "publish" /\ e.ws = errand[w].ws /\ e.number = 2
    <3> DEFINE f == [errand[w] EXCEPT !.step = "publish"]
    <3>1. f \in Errands /\ f.step = "publish" /\ f.ws = errand[w].ws
      BY DEF PromotionInv, PromotionTyped, Errands, Steps
    <3>2. e = [f EXCEPT !.number = 2]
      BY <1>4
    <3> HIDE DEF e, f
    <3> QED
      BY <3>1, <3>2 DEF Errands
  <2> HIDE DEF e
  <2>3. Fits(e)
    BY <1>2, <2>2 DEF Fits
  <2> QED
    BY <1>1, <1>4, <2>1, <2>2, <2>3, ErrandGoesOn
<1> QED
  BY <1>3, <1>4 DEF FindRevisionFree

(* The revision is written as number 2, also by an incarnation that was    *)
(* replaced after it found it free.                                        *)
LEMMA PublishPromotedKeepsInv ==
    ASSUME PromotionInv, NEW w \in Worker, PublishPromoted(w) PROVE PromotionInv'
<1> DEFINE s == errand[w].ws
<1>1. /\ Busy(w, "publish") /\ origin' = Replaced(errand[w].number, s)
      /\ published' = published \cup {s} /\ Proceeds(w, "promoted")
      /\ UNCHANGED <<fence, directory, workspace, decided, found, receipts>>
  BY DEF PublishPromoted, fenceVars
<1>2. s \in Workspace /\ decided # Nobody /\ errand[w].number = 2
  BY <1>1 DEF PromotionInv, ErrandsFit, Fits, Busy
<1>3. /\ errand' \in [Worker -> Errands] /\ errand'[w].step = "promoted"
      /\ errand'[w].ws = s /\ errand'[w].number = 2
      /\ \A v \in Worker : v # w => errand'[v] = errand[v]
  <2>1. "promoted" \in Steps
    BY DEF Steps
  <2> QED
    BY <1>1, <1>2, <2>1, NextStepOfErrand
<1>4. /\ origin' \in Seq(Workspace \cup {Elsewhere})
      /\ Len(origin') >= 1 /\ DOMAIN origin' = 1 .. Len(origin')
      /\ \A i \in DOMAIN origin' : i = 1 \/ (i \in DOMAIN origin /\ origin'[i] = origin[i])
  <2>1. /\ origin' \in Seq(Workspace \cup {Elsewhere})
        /\ Len(origin) \in Nat /\ DOMAIN origin = 1 .. Len(origin)
        /\ Len(origin') >= 1 /\ DOMAIN origin' = 1 .. Len(origin')
        /\ \A i \in DOMAIN origin' :
              \/ origin'[i] = s /\ (i = 2 - 1 \/ i = Len(origin) + 1)
              \/ i \in DOMAIN origin /\ origin'[i] = origin[i]
    BY <1>1, <1>2, ReplacedRevision
  <2>2. 1 \in DOMAIN origin \/ origin = << >>
    BY <2>1 DEF PromotionInv, PromotionTyped
  <2>3. CASE 1 \in DOMAIN origin
    BY <2>1, <2>3, <1>1, <1>2 DEF Replaced, PromotionInv, PromotionTyped
  <2>4. CASE origin = << >>
    BY <2>1, <2>4
  <2> QED
    BY <2>1, <2>2, <2>3, <2>4
<1>5. PromotionTyped'
  BY <1>1, <1>3, <1>4 DEF PromotionInv, PromotionTyped
<1>6. ASSUME NEW v \in Worker PROVE Fits(errand[v])'
  <2>1. CASE v = w
    BY <2>1, <1>1, <1>2, <1>3, <1>4 DEF Fits
  <2>2. CASE v # w
    BY <2>2, <1>1, <1>3, <1>4 DEF PromotionInv, ErrandsFit, Fits
  <2> QED
    BY <2>1, <2>2
<1>7. ErrandsFit'
  BY <1>6 DEF ErrandsFit
<1>8. OneInserter'
  BY <1>1, <1>3 DEF PromotionInv, OneInserter, Busy
<1>9. OnceOnTop'
  BY <1>1, <1>2, <1>4 DEF PromotionInv, OnceOnTop
<1>10. OnePromoted'
  <2>1. w = fence => NobodyPromoted'
    BY <1>1 DEF PromotionInv, OnePromoted, NobodyPromoted
  <2> QED
    BY <1>1, <1>3, <2>1, OthersKeepOnePromoted
<1>11. ReceiptsEarned'
  BY <1>1 DEF PromotionInv, ReceiptsEarned, Earned
<1> QED
  BY <1>5, <1>7, <1>8, <1>9, <1>10, <1>11 DEF PromotionInv

(* Requests that end without writing, and those that end with a receipt.   *)
LEMMA ReturningKeepsInv ==
    ASSUME PromotionInv, NEW w \in Worker, Returns(w),
           UNCHANGED <<fence, directory, workspace, decided, revisionVars, receipts>>
    PROVE  PromotionInv'
BY ErrandGoesOn, AtHomeFits DEF Returns, AtHome

LEMMA ReceiptKeepsInv ==
    ASSUME PromotionInv, NEW w \in Worker, Returns(w),
           UNCHANGED <<fence, directory, workspace, decided, revisionVars>>,
           NEW r, receipts' = receipts \cup {r}, Earned(r)
    PROVE  PromotionInv'
<1> USE DEF revisionVars
<1>1. /\ errand' \in [Worker -> Errands]
      /\ \A v \in Worker : errand'[v] = IF v = w THEN AtHome ELSE errand[v]
  BY ReturningLeavesOthers
<1>2. PromotionTyped'
  BY <1>1 DEF PromotionInv, PromotionTyped
<1>3. ErrandsFit'
  BY <1>1, AtHomeFits DEF PromotionInv, ErrandsFit, Fits
<1>4. OneInserter'
  BY <1>1 DEF PromotionInv, OneInserter, Busy, AtHome
<1>5. OnceOnTop'
  BY DEF PromotionInv, OnceOnTop
<1>6. ReceiptsEarned'
  BY DEF PromotionInv, ReceiptsEarned, Earned
<1>7. OnePromoted'
  BY <1>1, OthersKeepOnePromoted DEF AtHome
<1> QED
  BY <1>2, <1>3, <1>4, <1>5, <1>6, <1>7 DEF PromotionInv

LEMMA CertifyKeepsInv ==
    ASSUME PromotionInv, NEW w \in Worker, NEW bound \in BOOLEAN, CertifyExecution(w, bound)
    PROVE  PromotionInv'
<1> DEFINE s == errand[w].ws
           id == DispatchedTo[workspace[s].attempt]
           r == Receipt(id, "EXECUTION_IMPLEMENTER", errand[w].number, Number, bound)
<1>1. /\ Busy(w, "certify") /\ Returns(w)
      /\ UNCHANGED <<fence, directory, workspace, decided, revisionVars>>
  BY DEF CertifyExecution, projectVars, fenceVars
<1>2. s \in Workspace /\ errand[w].number = 2 /\ workspace[s].state = "PROMOTED"
  BY <1>1 DEF PromotionInv, ErrandsFit, Fits, Busy
<1>3. CASE UNCHANGED receipts
  BY <1>1, <1>3, ReturningKeepsInv
<1>4. CASE /\ Number = errand[w].number /\ (id # "deepseek" \/ bound)
           /\ receipts' = receipts \cup {r}
  <2>1. /\ r.before = 2 /\ r.number = 2 /\ r.role = "EXECUTION_IMPLEMENTER"
        /\ r.provider = id /\ r.bound = bound
    BY <1>2, <1>4 DEF Receipt
  <2> HIDE DEF r
  <2>2. Earned(r)
    BY <1>2, <1>4, <2>1 DEF Earned
  <2> QED
    BY <1>1, <1>4, <2>2, ReceiptKeepsInv
<1> QED
  BY <1>3, <1>4 DEF CertifyExecution

LEMMA BeginInteractionKeepsInv ==
    ASSUME PromotionInv, NEW w \in Worker, NEW id \in Interlocutor, NEW bound \in BOOLEAN,
           BeginInteraction(w, id, bound)
    PROVE  PromotionInv'
<1> DEFINE e == [AtHome EXCEPT !.step = "interact", !.provider = id, !.number = Number,
                               !.bound = bound]
<1>1. /\ errand' = [errand EXCEPT ![w] = e]
      /\ UNCHANGED <<fence, directory, workspace, decided, revisionVars, receipts>>
  BY DEF BeginInteraction, projectVars, fenceVars
<1>2. Number \in Nat
  BY DEF PromotionInv, PromotionTyped, Number
<1>3. e \in Errands /\ e.step = "interact" /\ e.provider = id
  BY <1>2 DEF AtHome, Errands, Steps
<1> HIDE DEF e
<1>4. Fits(e)
  BY <1>3 DEF Fits
<1> QED
  BY <1>1, <1>3, <1>4, ErrandGoesOn

(* DeepSeek is not among those that are asked something.                   *)
LEMMA EndInteractionKeepsInv ==
    ASSUME PromotionInv, NEW w \in Worker, NEW reply \in Reply, EndInteraction(w, reply)
    PROVE  PromotionInv'
<1>1. /\ Busy(w, "interact") /\ Returns(w)
      /\ UNCHANGED <<fence, directory, workspace, decided, revisionVars>>
  BY DEF EndInteraction, projectVars, fenceVars
<1>2. errand[w].provider # "deepseek"
  BY <1>1, PromotionAssumption DEF PromotionInv, ErrandsFit, Fits, Busy
<1>3. CASE UNCHANGED receipts
  BY <1>1, <1>3, ReturningKeepsInv
<1>4. CASE Number = errand[w].number /\ receipts' = receipts \cup {Interviewed(w)}
  <2>1. Earned(Interviewed(w))
    BY <1>2, <1>4 DEF Earned, Interviewed, Receipt
  <2> QED
    BY <1>1, <1>4, <2>1, ReceiptKeepsInv
<1> QED
  BY <1>3, <1>4 DEF EndInteraction

LEMMA RestingKeepsInv ==
    ASSUME PromotionInv, fence' \in Worker, Busy(fence', "idle") \/ UNCHANGED fence,
           UNCHANGED <<directory, workspace, decided, revisionVars, receipts, errand>>
    PROVE  PromotionInv'
<1> USE DEF revisionVars
<1>1. PromotionTyped'
  BY DEF PromotionInv, PromotionTyped
<1>2. ErrandsFit'
  BY DEF PromotionInv, ErrandsFit, Fits
<1>3. OneInserter' /\ OnceOnTop'
  BY DEF PromotionInv, OneInserter, Busy, OnceOnTop
<1>4. ReceiptsEarned'
  BY DEF PromotionInv, ReceiptsEarned, Earned
<1>5. OnePromoted'
  BY DEF PromotionInv, OnePromoted, NobodyPromoted, Busy
<1> QED
  BY <1>1, <1>2, <1>3, <1>4, <1>5 DEF PromotionInv

LEMMA StepKeepsPromotionInv == PromotionInv /\ [PromotionNext]_promotionVars => PromotionInv'
<1> SUFFICES ASSUME PromotionInv, [PromotionNext]_promotionVars PROVE PromotionInv'
  OBVIOUS
<1>1. CASE UNCHANGED promotionVars
  BY <1>1, RestingKeepsInv
  DEF promotionVars, fenceVars, revisionVars, PromotionInv, OnePromoted
<1>2. ASSUME NEW w \in Worker, NEW s \in Workspace, NEW a \in Execution, CreateDirectory(w, s, a)
      PROVE  PromotionInv'
  BY <1>2, CreateDirectoryKeepsInv
<1>3. ASSUME NEW w \in Worker, InsertWorkspace(w) PROVE PromotionInv'
  BY <1>3, InsertWorkspaceKeepsInv
<1>4. ASSUME NEW w \in Worker, NEW s \in Workspace, NEW actor \in Promoter,
             BeginPromote(w, s, actor)
      PROVE  PromotionInv'
  BY <1>4, BeginPromoteKeepsInv
<1>5. ASSUME NEW w \in Worker, MarkWorkspaceConflict(w) PROVE PromotionInv'
  BY <1>5, MarkWorkspaceConflictKeepsInv
<1>6. ASSUME NEW w \in Worker, MarkJobConflict(w) PROVE PromotionInv'
  BY <1>6, ReturningKeepsInv DEF MarkJobConflict, projectVars, fenceVars
<1>7. ASSUME NEW w \in Worker, FindRevisionFree(w) PROVE PromotionInv'
  BY <1>7, FindRevisionFreeKeepsInv
<1>8. ASSUME NEW w \in Worker, PublishPromoted(w) PROVE PromotionInv'
  BY <1>8, PublishPromotedKeepsInv
<1>9. ASSUME NEW w \in Worker, MarkPromoted(w) PROVE PromotionInv'
  BY <1>9, MarkPromotedKeepsInv
<1>10. ASSUME NEW w \in Worker, RecordPromotion(w) PROVE PromotionInv'
  BY <1>10, RecordPromotionKeepsInv
<1>11. ASSUME NEW w \in Worker, NEW bound \in BOOLEAN, CertifyExecution(w, bound)
       PROVE  PromotionInv'
  BY <1>11, CertifyKeepsInv
<1>12. ASSUME NEW w \in Worker, NEW id \in Interlocutor, NEW bound \in BOOLEAN,
              BeginInteraction(w, id, bound)
       PROVE  PromotionInv'
  BY <1>12, BeginInteractionKeepsInv
<1>13. ASSUME NEW w \in Worker, NEW reply \in Reply, EndInteraction(w, reply) PROVE PromotionInv'
  BY <1>13, EndInteractionKeepsInv
<1>14. ASSUME NEW w \in Worker, Abandon(w) PROVE PromotionInv'
  BY <1>14, ReturningKeepsInv DEF Abandon, projectVars, fenceVars
<1>15. ASSUME NEW w \in Worker, ReplaceWorker(w) PROVE PromotionInv'
  BY <1>15, RestingKeepsInv DEF ReplaceWorker, projectVars, TakeFence
<1>16. ASSUME NEW a \in Execution, DecideAccept(a) PROVE PromotionInv'
  BY <1>16, DecideKeepsInv
<1>17. CASE FindFreeElsewhere
  BY <1>17, FindFreeElsewhereKeepsInv
<1>18. CASE PublishElsewhere
  BY <1>18, PublishElsewhereKeepsInv
<1> QED
  BY <1>1, <1>2, <1>3, <1>4, <1>5, <1>6, <1>7, <1>8, <1>9, <1>10, <1>11, <1>12, <1>13, <1>14,
     <1>15, <1>16, <1>17, <1>18
  DEF PromotionNext

(* The strengthening is an invariant: what each step of a promotion relies *)
(* on in the two other stores is still there when it is taken.             *)
THEOREM PromotionInvariant == PromotionSpec => []PromotionInv
<1>1. PromotionInit => PromotionInv
  BY InitEstablishesPromotionInv
<1>2. PromotionInv /\ [PromotionNext]_promotionVars => PromotionInv'
  BY StepKeepsPromotionInv
<1> QED
  BY <1>1, <1>2, PTL DEF PromotionSpec

(* At most one workspace of a ProjectJob counts as PROMOTED, it was        *)
(* written as the first revision after its own baseline and after an       *)
(* ACCEPT, and receipts are earned (promote, accept,                       *)
(* _record_promoted_provider_certification): no transaction spans the      *)
(* stores, a revision is written after it was found free without a lock,   *)
(* incarnations lose the fence and die in between, and any number of them  *)
(* may promote at a time.                                                  *)
THEOREM PromotionIsEarned == PromotionSpec => []PromotedOnceAndEarned
<1>1. PromotionInv => PromotedOnceAndEarned
  <2> SUFFICES ASSUME PromotionInv PROVE PromotedOnceAndEarned
    OBVIOUS
  <2>1. \A i \in DOMAIN origin : origin[i] \in Workspace => i = 1 /\ decided # Nobody
    BY DEF PromotionInv, OnceOnTop
  <2>2. \A s \in Workspace : workspace[s].state = "PROMOTED" => s \in published /\ Number > 1
    BY DEF PromotionInv, PromotionTyped, OnceOnTop, Number
  <2>3. \A s, t \in Workspace :
           workspace[s].state = "PROMOTED" /\ workspace[t].state = "PROMOTED" => s = t
    BY DEF PromotionInv, OnePromoted
  <2>4. \A r \in receipts : Earned(r)
    BY DEF PromotionInv, ReceiptsEarned
  <2>5. LiveCertified("deepseek", "EXECUTION_IMPLEMENTER") =
           \E r \in receipts : r.provider = "deepseek"
    BY <2>4 DEF LiveCertified, Earned
  <2> QED
    BY <2>1, <2>2, <2>3, <2>4, <2>5 DEF PromotedOnceAndEarned, Earned
<1> QED
  BY <1>1, PromotionInvariant, PTL
=============================================================================
