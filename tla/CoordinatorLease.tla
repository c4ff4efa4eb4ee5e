-------------------------- MODULE CoordinatorLease --------------------------
(***************************************************************************)
(* The single-row coordinator lease of the SQLite RunStore                 *)
(* (src/artifex/runtime/store.py) and the incarnations that compete for    *)
(* it.  Every method of the store takes `now` from its caller: the caller  *)
(* reads its clock BEFORE the transaction opens, so the value a            *)
(* transaction compares with expires_at may be old.  ReadClock is that     *)
(* read; the transaction that uses it is a later step, and time, other     *)
(* incarnations and crashes may come in between.                           *)
(***************************************************************************)
EXTENDS Integers

CONSTANTS
    Process,         \* incarnations: one ExecutionCoordinator object each
    Holder,          \* stable holder identities (service_id)
    HolderOf,        \* the identity each incarnation runs under
    TTL,             \* lease_seconds
    MaxClock,        \* bound: the clock stops here
    MaxGeneration    \* bound: no generation above this is handed out

ASSUME LeaseAssumption ==
    /\ HolderOf \in [Process -> Holder]
    /\ TTL \in Nat \ {0}
    /\ MaxClock \in Nat
    /\ MaxGeneration \in Nat

VARIABLES
    clock,           \* wall clock in seconds
    leaseHolder,     \* coordinator_lease.holder_id (any holder before row 1)
    generation,      \* coordinator_lease.generation, 0: the row is absent
    expires,         \* coordinator_lease.expires_at
    token,           \* token[p]: FenceToken.generation, 0: not acquired
    read,            \* read[p]: the `now` p took for its next transaction
    lastWriter       \* history: generation of the last committed mutation

vars == <<clock, leaseHolder, generation, expires, token, read, lastWriter>>

NoRead == -1

TypeOK ==
    /\ clock \in 0..MaxClock
    /\ leaseHolder \in Holder
    /\ generation \in 0..MaxGeneration
    /\ expires \in Nat
    /\ token \in [Process -> 0..MaxGeneration]
    /\ read \in [Process -> {NoRead} \cup 0..MaxClock]
    /\ lastWriter \in 0..MaxGeneration

Init ==
    /\ clock = 0
    /\ leaseHolder \in Holder
    /\ generation = 0
    /\ expires = 0
    /\ token = [p \in Process |-> 0]
    /\ read = [p \in Process |-> NoRead]
    /\ lastWriter = 0

-----------------------------------------------------------------------------
Tick ==
    /\ clock < MaxClock
    /\ clock' = clock + 1
    /\ UNCHANGED <<leaseHolder, generation, expires, token, read, lastWriter>>

(* now = self.clock(), the first half of every fenced call.                *)
ReadClock(p) ==
    /\ read[p] = NoRead
    /\ read' = [read EXCEPT ![p] = clock]
    /\ UNCHANGED <<clock, leaseHolder, generation, expires, token, lastWriter>>

(* Mutants of the definitions below; see PROJECT.json.                     *)
MayAcquireOffByOne(p) ==
    generation = 0 \/ leaseHolder = HolderOf[p] \/ expires <= read[p] + 1

MayAcquireNeverForeign(p) ==
    generation = 0 \/ leaseHolder = HolderOf[p]

(* The row refuses a foreign holder until it has expired.                  *)
MayAcquire(p) ==
    \/ generation = 0
    \/ leaseHolder = HolderOf[p]
    \/ expires <= read[p]

AcquireSharesGeneration(p) ==
    LET next == IF generation # 0 /\ leaseHolder = HolderOf[p]
                THEN generation ELSE generation + 1
    IN /\ read[p] # NoRead
       /\ token[p] = 0
       /\ generation < MaxGeneration
       /\ MayAcquire(p)
       /\ leaseHolder' = HolderOf[p]
       /\ generation' = next
       /\ expires' = read[p] + TTL
       /\ token' = [token EXCEPT ![p] = next]
       /\ read' = [read EXCEPT ![p] = NoRead]
       /\ UNCHANGED <<clock, lastWriter>>

(* acquire_coordinator: every incarnation gets a generation of its own,    *)
(* also one that runs under the identity that already holds the lease.     *)
AcquireCoordinator(p) ==
    /\ read[p] # NoRead
    /\ token[p] = 0
    /\ generation < MaxGeneration
    /\ MayAcquire(p)
    /\ leaseHolder' = HolderOf[p]
    /\ generation' = generation + 1
    /\ expires' = read[p] + TTL
    /\ token' = [token EXCEPT ![p] = generation + 1]
    /\ read' = [read EXCEPT ![p] = NoRead]
    /\ UNCHANGED <<clock, lastWriter>>

AssertFenceHolderOnly(p) ==
    generation # 0 /\ leaseHolder = HolderOf[p] /\ token[p] # 0 /\ expires > read[p]

(* _assert_fence: what every mutation of the store checks first.           *)
AssertFence(p) ==
    /\ generation # 0
    /\ leaseHolder = HolderOf[p]
    /\ generation = token[p]
    /\ expires > read[p]

(* renew_coordinator: the heartbeat of a live incarnation.                 *)
RenewCoordinator(p) ==
    /\ read[p] # NoRead
    /\ AssertFence(p)
    /\ expires' = read[p] + TTL
    /\ read' = [read EXCEPT ![p] = NoRead]
    /\ UNCHANGED <<clock, leaseHolder, generation, token, lastWriter>>

(* Any other mutation of the store, seen from the lease.                   *)
Mutate(p) ==
    /\ read[p] # NoRead
    /\ AssertFence(p)
    /\ lastWriter' = token[p]
    /\ read' = [read EXCEPT ![p] = NoRead]
    /\ UNCHANGED <<clock, leaseHolder, generation, expires, token>>

(* CoordinatorFencedError: the transaction is rolled back.  A refused      *)
(* renewal or mutation leaves the token where it was.  (The bound on       *)
(* generations also refuses, so that the model keeps moving at its limit.) *)
Refused(p) ==
    /\ read[p] # NoRead
    /\ IF token[p] = 0
       THEN ~MayAcquire(p) \/ generation = MaxGeneration
       ELSE ~AssertFence(p)
    /\ read' = [read EXCEPT ![p] = NoRead]
    /\ UNCHANGED <<clock, leaseHolder, generation, expires, token, lastWriter>>

(* The process dies; the slot is reused by the next incarnation.           *)
Crash(p) ==
    /\ token[p] # 0
    /\ token' = [token EXCEPT ![p] = 0]
    /\ read' = [read EXCEPT ![p] = NoRead]
    /\ UNCHANGED <<clock, leaseHolder, generation, expires, lastWriter>>

Next ==
    \/ Tick
    \/ \E p \in Process :
          \/ ReadClock(p)
          \/ AcquireCoordinator(p)
          \/ RenewCoordinator(p)
          \/ Mutate(p)
          \/ Refused(p)
          \/ Crash(p)

Spec == Init /\ [][Next]_vars

(* Time passes; an incarnation under another identity than the owner's     *)
(* keeps asking for the lease (the owner itself may stay dead for ever);   *)
(* and an incarnation that was fenced off stops, because the heartbeat     *)
(* thread of the host renews periodically and turns the first refusal into *)
(* a shutdown request (managed_service.py, ManagedServiceHost._heartbeat). *)
Fairness ==
    /\ WF_vars(Tick)
    /\ \A p \in Process :
          /\ WF_vars(ReadClock(p))
          /\ WF_vars(leaseHolder # HolderOf[p] /\ AcquireCoordinator(p))
          /\ WF_vars(Refused(p))
          /\ WF_vars(token[p] # generation /\ Crash(p))

FairSpec == Spec /\ Fairness

-----------------------------------------------------------------------------
(* Two live incarnations never hold the newest generation together, and    *)
(* the one that holds it runs under the identity the row names: a restart  *)
(* under the same service_id fences its predecessor (acquire_coordinator). *)
OneFenceHolder ==
    \A p, q \in Process :
        /\ token[p] # 0 /\ token[p] = generation => leaseHolder = HolderOf[p]
        /\ token[p] # 0 /\ token[p] = token[q] => p = q

(* A mutation is never committed by an older incarnation than the one that *)
(* committed the mutation before it, however stale the clock value is that *)
(* _assert_fence was given.                                                *)
WritesInGenerationOrder == [][lastWriter' >= lastWriter]_vars

(* A foreign holder takes the row over only when the lease has expired by  *)
(* the real clock, although acquire_coordinator compares an older reading. *)
LiveLeaseKeepsItsHolder ==
    [][generation # 0 /\ leaseHolder' # leaseHolder => expires <= clock]_vars

(* As long as nobody else acquires, renewing (renew_coordinator) never     *)
(* brings the expiry of the lease forward.                                 *)
RenewalNeverShortens ==
    [][generation' = generation => expires' >= expires]_vars

(* Orphaned: the newest generation belongs to no live incarnation.         *)
Orphaned == generation # 0 /\ \A p \in Process : token[p] # generation

(* A lease whose owner died is taken over by some incarnation, whatever    *)
(* identity it runs under: nobody waits for the dead owner to come back.   *)
(* The bounds of the model are the exceptions.                             *)
OrphanedLeaseIsTakenOver ==
    Orphaned ~> (~Orphaned \/ generation = MaxGeneration \/ expires > MaxClock)

(* The lease implements the fencing authority the RunStore builds on.      *)
Fencing == INSTANCE FencingAuthority

(* Refinement: every step of the lease is a grant, a fenced write, a loss  *)
(* of a token, or invisible.                                               *)
ImplementsFencing == Fencing!FencingSpec
=============================================================================
