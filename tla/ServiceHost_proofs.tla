-------------------------- MODULE ServiceHost_proofs --------------------------
(***************************************************************************)
(* Proofs about the instance lock of the managed service, for any number   *)
(* of host processes that are started one after the other; that two at a   *)
(* time break it is what the run racing_hosts shows.                       *)
(***************************************************************************)
EXTENDS ServiceHost, FiniteSetTheorems, TLAPS

Labels == {"new", "serve", "dead"} \cup Starting \cup Stopping

(* One process starts at a time.                                           *)
OneStarter == \A h, d \in Host : pc[h] \in Starting /\ pc[d] \in Starting => h = d

(* The lock file is the one its owner, or the process about to become it,  *)
(* has created; the file a starting process read may only have gone since, *)
(* and a lock is taken for stale only when nobody owns one.                *)
LockOK ==
    \A h \in Host :
        /\ Owns(h) => lock = h /\ written
        /\ pc[h] = "write" => lock = h
        /\ pc[h] = "check" => seen[h] \in Host /\ lock \in {seen[h], NoHost}
        /\ pc[h] = "unlink" => \A d \in Host : ~Owns(d)

HostInv == TypeOK /\ OneStarter /\ LockOK

-----------------------------------------------------------------------------
(* Type correctness, one thread at a time.                                 *)
LEMMA MainThreadKeepsType ==
    ASSUME TypeOK, NEW h \in Host, MainThread(h) PROVE TypeOK'
<1> USE DEF TypeOK, disk, threads, Goto, Starting, Stopping
<1>1. CASE OpenLock(h)
  BY <1>1 DEF OpenLock
<1>2. CASE ReadOwner(h)
  BY <1>2 DEF ReadOwner
<1>3. CASE CheckOwner(h)
  BY <1>3 DEF CheckOwner
<1>4. CASE UnlinkStale(h)
  BY <1>4 DEF UnlinkStale
<1>5. CASE WriteLock(h)
  BY <1>5 DEF WriteLock
<1>6. CASE AcquireFence(h)
  BY <1>6 DEF AcquireFence
<1>7. CASE WriteToken(h)
  BY <1>7 DEF WriteToken
<1>8. CASE Publish(h)
  BY <1>8 DEF Publish
<1>9. CASE StartThreads(h)
  BY <1>9 DEF StartThreads
<1>10. CASE BeginStop(h)
  BY <1>10 DEF BeginStop
<1>11. CASE CloseServer(h)
  BY <1>11 DEF CloseServer
<1>12. CASE JoinHeartbeat(h)
  BY <1>12 DEF JoinHeartbeat
<1>13. CASE JoinTimesOut(h)
  BY <1>13 DEF JoinTimesOut
<1>14. CASE WriteStopped(h)
  BY <1>14 DEF WriteStopped
<1>15. CASE UnlinkToken(h)
  BY <1>15 DEF UnlinkToken
<1>16. CASE Release(h)
  BY <1>16 DEF Release
<1>17. CASE RemoveLock(h)
  BY <1>17 DEF RemoveLock
<1>18. CASE Exit(h)
  BY <1>18 DEF Exit, Die
<1> QED
  BY <1>1, <1>2, <1>3, <1>4, <1>5, <1>6, <1>7, <1>8, <1>9, <1>10, <1>11, <1>12, <1>13, <1>14, <1>15, <1>16, <1>17, <1>18 DEF MainThread

LEMMA HeartbeatKeepsType ==
    ASSUME TypeOK, NEW h \in Host, Heartbeat(h) PROVE TypeOK'
<1> USE DEF TypeOK, disk, threads, Goto, Starting, Stopping
<1>1. CASE Renew(h)
  BY <1>1 DEF Renew
<1>2. CASE CheckRunning(h)
  BY <1>2 DEF CheckRunning
<1>3. CASE RewriteState(h)
  BY <1>3 DEF RewriteState
<1> QED
  BY <1>1, <1>2, <1>3 DEF Heartbeat

LEMMA EnvironmentKeepsType ==
    ASSUME TypeOK, NEW h \in Host, Environment(h) PROVE TypeOK'
<1> USE DEF TypeOK, disk, threads, Goto, Starting, Stopping
<1>1. CASE Start(h)
  BY <1>1 DEF Start
<1>2. CASE FailStart(h)
  BY <1>2 DEF FailStart
<1>3. CASE FailHeartbeat(h)
  BY <1>3 DEF FailHeartbeat
<1>4. CASE BeginRequest(h)
  BY <1>4 DEF BeginRequest
<1>5. CASE DispatchRequest(h)
  BY <1>5 DEF DispatchRequest
<1>6. CASE EndRequest(h)
  BY <1>6 DEF EndRequest
<1>7. CASE RequestShutdown(h)
  BY <1>7 DEF RequestShutdown
<1>8. CASE Crash(h)
  BY <1>8 DEF Crash, Die
<1> QED
  BY <1>1, <1>2, <1>3, <1>4, <1>5, <1>6, <1>7, <1>8 DEF Environment

LEMMA InitIsTyped == Init => TypeOK
<1> SUFFICES ASSUME Init PROVE TypeOK
  OBVIOUS
<1>1. /\ lock \in Host \cup {NoHost} /\ token \in Host \cup {NoHost} /\ fence \in Host \cup {NoHost}
      /\ foreign \in 0..MaxForeign
  BY HostAssumption DEF Init
<1>2. state \in [host : {NoHost}, lifecycle : {"NONE"}]
  BY DEF Init
<1>3. pc \in [Host -> {"new", "serve", "dead"} \cup Starting \cup Stopping]
  BY DEF Init
<1>4. /\ written \in BOOLEAN /\ retried \in [Host -> BOOLEAN]
      /\ shutdown \in [Host -> BOOLEAN] /\ seen \in [Host -> Host \cup {NoHost}]
  BY Zenon DEF Init
<1>5. /\ beat \in [Host -> {"wait", "renewed", "rewrite", "ended"}]
      /\ busy \in [Host -> {"none", "reading", "dispatch"}]
  BY DEF Init
<1> QED
  BY <1>1, <1>2, <1>3, <1>4, <1>5 DEF TypeOK

(* Files, labels and flags of the hosts keep their types, however many     *)
(* hosts start at a time.                                                  *)
THEOREM TypeCorrect == Spec => []TypeOK
<1>1. Init => TypeOK
  BY InitIsTyped
<1>2. TypeOK /\ [Next]_vars => TypeOK'
  <2> SUFFICES ASSUME TypeOK, [Next]_vars PROVE TypeOK'
    OBVIOUS
  <2>1. CASE ForeignRuntime
    BY <2>1, HostAssumption DEF ForeignRuntime, TypeOK, threads
  <2>2. CASE UNCHANGED vars
    BY <2>2 DEF TypeOK, vars, disk, threads
  <2> QED
    BY <2>1, <2>2, MainThreadKeepsType, HeartbeatKeepsType, EnvironmentKeepsType DEF Next
<1> QED
  BY <1>1, <1>2, PTL DEF Spec

-----------------------------------------------------------------------------
LEMMA NoStarterBelowOne ==
    ASSUME MaxStarters = 1, Cardinality({d \in Host : pc[d] \in Starting}) < MaxStarters
    PROVE  \A d \in Host : pc[d] \notin Starting
<1> DEFINE S == {d \in Host : pc[d] \in Starting}
<1>1. IsFiniteSet(S)
  BY HostAssumption, FS_Subset
<1>2. Cardinality(S) \in Nat /\ (Cardinality(S) = 0 <=> S = {})
  BY <1>1, FS_CardinalityType, FS_EmptySet
<1>3. S = {}
  BY <1>2
<1> QED
  BY <1>3

(* What moves no label and leaves the lock alone: the heartbeat, requests. *)
LEMMA AsideKeepsLock ==
    ASSUME HostInv, UNCHANGED <<lock, written, pc, seen>> PROVE OneStarter' /\ LockOK'
BY DEF HostInv, OneStarter, LockOK, Owns

(* A starting process goes on or gives up, an owner goes on or leaves.     *)
LEMMA GotoKeepsLock ==
    ASSUME HostInv, NEW h \in Host, NEW l \in Labels \ {"write", "check", "unlink"}, Goto(h, l),
           UNCHANGED <<lock, written>>, seen' \in [Host -> Host \cup {NoHost}],
           \A d \in Host \ {h} : seen'[d] = seen[d],
           l \in Starting => pc[h] \in Starting,
           Owns(h)' => Owns(h)
    PROVE  OneStarter' /\ LockOK'
<1>1. \A d \in Host : pc'[d] = IF d = h THEN l ELSE pc[d]
  BY DEF HostInv, TypeOK, Goto
<1>2. OneStarter'
  BY <1>1 DEF HostInv, OneStarter
<1>3. \A d \in Host : Owns(d)' => Owns(d)
  BY <1>1 DEF Owns
<1>4. LockOK'
  BY <1>1, <1>3 DEF HostInv, LockOK
<1> QED
  BY <1>2, <1>4

LEMMA StartKeepsLock ==
    ASSUME MaxStarters = 1, HostInv, NEW h \in Host, Start(h) PROVE OneStarter' /\ LockOK'
<1>1. \A d \in Host : pc[d] \notin Starting
  BY NoStarterBelowOne DEF Start
<1>2. \A d \in Host : pc'[d] = IF d = h THEN "open" ELSE pc[d]
  BY DEF Start, Goto, HostInv, TypeOK
<1>3. OneStarter'
  BY <1>1, <1>2 DEF OneStarter
<1>4. \A d \in Host : Owns(d)' => Owns(d)
  BY <1>2 DEF Owns
<1>5. LockOK'
  BY <1>1, <1>2, <1>4 DEF Start, disk, HostInv, LockOK, Starting
<1> QED
  BY <1>3, <1>5

(* The lock is created where there is none, hence no owner.                *)
LEMMA OpenLockKeepsLock ==
    ASSUME HostInv, NEW h \in Host, OpenLock(h) PROVE OneStarter' /\ LockOK'
<1>1. pc[h] = "open" /\ UNCHANGED seen
  BY DEF OpenLock
<1>2. CASE lock = NoHost /\ lock' = h /\ written' = FALSE /\ Goto(h, "write")
  <2>1. \A d \in Host : pc'[d] = IF d = h THEN "write" ELSE pc[d]
    BY <1>2 DEF Goto, HostInv, TypeOK
  <2>2. \A d \in Host : ~Owns(d)
    BY <1>2, HostAssumption DEF HostInv, LockOK
  <2>3. OneStarter'
    BY <1>1, <2>1 DEF HostInv, OneStarter, Starting
  <2>4. \A d \in Host : ~Owns(d)'
    BY <2>1, <2>2 DEF Owns
  <2>5. \A d \in Host \ {h} : pc[d] \notin Starting
    BY <1>1 DEF HostInv, OneStarter, Starting
  <2>6. LockOK'
    BY <1>2, <2>1, <2>4, <2>5 DEF LockOK, Starting
  <2> QED
    BY <2>3, <2>6
<1>3. CASE lock # NoHost /\ UNCHANGED <<lock, written>> /\ Goto(h, "read")
  <2>1. "read" \in Labels /\ "read" \in Starting /\ pc[h] \in Starting
    BY <1>1 DEF Labels, Starting
  <2>2. ~Owns(h)'
    BY <1>3 DEF Owns, Goto, HostInv, TypeOK
  <2> QED
    BY <1>1, <1>3, <2>1, <2>2, GotoKeepsLock DEF HostInv, TypeOK
<1> QED
  BY <1>2, <1>3 DEF OpenLock

LEMMA ReadOwnerKeepsLock ==
    ASSUME HostInv, TypeOK', NEW h \in Host, ReadOwner(h) PROVE OneStarter' /\ LockOK'
<1>1. pc[h] = "read" /\ UNCHANGED <<lock, written>>
  BY DEF ReadOwner, disk
<1>2. CASE lock # NoHost /\ written /\ seen' = [seen EXCEPT ![h] = lock] /\ Goto(h, "check")
  <2>1. \A d \in Host : /\ pc'[d] = IF d = h THEN "check" ELSE pc[d]
                        /\ seen'[d] = IF d = h THEN lock ELSE seen[d]
    BY <1>2 DEF Goto, HostInv, TypeOK
  <2>2. OneStarter' /\ \A d \in Host : Owns(d)' <=> Owns(d)
    BY <1>1, <2>1 DEF HostInv, OneStarter, Starting, Owns
  <2>3. \A d \in Host \ {h} : pc[d] \notin Starting
    BY <1>1 DEF HostInv, OneStarter, Starting
  <2>4. lock \in Host
    BY <1>2 DEF HostInv, TypeOK
  <2>5. LockOK'
    BY <1>1, <1>2, <2>1, <2>2, <2>3, <2>4 DEF HostInv, LockOK, Starting
  <2> QED
    BY <2>2, <2>5
<1>3. CASE UNCHANGED seen /\ Goto(h, "exit")
  <2>1. "exit" \in Labels /\ "exit" \notin Starting
    BY DEF Labels, Starting, Stopping
  <2>2. ~Owns(h)'
    BY <1>3 DEF Owns, Goto, HostInv, TypeOK
  <2> QED
    BY <1>1, <1>3, <2>1, <2>2, GotoKeepsLock DEF HostInv, TypeOK
<1> QED
  BY <1>2, <1>3 DEF ReadOwner

(* An owner is alive, so that its lock is not taken for stale.             *)
LEMMA CheckOwnerKeepsLock ==
    ASSUME HostInv, TypeOK', NEW h \in Host, CheckOwner(h) PROVE OneStarter' /\ LockOK'
<1>1. /\ pc[h] = "check" /\ UNCHANGED <<lock, written>>
      /\ \A d \in Host \ {h} : seen'[d] = seen[d]
  BY DEF CheckOwner, disk, HostInv, TypeOK
<1>2. CASE Goto(h, "exit")
  <2>1. "exit" \in Labels /\ "exit" \notin Starting
    BY DEF Labels, Starting, Stopping
  <2>2. ~Owns(h)'
    BY <1>2 DEF Owns, Goto, HostInv, TypeOK
  <2> QED
    BY <1>1, <1>2, <2>1, <2>2, GotoKeepsLock DEF TypeOK
<1>3. CASE ~Alive(seen[h]) /\ Goto(h, "unlink")
  <2>1. \A d \in Host : pc'[d] = IF d = h THEN "unlink" ELSE pc[d]
    BY <1>3 DEF Goto, HostInv, TypeOK
  <2>2. OneStarter' /\ \A d \in Host : Owns(d)' <=> Owns(d)
    BY <1>1, <2>1 DEF HostInv, OneStarter, Starting, Owns
  <2>3. \A d \in Host : ~Owns(d)
    <3> SUFFICES ASSUME NEW d \in Host, Owns(d) PROVE FALSE
      OBVIOUS
    <3>1. lock = d /\ lock \in {seen[h], NoHost}
      BY <1>1 DEF HostInv, LockOK
    <3>2. seen[h] = d
      BY <3>1, HostAssumption
    <3>3. Alive(d)
      BY DEF Owns, Alive
    <3> QED
      BY <1>3, <3>2, <3>3
  <2>4. \A d \in Host \ {h} : pc[d] \notin Starting
    BY <1>1 DEF HostInv, OneStarter, Starting
  <2>5. LockOK'
    BY <1>1, <2>1, <2>2, <2>3, <2>4 DEF LockOK, Starting
  <2> QED
    BY <2>2, <2>5
<1> QED
  BY <1>2, <1>3 DEF CheckOwner

LEMMA UnlinkStaleKeepsLock ==
    ASSUME HostInv, NEW h \in Host, UnlinkStale(h) PROVE OneStarter' /\ LockOK'
<1>1. pc[h] = "unlink" /\ Goto(h, "open") /\ UNCHANGED seen
  BY DEF UnlinkStale
<1>2. \A d \in Host : pc'[d] = IF d = h THEN "open" ELSE pc[d]
  BY <1>1 DEF Goto, HostInv, TypeOK
<1>3. OneStarter' /\ \A d \in Host : Owns(d)' => Owns(d)
  BY <1>1, <1>2 DEF HostInv, OneStarter, Starting, Owns
<1>4. \A d \in Host : ~Owns(d)'
  BY <1>1, <1>3 DEF HostInv, LockOK
<1>5. \A d \in Host \ {h} : pc[d] \notin Starting
  BY <1>1 DEF HostInv, OneStarter, Starting
<1>6. LockOK'
  BY <1>2, <1>4, <1>5 DEF LockOK, Starting
<1> QED
  BY <1>3, <1>6

LEMMA WriteLockKeepsLock ==
    ASSUME HostInv, NEW h \in Host, WriteLock(h) PROVE OneStarter' /\ LockOK'
<1>1. pc[h] = "write" /\ Goto(h, "fence") /\ UNCHANGED <<lock, seen>>
  BY DEF WriteLock
<1>2. lock = h /\ written'
  BY <1>1 DEF WriteLock, HostInv, LockOK
<1>3. \A d \in Host : pc'[d] = IF d = h THEN "fence" ELSE pc[d]
  BY <1>1 DEF Goto, HostInv, TypeOK
<1>4. OneStarter'
  BY <1>1, <1>3 DEF HostInv, OneStarter, Starting
<1>5. \A d \in Host \ {h} : pc[d] \notin Starting /\ ~Owns(d)
  BY <1>1, <1>2 DEF HostInv, OneStarter, LockOK, Starting
<1>6. \A d \in Host \ {h} : ~Owns(d)'
  BY <1>3, <1>5 DEF Owns
<1>7. LockOK'
  BY <1>1, <1>2, <1>3, <1>5, <1>6 DEF LockOK, Starting
<1> QED
  BY <1>4, <1>7

(* The owner removes its own lock and is the only one.                     *)
LEMMA RemoveLockKeepsLock ==
    ASSUME HostInv, NEW h \in Host, RemoveLock(h) PROVE OneStarter' /\ LockOK'
<1>1. /\ pc[h] = "remove" /\ Goto(h, "exit") /\ UNCHANGED seen
      /\ lock' = NoHost /\ written' = FALSE
  BY DEF RemoveLock
<1>2. \A d \in Host : pc'[d] = IF d = h THEN "exit" ELSE pc[d]
  BY <1>1 DEF Goto, HostInv, TypeOK
<1>3. OneStarter'
  BY <1>2 DEF HostInv, OneStarter, Starting
<1>4. Owns(h) /\ lock = h
  BY <1>1 DEF Owns, HostInv, LockOK
<1>5. \A d \in Host \ {h} : ~Owns(d)
  BY <1>4 DEF HostInv, LockOK
<1>6. \A d \in Host : ~Owns(d)'
  BY <1>2, <1>5 DEF Owns
<1>7. \A d \in Host \ {h} : pc[d] # "write"
  BY <1>4 DEF HostInv, LockOK
<1>8. LockOK'
  BY <1>1, <1>2, <1>6, <1>7 DEF HostInv, LockOK
<1> QED
  BY <1>3, <1>8

LEMMA DieKeepsLock ==
    ASSUME HostInv, TypeOK', NEW h \in Host, Die(h) PROVE OneStarter' /\ LockOK'
<1>1. Goto(h, "dead") /\ UNCHANGED <<lock, written>> /\ \A d \in Host \ {h} : seen'[d] = seen[d]
  BY DEF Die, Goto, disk, HostInv, TypeOK
<1>2. "dead" \in Labels /\ "dead" \notin Starting
  BY DEF Labels, Starting
<1>3. ~Owns(h)'
  BY <1>1 DEF Owns, Goto, HostInv, TypeOK
<1> QED
  BY <1>1, <1>2, <1>3, GotoKeepsLock DEF TypeOK

(* An owner goes from label to label and stays one, or leaves.             *)
LEMMA OwnerGoesOn ==
    ASSUME HostInv, NEW h \in Host, Owns(h),
           NEW l \in {"token", "publish", "threads", "serve", "close", "join", "stopped",
                      "untoken", "release", "remove", "exit"},
           l \in {"token", "publish", "threads"} => pc[h] \in Starting,
           Goto(h, l), UNCHANGED <<lock, written, seen>>
    PROVE  OneStarter' /\ LockOK'
<1>1. l \in Labels \ {"write", "check", "unlink"} /\ (l \in Starting => pc[h] \in Starting)
  BY DEF Labels, Starting, Stopping
<1> QED
  BY <1>1, GotoKeepsLock DEF HostInv, TypeOK

LEMMA OwnerStepKeepsLock ==
    ASSUME HostInv, NEW h \in Host,
           \/ AcquireFence(h) \/ WriteToken(h) \/ Publish(h) \/ StartThreads(h) \/ FailStart(h)
           \/ BeginStop(h) \/ CloseServer(h) \/ JoinHeartbeat(h) \/ JoinTimesOut(h)
           \/ WriteStopped(h) \/ UnlinkToken(h) \/ Release(h)
    PROVE  OneStarter' /\ LockOK'
<1> USE DEF disk, Owns, Starting
<1>1. CASE AcquireFence(h)
  BY <1>1, OwnerGoesOn DEF AcquireFence
<1>2. CASE WriteToken(h)
  BY <1>2, OwnerGoesOn DEF WriteToken
<1>3. CASE Publish(h)
  BY <1>3, OwnerGoesOn DEF Publish
<1>4. CASE StartThreads(h)
  BY <1>4, OwnerGoesOn DEF StartThreads
<1>5. CASE FailStart(h)
  BY <1>5, OwnerGoesOn DEF FailStart
<1>6. CASE BeginStop(h)
  BY <1>6, OwnerGoesOn DEF BeginStop
<1>7. CASE CloseServer(h)
  BY <1>7, OwnerGoesOn DEF CloseServer
<1>8. CASE JoinHeartbeat(h)
  BY <1>8, OwnerGoesOn DEF JoinHeartbeat
<1>9. CASE JoinTimesOut(h)
  BY <1>9, OwnerGoesOn DEF JoinTimesOut
<1>10. CASE WriteStopped(h)
  BY <1>10, OwnerGoesOn DEF WriteStopped
<1>11. CASE UnlinkToken(h)
  BY <1>11, OwnerGoesOn DEF UnlinkToken
<1>12. CASE Release(h)
  BY <1>12, OwnerGoesOn DEF Release
<1> QED
  BY <1>1, <1>2, <1>3, <1>4, <1>5, <1>6, <1>7, <1>8, <1>9, <1>10, <1>11, <1>12

LEMMA StepKeepsLock ==
    ASSUME MaxStarters = 1, HostInv, TypeOK', Next PROVE OneStarter' /\ LockOK'
<1> DEFINE Goal == OneStarter' /\ LockOK'
<1>1. ASSUME NEW h \in Host, MainThread(h) PROVE Goal
  <2>1. CASE Exit(h)
    BY <2>1, DieKeepsLock DEF Exit
  <2> QED
    BY <1>1, <2>1, OpenLockKeepsLock, ReadOwnerKeepsLock, CheckOwnerKeepsLock,
       UnlinkStaleKeepsLock, WriteLockKeepsLock, RemoveLockKeepsLock, OwnerStepKeepsLock
    DEF MainThread
<1>2. ASSUME NEW h \in Host, Heartbeat(h) PROVE Goal
  <2>1. UNCHANGED <<lock, written, pc, seen>>
    BY <1>2 DEF Heartbeat, Renew, CheckRunning, RewriteState, disk
  <2> QED
    BY <2>1, AsideKeepsLock
<1>3. ASSUME NEW h \in Host, Environment(h) PROVE Goal
  <2>1. CASE \/ FailHeartbeat(h) \/ RequestShutdown(h)
             \/ BeginRequest(h) \/ DispatchRequest(h) \/ EndRequest(h)
    <3>1. UNCHANGED <<lock, written, pc, seen>>
      BY <2>1
      DEF FailHeartbeat, RequestShutdown, BeginRequest, DispatchRequest, EndRequest, disk
    <3> QED
      BY <3>1, AsideKeepsLock
  <2>2. CASE Crash(h)
    BY <2>2, DieKeepsLock DEF Crash
  <2> QED
    BY <1>3, <2>1, <2>2, StartKeepsLock, OwnerStepKeepsLock DEF Environment
<1>4. CASE ForeignRuntime
  BY <1>4, AsideKeepsLock DEF ForeignRuntime, threads
<1> QED
  BY <1>1, <1>2, <1>3, <1>4 DEF Next

(* The inductive invariant of the instance lock: while one process starts  *)
(* at a time, the lock file is there, written and its owner's own for as   *)
(* long as a process owns it.                                              *)
THEOREM LockInvariant ==
    ASSUME MaxStarters = 1 PROVE Spec => []HostInv
<1>1. Init => HostInv
  <2> SUFFICES ASSUME Init PROVE HostInv
    OBVIOUS
  <2>1. TypeOK
    BY InitIsTyped
  <2> QED
    BY <2>1 DEF Init, HostInv, OneStarter, LockOK, Owns, Starting
<1>2. HostInv /\ TypeOK' /\ [Next]_vars => HostInv'
  <2>1. HostInv /\ TypeOK' /\ UNCHANGED vars => HostInv'
    BY AsideKeepsLock DEF HostInv, vars, disk, threads
  <2> QED
    BY <2>1, StepKeepsLock DEF HostInv
<1> QED
  BY <1>1, <1>2, TypeCorrect, PTL DEF Spec

(* No two live processes own the instance lock, whatever crashes and       *)
(* restarts there are, if they are started one after the other             *)
(* (_InstanceLock.acquire, release).                                       *)
THEOREM HostsExcludeEachOther ==
    ASSUME MaxStarters = 1 PROVE Spec => []OneOwner
<1>1. HostInv => OneOwner
  BY DEF HostInv, LockOK, OneOwner
<1> QED
  BY <1>1, LockInvariant, PTL
=============================================================================
