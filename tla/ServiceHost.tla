---------------------------- MODULE ServiceHost ----------------------------
(***************************************************************************)
(* The processes that host the managed service (managed_service.py) over   *)
(* one state root: the instance lock file, the transport token, the state  *)
(* file by which clients find the service, and the heartbeat thread that   *)
(* renews the coordinator lease.                                           *)
(*                                                                         *)
(* A Host is one process and its id is never reused.  A process that was   *)
(* refused, stopped or killed is dead.  The lock is a file: it exists from *)
(* its exclusive creation on, its owner can be read once it was written,   *)
(* and removing it removes whatever file has the name by then.             *)
(***************************************************************************)
EXTENDS Naturals, FiniteSets

CONSTANTS
    Host, NoHost,
    MaxStarters,       \* processes that may be starting at the same time
    MaxForeign         \* bound on fences taken by command line processes

ASSUME HostAssumption ==
    /\ NoHost \notin Host /\ IsFiniteSet(Host)
    /\ MaxStarters \in Nat \ {0} /\ MaxForeign \in Nat

VARIABLES
    lock,              \* creator of the instance lock file
    written,           \* its owner was written to it
    token,             \* owner of the transport token file
    state,             \* service-state.json
    fence,             \* holder of the newest coordinator generation
    foreign,           \* fences taken by command line processes so far
    pc, retried, seen, \* main thread: its next step, and the owner it read
    beat,              \* heartbeat thread
    busy,              \* what the transport does: nothing, reading a request, or running it
    shutdown           \* _shutdown_requested

disk == <<lock, written, token, state, fence>>
threads == <<pc, retried, seen, beat, busy, shutdown>>
vars == <<disk, foreign, threads>>

Starting == {"open", "read", "check", "unlink", "write", "fence", "token", "publish", "threads"}
Stopping == {"close", "join", "stopped", "untoken", "release", "remove", "exit"}

(* _lock.owned                                                             *)
Owns(h) == pc[h] \in {"fence", "token", "publish", "threads", "serve", "close", "join", "stopped",
                      "untoken", "release", "remove"}

Alive(h) == pc[h] \notin {"new", "dead"}

Init ==
    /\ lock = NoHost /\ written = FALSE
    /\ token = NoHost
    /\ state = [host |-> NoHost, lifecycle |-> "NONE"]
    /\ fence = NoHost /\ foreign = 0
    /\ pc = [h \in Host |-> "new"]
    /\ retried = [h \in Host |-> FALSE]
    /\ seen = [h \in Host |-> NoHost]
    /\ beat = [h \in Host |-> "ended"]
    /\ busy = [h \in Host |-> "none"]
    /\ shutdown = [h \in Host |-> FALSE]

Goto(h, label) == pc' = [pc EXCEPT ![h] = label]

-----------------------------------------------------------------------------
(* _InstanceLock.acquire.                                                  *)
Start(h) ==
    /\ pc[h] = "new"
    /\ Cardinality({d \in Host : pc[d] \in Starting}) < MaxStarters
    /\ Goto(h, "open")
    /\ UNCHANGED <<disk, foreign, retried, seen, beat, busy, shutdown>>

(* The exclusive creation succeeds or finds a file.                        *)
OpenLock(h) ==
    /\ pc[h] = "open"
    /\ IF lock = NoHost
       THEN lock' = h /\ written' = FALSE /\ Goto(h, "write")
       ELSE UNCHANGED <<lock, written>> /\ Goto(h, "read")
    /\ UNCHANGED <<token, state, fence, foreign, retried, seen, beat, busy, shutdown>>

(* A lock that is gone or not yet written is refused as unreadable.        *)
ReadOwner(h) ==
    /\ pc[h] = "read"
    /\ IF lock # NoHost /\ written
       THEN seen' = [seen EXCEPT ![h] = lock] /\ Goto(h, "check")
       ELSE UNCHANGED seen /\ Goto(h, "exit")
    /\ UNCHANGED <<disk, foreign, retried, beat, busy, shutdown>>

CheckOwnerTrusting(h) ==
    /\ pc[h] = "check"
    /\ Goto(h, IF retried[h] THEN "exit" ELSE "unlink")
    /\ seen' = [seen EXCEPT ![h] = NoHost]
    /\ UNCHANGED <<disk, foreign, retried, beat, busy, shutdown>>

(* A live owner is refused, and so is a second stale one.                  *)
CheckOwner(h) ==
    /\ pc[h] = "check"
    /\ Goto(h, IF Alive(seen[h]) \/ retried[h] THEN "exit" ELSE "unlink")
    /\ seen' = [seen EXCEPT ![h] = NoHost]
    /\ UNCHANGED <<disk, foreign, retried, beat, busy, shutdown>>

UnlinkStale(h) ==
    /\ pc[h] = "unlink"
    /\ lock' = NoHost /\ written' = FALSE
    /\ retried' = [retried EXCEPT ![h] = TRUE]
    /\ Goto(h, "open")
    /\ UNCHANGED <<token, state, fence, foreign, seen, beat, busy, shutdown>>

(* Writing goes to the file this process created, which may have lost its  *)
(* name since.                                                             *)
WriteLock(h) ==
    /\ pc[h] = "write"
    /\ written' = (IF lock = h THEN TRUE ELSE written)
    /\ Goto(h, "fence")
    /\ retried' = [retried EXCEPT ![h] = FALSE]
    /\ UNCHANGED <<lock, token, state, fence, foreign, seen, beat, busy, shutdown>>

-----------------------------------------------------------------------------
(* start, after the lock.  All hosts use one service id, so the newest one *)
(* takes the coordinator lease from its predecessor at once.               *)
AcquireFence(h) ==
    /\ pc[h] = "fence"
    /\ fence' = h
    /\ Goto(h, "token")
    /\ UNCHANGED <<lock, written, token, state, foreign, retried, seen, beat, busy, shutdown>>

WriteToken(h) ==
    /\ pc[h] = "token"
    /\ token' = h
    /\ Goto(h, "publish")
    /\ UNCHANGED <<lock, written, state, fence, foreign, retried, seen, beat, busy, shutdown>>

Publish(h) ==
    /\ pc[h] = "publish"
    /\ state' = [host |-> h, lifecycle |-> "RUNNING"]
    /\ Goto(h, "threads")
    /\ UNCHANGED <<lock, written, token, fence, foreign, retried, seen, beat, busy, shutdown>>

StartThreads(h) ==
    /\ pc[h] = "threads"
    /\ Goto(h, "serve")
    /\ beat' = [beat EXCEPT ![h] = "wait"]
    /\ UNCHANGED <<disk, foreign, retried, seen, busy, shutdown>>

(* Any exception after the lock unwinds through the token and the lock.    *)
FailStart(h) ==
    /\ pc[h] \in {"fence", "token", "publish", "threads"}
    /\ Goto(h, "untoken")
    /\ UNCHANGED <<disk, foreign, retried, seen, beat, busy, shutdown>>

-----------------------------------------------------------------------------
(* The transport serves one connection at a time and reads its request     *)
(* without a time limit, so that a client which never sends one holds it.  *)
BeginRequest(h) ==
    /\ pc[h] = "serve" /\ busy[h] = "none"
    /\ busy' = [busy EXCEPT ![h] = "reading"]
    /\ UNCHANGED <<disk, foreign, pc, retried, seen, beat, shutdown>>

(* An operation holds the authority lock; the heartbeat needs it, too.     *)
DispatchRequest(h) ==
    /\ busy[h] = "reading" /\ beat[h] \in {"wait", "ended"}
    /\ busy' = [busy EXCEPT ![h] = "dispatch"]
    /\ UNCHANGED <<disk, foreign, pc, retried, seen, beat, shutdown>>

(* The connection ends: after its operation, or without one if the request *)
(* is not accepted, asks for the status or for the shutdown.               *)
EndRequest(h) ==
    /\ busy[h] # "none"
    /\ busy' = [busy EXCEPT ![h] = "none"]
    /\ UNCHANGED <<disk, foreign, pc, retried, seen, beat, shutdown>>

RenewRetries(h) ==
    /\ beat[h] = "wait" /\ busy[h] # "dispatch"
    /\ beat' = [beat EXCEPT ![h] = IF fence = h THEN "renewed" ELSE "wait"]
    /\ UNCHANGED <<disk, foreign, pc, retried, seen, busy, shutdown>>

(* A lost lease ends the heartbeat and asks the main thread to stop.  One  *)
(* that waits for the authority lock when the host stops renews once more. *)
Renew(h) ==
    /\ beat[h] = "wait" /\ busy[h] # "dispatch"
    /\ IF fence = h
       THEN beat' = [beat EXCEPT ![h] = "renewed"] /\ UNCHANGED shutdown
       ELSE beat' = [beat EXCEPT ![h] = "ended"] /\ shutdown' = [shutdown EXCEPT ![h] = TRUE]
    /\ UNCHANGED <<disk, foreign, pc, retried, seen, busy>>

CheckRunningInverted(h) ==
    /\ beat[h] = "renewed"
    /\ beat' = [beat EXCEPT ![h] = IF pc[h] \in Stopping THEN "rewrite" ELSE "wait"]
    /\ UNCHANGED <<disk, foreign, pc, retried, seen, busy, shutdown>>

(* The state is rewritten only while the host is running ...               *)
CheckRunning(h) ==
    /\ beat[h] = "renewed"
    /\ beat' = [beat EXCEPT ![h] = IF pc[h] \in Stopping THEN "ended" ELSE "rewrite"]
    /\ UNCHANGED <<disk, foreign, pc, retried, seen, busy, shutdown>>

(* ... which was checked a moment ago.                                     *)
RewriteState(h) ==
    /\ beat[h] = "rewrite"
    /\ state' = [host |-> h, lifecycle |-> "RUNNING"]
    /\ beat' = [beat EXCEPT ![h] = "wait"]
    /\ UNCHANGED <<lock, written, token, fence, foreign, pc, retried, seen, busy, shutdown>>

(* Any other exception of the heartbeat ends it in the same way.           *)
FailHeartbeat(h) ==
    /\ beat[h] \in {"renewed", "rewrite"}
    /\ beat' = [beat EXCEPT ![h] = "ended"]
    /\ shutdown' = [shutdown EXCEPT ![h] = TRUE]
    /\ UNCHANGED <<disk, foreign, pc, retried, seen, busy>>

-----------------------------------------------------------------------------
(* A signal or a client's request.                                         *)
RequestShutdown(h) ==
    /\ pc[h] = "serve" /\ ~shutdown[h]
    /\ shutdown' = [shutdown EXCEPT ![h] = TRUE]
    /\ UNCHANGED <<disk, foreign, pc, retried, seen, beat, busy>>

(* stop, called by the main thread or the one of request_shutdown; the     *)
(* second of them finds the host no longer running.                        *)
BeginStop(h) ==
    /\ pc[h] = "serve" /\ shutdown[h]
    /\ Goto(h, "close")
    /\ UNCHANGED <<disk, foreign, retried, seen, beat, busy, shutdown>>

(* The transport is shut down between two requests, once the one being     *)
(* served has ended.                                                       *)
CloseServer(h) ==
    /\ pc[h] = "close" /\ busy[h] = "none"
    /\ Goto(h, "join")
    /\ UNCHANGED <<disk, foreign, retried, seen, beat, busy, shutdown>>

JoinHeartbeat(h) ==
    /\ pc[h] = "join" /\ beat[h] \in {"wait", "ended"}
    /\ Goto(h, "stopped")
    /\ beat' = [beat EXCEPT ![h] = "ended"]
    /\ UNCHANGED <<disk, foreign, retried, seen, busy, shutdown>>

(* join gives up after five seconds; the heartbeat goes on.                *)
JoinTimesOut(h) ==
    /\ pc[h] = "join" /\ beat[h] \notin {"wait", "ended"}
    /\ Goto(h, "stopped")
    /\ UNCHANGED <<disk, foreign, retried, seen, beat, busy, shutdown>>

WriteStopped(h) ==
    /\ pc[h] = "stopped"
    /\ state' = [host |-> h, lifecycle |-> "STOPPED"]
    /\ Goto(h, "untoken")
    /\ UNCHANGED <<lock, written, token, fence, foreign, retried, seen, beat, busy, shutdown>>

UnlinkToken(h) ==
    /\ pc[h] = "untoken"
    /\ token' = NoHost
    /\ Goto(h, "release")
    /\ UNCHANGED <<lock, written, state, fence, foreign, retried, seen, beat, busy, shutdown>>

(* release reads the owner ...                                             *)
Release(h) ==
    /\ pc[h] = "release"
    /\ Goto(h, IF lock = h /\ written THEN "remove" ELSE "exit")
    /\ UNCHANGED <<disk, foreign, retried, seen, beat, busy, shutdown>>

(* ... and then removes the file.                                          *)
RemoveLock(h) ==
    /\ pc[h] = "remove"
    /\ lock' = NoHost /\ written' = FALSE
    /\ Goto(h, "exit")
    /\ UNCHANGED <<token, state, fence, foreign, retried, seen, beat, busy, shutdown>>

(* Its threads and its memory end with the process.                        *)
Die(h) ==
    /\ pc' = [pc EXCEPT ![h] = "dead"]
    /\ retried' = [retried EXCEPT ![h] = FALSE]
    /\ seen' = [seen EXCEPT ![h] = NoHost]
    /\ beat' = [beat EXCEPT ![h] = "ended"]
    /\ busy' = [busy EXCEPT ![h] = "none"]
    /\ shutdown' = [shutdown EXCEPT ![h] = FALSE]
    /\ UNCHANGED <<disk, foreign>>

Exit(h) == pc[h] = "exit" /\ Die(h)

Crash(h) == Alive(h) /\ Die(h)

(* A command line process opens the same RunStore under the same id.       *)
ForeignRuntime ==
    /\ foreign < MaxForeign
    /\ foreign' = foreign + 1
    /\ fence' = NoHost
    /\ UNCHANGED <<lock, written, token, state, threads>>

-----------------------------------------------------------------------------
MainThread(h) ==
    \/ OpenLock(h) \/ ReadOwner(h) \/ CheckOwner(h) \/ UnlinkStale(h) \/ WriteLock(h)
    \/ AcquireFence(h) \/ WriteToken(h) \/ Publish(h) \/ StartThreads(h)
    \/ BeginStop(h) \/ CloseServer(h) \/ JoinHeartbeat(h) \/ JoinTimesOut(h)
    \/ WriteStopped(h) \/ UnlinkToken(h) \/ Release(h) \/ RemoveLock(h) \/ Exit(h)

Heartbeat(h) == Renew(h) \/ CheckRunning(h) \/ RewriteState(h)

Environment(h) ==
    \/ Start(h) \/ FailStart(h) \/ FailHeartbeat(h)
    \/ BeginRequest(h) \/ DispatchRequest(h) \/ EndRequest(h)
    \/ RequestShutdown(h) \/ Crash(h)

Next ==
    \/ \E h \in Host : MainThread(h) \/ Heartbeat(h) \/ Environment(h)
    \/ ForeignRuntime

Spec == Init /\ [][Next]_vars

(* Threads are scheduled.  The heartbeat competes for the authority lock   *)
(* with the transport, which releases it between two requests while it     *)
(* waits for the network.  Nothing is assumed of requests: neither that    *)
(* one being read arrives nor that one being run returns.                  *)
FairSpec ==
    /\ Spec
    /\ \A h \in Host : WF_vars(MainThread(h)) /\ SF_vars(Heartbeat(h))

-----------------------------------------------------------------------------
TypeOK ==
    /\ lock \in Host \cup {NoHost} /\ token \in Host \cup {NoHost}
    /\ fence \in Host \cup {NoHost} /\ foreign \in 0..MaxForeign
    /\ written \in BOOLEAN
    /\ state \in [host : {NoHost}, lifecycle : {"NONE"}]
                  \cup [host : Host, lifecycle : {"RUNNING", "STOPPED"}]
    /\ pc \in [Host -> {"new", "serve", "dead"} \cup Starting \cup Stopping]
    /\ retried \in [Host -> BOOLEAN]
    /\ seen \in [Host -> Host \cup {NoHost}]
    /\ beat \in [Host -> {"wait", "renewed", "rewrite", "ended"}]
    /\ busy \in [Host -> {"none", "reading", "dispatch"}]
    /\ shutdown \in [Host -> BOOLEAN]

(* docs/architecture/MANAGED_SERVICE_INSTALLATION.md: "A second host fails *)
(* closed while the live instance lock is owned."  Never do two live       *)
(* processes own the instance lock (_InstanceLock).                        *)
OneOwner == \A h, d \in Host : Owns(h) /\ Owns(d) => h = d

(* A host that lost the coordinator lease stops, whatever requests it is   *)
(* given meanwhile (_heartbeat, stop), on one condition: no request holds  *)
(* the transport for ever.  Without it the code promises nothing, since    *)
(* the transport reads without a time limit and stop waits for it.         *)
SupersededHostStops ==
    \A h \in Host :
        []<>(busy[h] = "none") => (pc[h] = "serve" /\ fence # h ~> pc[h] = "dead")

(* A host that keeps serving ends up being the one that clients find,      *)
(* although a predecessor may still write its own state (_heartbeat,       *)
(* stop): again if no operation keeps the authority lock for ever.         *)
ServingHostIsFound ==
    \A h \in Host :
        <>[](pc[h] = "serve") /\ []<>(busy[h] # "dispatch")
            => <>[](state = [host |-> h, lifecycle |-> "RUNNING"] /\ token = h)
=============================================================================
