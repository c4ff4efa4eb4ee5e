------------------------------ MODULE RunStore ------------------------------
(***************************************************************************)
(* The SQLite RunStore (src/artifex/runtime/store.py) as its callers see   *)
(* it: rows with a state column, read without any lock, and written only   *)
(* by a transaction that asserts the fence and compares the state of every *)
(* row it changes with the state its caller expects.  A transaction        *)
(* commits as a whole or not at all.                                       *)
(*                                                                         *)
(* A caller is a service incarnation.  A call reads rows first (Begin) and *)
(* writes in one or more later transactions, each of which may find the    *)
(* store changed, may be refused, or may never come because the process    *)
(* dies.                                                                   *)
(***************************************************************************)
EXTENDS FencingAuthority

CONSTANTS
    Workstream, Run, Job, Attempt,     \* identifiers of the four tables
    WorkstreamOf, RunOf, JobOf,        \* foreign keys: the parent of a row
    NoRow,                             \* argument of an incarnation at rest
    MaxGeneration                      \* bound on service restarts

ASSUME StoreAssumption ==
    /\ WorkstreamOf \in [Run -> Workstream]
    /\ RunOf \in [Job -> Run]
    /\ JobOf \in [Attempt -> Job]
    /\ Workstream \cap Run = {} /\ Workstream \cap Job = {}
    /\ Workstream \cap Attempt = {} /\ Run \cap Job = {}
    /\ Run \cap Attempt = {} /\ Job \cap Attempt = {}
    /\ NoRow \notin Workstream \cup Run \cup Job \cup Attempt
    /\ MaxGeneration \in Nat

Row == Workstream \cup Run \cup Job \cup Attempt

WorkstreamState == {"READY", "ACTIVE", "BLOCKED", "COMPLETE"}

RunState == {"PENDING", "RUNNING", "WAITING_RECONCILIATION", "COMPLETED"}

ProjectJobState ==
    {"PENDING", "RUNNING", "FINISHED", "ACCEPTED", "REJECTED", "REWORK",
     "REQUIRE_APPROVAL", "PROMOTION_CONFLICT", "UNKNOWN", "CANCELLED"}

AttemptState ==
    {"PENDING", "RUNNING", "FINISHED", "CANCELLED", "UNKNOWN",
     "NEEDS_RECONCILIATION", "RECONCILED_RETRYABLE"}

(* A row that was not inserted yet is ABSENT.                              *)
State == {"ABSENT"} \cup WorkstreamState \cup RunState \cup ProjectJobState \cup AttemptState

VARIABLES
    db,              \* db[r]: the state column of row r
    call,            \* call[p]: the next step of the call p is in
    arg,             \* arg[p]: the row that call is about
    seen             \* seen[p]: the rows the call read, as it found them

storeVars == <<db, call, arg, seen>>

Unread == [r \in Row |-> "UNREAD"]

StoreInit ==
    /\ FencingInit
    /\ db = [r \in Row |-> "ABSENT"]
    /\ call = [p \in Process |-> "idle"]
    /\ arg = [p \in Process |-> NoRow]
    /\ seen = [p \in Process |-> Unread]

-----------------------------------------------------------------------------
(* Control of a call.                                                      *)

Reading(rows) == [r \in Row |-> IF r \in rows THEN db[r] ELSE "UNREAD"]

(* The reads at the head of a call: store.get and store.snapshot_run.      *)
(* `rows' are those whose states the call uses later on.                   *)
Begin(p, name, row, rows) ==
    /\ token[p] # 0
    /\ call[p] = "idle"
    /\ call' = [call EXCEPT ![p] = name]
    /\ arg' = [arg EXCEPT ![p] = row]
    /\ seen' = [seen EXCEPT ![p] = Reading(rows)]
    /\ UNCHANGED <<fencingVars, db>>

Continue(p, name) ==
    /\ call' = [call EXCEPT ![p] = name]
    /\ UNCHANGED <<arg, seen>>

Return(p) ==
    /\ call' = [call EXCEPT ![p] = "idle"]
    /\ arg' = [arg EXCEPT ![p] = NoRow]
    /\ seen' = [seen EXCEPT ![p] = Unread]

(* An exception: the fence or an expected state did not match, the lease   *)
(* ran out, or SQLite failed.  The open transaction is rolled back.        *)
Abort(p) ==
    /\ call[p] # "idle"
    /\ Return(p)
    /\ UNCHANGED <<fencingVars, db>>

AcquireCoordinator(p) ==
    /\ token[p] = 0
    /\ generation < MaxGeneration
    /\ Grant(p)
    /\ UNCHANGED storeVars

(* The process dies between two transactions; it may be replaced as long   *)
(* as the bound on generations allows it.                                  *)
Crash(p) ==
    /\ token[p] # 0
    /\ generation < MaxGeneration
    /\ Drop(p)
    /\ Return(p)
    /\ UNCHANGED db

-----------------------------------------------------------------------------
(* Writes.                                                                 *)

TransitionBatchUnfenced(p, from, to) ==
    /\ \A r \in DOMAIN from : db[r] = from[r]
    /\ db' = [r \in Row |-> IF r \in DOMAIN to THEN to[r] ELSE db[r]]
    /\ UNCHANGED fencingVars

(* transition_batch: one fenced transaction; every UPDATE must match its   *)
(* row in the expected state.                                              *)
TransitionBatch(p, from, to) ==
    /\ FencedWrite(p)
    /\ \A r \in DOMAIN from : db[r] = from[r]
    /\ db' = [r \in Row |-> IF r \in DOMAIN to THEN to[r] ELSE db[r]]

Transition(p, row, from, to) ==
    TransitionBatch(p, [r \in {row} |-> from], [r \in {row} |-> to])

(* insert: the primary key must be free.                                   *)
Insert(p, row, initial) == Transition(p, row, "ABSENT", initial)

(* record_event: an audit row only; no state column changes.               *)
RecordEvent(p) == FencedWrite(p) /\ UNCHANGED db
=============================================================================
