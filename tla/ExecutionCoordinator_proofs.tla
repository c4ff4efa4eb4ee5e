-------------------- MODULE ExecutionCoordinator_proofs --------------------
(***************************************************************************)
(* Proofs about the durable execution lifecycle, for every hierarchy of    *)
(* Workstreams, Runs, ProjectJobs and Attempts, every number of service    *)
(* incarnations and every bound.                                           *)
(***************************************************************************)
EXTENDS ExecutionCoordinator, FiniteSetTheorems, TLAPS

AttemptCall ==
    {"create_attempt", "authorize", "start_workstream", "start_run", "start_job",
     "start_attempt", "provider_result", "finish", "finish_event", "evidence", "cancel",
     "unknown", "begin", "recovered_finished", "safe_to_retry"}

JobCall == {"create_project_job", "settle_read", "settle", "decide"}

CallName == {"idle", "create_workstream", "create_run"} \cup AttemptCall \cup JobCall

(* Calls that carry no row from their reads to their transactions.         *)
BlindCall == {"idle", "provider_result", "finish", "finish_event", "settle_read"}

(* A call is about a row of the table it works on.                         *)
ArgumentOf(name, row) ==
    /\ name \in CallName
    /\ row \in Row \cup {NoRow}
    /\ name \in AttemptCall => row \in Attempt
    /\ name \in JobCall => row \in Job
    /\ name = "create_workstream" => row \in Workstream
    /\ name = "create_run" => row \in Run

(* What a call has checked on the rows it read.                            *)
CheckedBy(name, row, rows) ==
    /\ name \in BlindCall => \A x \in Row : rows[x] = "UNREAD"
    /\ name = "cancel" => rows[row] \in {"PENDING", "RUNNING"}
    /\ name = "decide" => \A a \in Attempts(row) : rows[a] # "UNREAD"
    /\ name = "settle" => Settled(rows, RunOf[row])

ControlOK ==
    /\ call \in [Process -> CallName]
    /\ arg \in [Process -> Row \cup {NoRow}]
    /\ seen \in [Process -> [Row -> State \cup {"UNREAD"}]]
    /\ \A p \in Process :
          /\ ArgumentOf(call[p], arg[p])
          /\ CheckedBy(call[p], arg[p], seen[p])

(* Tokens are unique, never ahead of the row, and without one there is no  *)
(* call.                                                                   *)
TokensOK ==
    \A p \in Process :
        /\ token[p] <= generation
        /\ token[p] = 0 => call[p] = "idle"
        /\ \A q \in Process : token[p] = token[q] /\ token[p] # 0 => p = q

Holds(p) == token[p] # 0 /\ token[p] = generation

(* The holder of the fence that is about to authorize found the Attempt    *)
(* PENDING, and so it still is.                                            *)
AuthorizesPending ==
    \A p \in Process : Holds(p) /\ call[p] = "authorize" => db[arg[p]] = "PENDING"

SessionInv == ControlOK /\ TokensOK /\ AuthorizesPending /\ FenceHolderReadsAreCurrent

(* No decision is on record before a ProjectJob is decided.                *)
Undecided ==
    \A j \in Job : db[j] \in {"ABSENT", "PENDING", "RUNNING", "UNKNOWN", "FINISHED"}
                      => decisions[j] = 0

DataInv ==
    /\ OneUncertainAttemptPerWaitingRun
    /\ OneResultPerJob
    /\ Undecided
    /\ AcceptedByAnother
    /\ AcceptedOnEvidence

CoordinatorInv == TypeOK /\ DataInv /\ SessionInv

-----------------------------------------------------------------------------
(* Tables do not share rows, and UNREAD is no state of a row.              *)
LEMMA Tables ==
    /\ Workstream \subseteq Row /\ Run \subseteq Row /\ Job \subseteq Row /\ Attempt \subseteq Row
    /\ NoRow \notin Row
    /\ "UNREAD" \notin State
    /\ \A a \in Attempt : /\ a \notin Job /\ a \notin Run /\ a \notin Workstream
                          /\ JobOf[a] \in Job
    /\ \A j \in Job : j \notin Run /\ j \notin Workstream /\ RunOf[j] \in Run
    /\ \A r \in Run : r \notin Workstream /\ WorkstreamOf[r] \in Workstream
  BY StoreAssumption
     DEF Row, State, WorkstreamState, RunState, ProjectJobState, AttemptState

LEMMA InitEstablishesInv == Init => CoordinatorInv
<1> SUFFICES ASSUME Init PROVE CoordinatorInv
  OBVIOUS
<1> USE StoreAssumption, CoordinatorAssumption, Tables DEF Init, StoreInit, FencingInit
<1>1. TypeOK
  BY DEF TypeOK, State, WorkstreamState, RunState, ProjectJobState, AttemptState, Row
<1>2. DataInv
  BY DEF DataInv, OneUncertainAttemptPerWaitingRun, OneResultPerJob, Undecided, AcceptedByAnother,
         AcceptedOnEvidence, Uncertain, FinishedAttempts, Attempts, Row
<1>3. ControlOK
  BY DEF ControlOK, Unread, ArgumentOf, CheckedBy, CallName, AttemptCall, JobCall
<1>4. TokensOK /\ AuthorizesPending /\ FenceHolderReadsAreCurrent
  BY DEF TokensOK, AuthorizesPending, Holds, FenceHolderReadsAreCurrent, Unread
<1> QED
  BY <1>1, <1>2, <1>3, <1>4 DEF CoordinatorInv, SessionInv

-----------------------------------------------------------------------------
(* The reads at the head of a call.                                        *)
LEMMA BeginStep ==
    ASSUME CoordinatorInv, NEW p \in Process, NEW name, NEW row, NEW rows \in SUBSET Row,
           Begin(p, name, row, rows), UNCHANGED columns,
           ArgumentOf(name, row), CheckedBy(name, row, Reading(rows)),
           name = "authorize" => db[row] = "PENDING"
    PROVE  CoordinatorInv'
<1> USE DEF CoordinatorInv, SessionInv, Begin, fencingVars, columns
<1>1. TypeOK'
  BY DEF TypeOK
<1>2. DataInv'
  BY DEF DataInv, OneUncertainAttemptPerWaitingRun, OneResultPerJob, Undecided, AcceptedByAnother,
         AcceptedOnEvidence, FinishedAttempts
<1>3. Reading(rows) \in [Row -> State \cup {"UNREAD"}]
  BY DEF Reading, TypeOK
<1>4. ControlOK'
  <2>1. /\ call' \in [Process -> CallName]
        /\ arg' \in [Process -> Row \cup {NoRow}]
        /\ seen' \in [Process -> [Row -> State \cup {"UNREAD"}]]
    BY <1>3 DEF ControlOK, ArgumentOf
  <2>2. ASSUME NEW q \in Process
        PROVE  ArgumentOf(call'[q], arg'[q]) /\ CheckedBy(call'[q], arg'[q], seen'[q])
    BY DEF ControlOK
  <2> QED
    BY <2>1, <2>2 DEF ControlOK
<1>5. TokensOK'
  BY DEF TokensOK, ControlOK
<1>6. AuthorizesPending'
  BY DEF AuthorizesPending, Holds, ControlOK
<1>7. FenceHolderReadsAreCurrent'
  BY <1>3 DEF FenceHolderReadsAreCurrent, OwnWrites, ControlOK, Reading
<1> QED
  BY <1>1, <1>2, <1>4, <1>5, <1>6, <1>7

-----------------------------------------------------------------------------
(* Steps of the incarnations themselves.                                   *)
LEMMA DataUnchanged ==
    ASSUME DataInv, UNCHANGED <<db, columns>>
    PROVE  DataInv'
  BY DEF DataInv, OneUncertainAttemptPerWaitingRun, OneResultPerJob, Undecided, AcceptedByAnother,
         AcceptedOnEvidence, FinishedAttempts, columns

LEMMA AbortStep ==
    ASSUME CoordinatorInv, NEW p \in Process, Abort(p), UNCHANGED columns
    PROVE  CoordinatorInv'
<1> USE Tables DEF CoordinatorInv, SessionInv, Abort, Return, fencingVars
<1>1. TypeOK' /\ DataInv'
  BY DataUnchanged DEF TypeOK, columns
<1>2. ControlOK'
  BY DEF ControlOK, Unread, ArgumentOf, CheckedBy, CallName, AttemptCall, JobCall
<1>3. TokensOK' /\ AuthorizesPending' /\ FenceHolderReadsAreCurrent'
  BY DEF TokensOK, AuthorizesPending, Holds, FenceHolderReadsAreCurrent, OwnWrites, Unread,
         ControlOK
<1> QED
  BY <1>1, <1>2, <1>3

LEMMA CrashStep ==
    ASSUME CoordinatorInv, NEW p \in Process, Crash(p), UNCHANGED columns
    PROVE  CoordinatorInv'
<1> USE Tables DEF CoordinatorInv, SessionInv, Crash, Drop, Return
<1>1. TypeOK' /\ DataInv'
  BY DataUnchanged DEF TypeOK, columns
<1>2. ControlOK'
  BY DEF ControlOK, Unread, ArgumentOf, CheckedBy, CallName, AttemptCall, JobCall
<1>3. TokensOK' /\ AuthorizesPending' /\ FenceHolderReadsAreCurrent'
  BY DEF TokensOK, AuthorizesPending, Holds, FenceHolderReadsAreCurrent, OwnWrites, Unread,
         ControlOK, TypeOK
<1> QED
  BY <1>1, <1>2, <1>3

LEMMA AcquireStep ==
    ASSUME CoordinatorInv, NEW p \in Process, AcquireCoordinator(p), UNCHANGED columns
    PROVE  CoordinatorInv'
<1> USE DEF CoordinatorInv, SessionInv, AcquireCoordinator, Grant, storeVars
<1>1. TypeOK' /\ DataInv' /\ ControlOK'
  BY DataUnchanged DEF TypeOK, columns, ControlOK
<1>2. TokensOK'
  BY DEF TokensOK, TypeOK
<1>3. AuthorizesPending'
  BY DEF AuthorizesPending, TokensOK, Holds, TypeOK
<1>4. FenceHolderReadsAreCurrent'
  BY DEF FenceHolderReadsAreCurrent, TokensOK, TypeOK, ControlOK, CheckedBy, BlindCall
<1> QED
  BY <1>1, <1>2, <1>3, <1>4

-----------------------------------------------------------------------------
(* A write leaves every other incarnation without the fence, so only what  *)
(* the writer itself still carries has to be looked at.                    *)
LEMMA WriterIsTheHolder ==
    ASSUME CoordinatorInv, NEW p \in Process, FencedWrite(p)
    PROVE  /\ Holds(p)
           /\ \A q \in Process \ {p} : ~ Holds(q)
           /\ generation' = generation /\ token' = token /\ lastWriter' \in Nat
  BY DEF CoordinatorInv, SessionInv, TokensOK, Holds, FencedWrite, TypeOK

LEMMA WriteThenReturn ==
    ASSUME CoordinatorInv, NEW p \in Process, FencedWrite(p), Return(p)
    PROVE  SessionInv'
<1> USE WriterIsTheHolder, Tables DEF CoordinatorInv, SessionInv, Return, Holds
<1>1. ControlOK'
  BY DEF ControlOK, Unread, ArgumentOf, CheckedBy, CallName, AttemptCall, JobCall
<1>2. TokensOK'
  BY DEF TokensOK, ControlOK
<1>3. AuthorizesPending'
  BY DEF AuthorizesPending, ControlOK
<1>4. FenceHolderReadsAreCurrent'
  BY DEF FenceHolderReadsAreCurrent, OwnWrites, Unread, ControlOK
<1> QED
  BY <1>1, <1>2, <1>3, <1>4

LEMMA WriteThenSettle ==
    ASSUME CoordinatorInv, NEW p \in Process, FencedWrite(p), NEW j \in Job, CallSettle(p, j)
    PROVE  SessionInv'
<1> USE WriterIsTheHolder, Tables DEF CoordinatorInv, SessionInv, CallSettle, Holds
<1>1. ControlOK'
  BY DEF ControlOK, Unread, ArgumentOf, CheckedBy, CallName, AttemptCall, JobCall
<1>2. TokensOK'
  BY DEF TokensOK, ControlOK
<1>3. AuthorizesPending'
  BY DEF AuthorizesPending, ControlOK
<1>4. FenceHolderReadsAreCurrent'
  BY DEF FenceHolderReadsAreCurrent, OwnWrites, Unread, ControlOK
<1> QED
  BY <1>1, <1>2, <1>3, <1>4

(* The rows a call has written itself are the ones it never looks at again.*)
LEMMA WriteThenContinue ==
    ASSUME CoordinatorInv, NEW p \in Process, NEW name, FencedWrite(p), Continue(p, name),
           name \notin {"idle", "authorize"},
           ArgumentOf(name, arg[p]), CheckedBy(name, arg[p], seen[p]),
           \A r \in Row : \/ r \in OwnWrites(p)'
                          \/ r \notin OwnWrites(p) /\ (db'[r] = db[r] \/ seen[p][r] = "UNREAD")
    PROVE  SessionInv'
<1> USE WriterIsTheHolder, Tables DEF CoordinatorInv, SessionInv, Continue, Holds
<1>1. ControlOK'
  BY DEF ControlOK, ArgumentOf
<1>2. TokensOK'
  BY DEF TokensOK, ControlOK
<1>3. AuthorizesPending'
  BY DEF AuthorizesPending, ControlOK
<1>4. FenceHolderReadsAreCurrent'
  <2>1. ASSUME NEW q \in Process, Holds(q)', NEW r \in Row \ OwnWrites(q)'
        PROVE  seen'[q][r] \in {db'[r], "UNREAD"}
    BY <2>1 DEF FenceHolderReadsAreCurrent
  <2> QED
    BY <2>1 DEF FenceHolderReadsAreCurrent
<1> QED
  BY <1>1, <1>2, <1>3, <1>4
-----------------------------------------------------------------------------
(* Effects of transactions.                                               *)
LEMMA ArgumentsOK ==
    ASSUME CoordinatorInv, NEW p \in Process
    PROVE  ArgumentOf(call[p], arg[p]) /\ CheckedBy(call[p], arg[p], seen[p])
  BY DEF CoordinatorInv, SessionInv, ControlOK

LEMMA TransitionEffect ==
    ASSUME NEW p, NEW row, NEW from, NEW to, Transition(p, row, from, to)
    PROVE  /\ FencedWrite(p)
           /\ db[row] = from
           /\ db' = [r \in Row |-> IF r = row THEN to ELSE db[r]]
  BY DEF Transition, TransitionBatch

(* Every row keeps to the states of its table.                             *)
InTable(rows) ==
    /\ rows \in [Row -> State]
    /\ \A w \in Workstream : rows[w] \in {"ABSENT"} \cup WorkstreamState
    /\ \A r \in Run : rows[r] \in {"ABSENT"} \cup RunState
    /\ \A j \in Job : rows[j] \in {"ABSENT"} \cup ProjectJobState
    /\ \A a \in Attempt : rows[a] \in {"ABSENT"} \cup AttemptState

LEMMA TypeAfterWrite ==
    ASSUME CoordinatorInv, NEW p \in Process, FencedWrite(p), InTable(db'), UNCHANGED columns
    PROVE  TypeOK'
  BY WriterIsTheHolder DEF CoordinatorInv, TypeOK, InTable, columns

LEMMA UncertaintyKept ==
    ASSUME OneUncertainAttemptPerWaitingRun,
           \A a \in Attempt : db'[a] \in Uncertain <=> db[a] \in Uncertain,
           \A r \in Run : db'[r] = "WAITING_RECONCILIATION" <=> db[r] = "WAITING_RECONCILIATION"
    PROVE  OneUncertainAttemptPerWaitingRun'
<1> USE StoreAssumption DEF OneUncertainAttemptPerWaitingRun, RunOfAttempt
<1>1. \A a \in Attempt : RunOf[JobOf[a]] \in Run
  OBVIOUS
<1> QED
  BY <1>1

Results == OneResultPerJob /\ Undecided /\ AcceptedByAnother /\ AcceptedOnEvidence

Unfinished == {"ABSENT", "PENDING", "RUNNING", "UNKNOWN"}

(* Nothing that was decided or may be decided on is touched.               *)
ColumnsKept ==
    /\ UNCHANGED <<decisions, outcome, decider>>
    /\ \A a \in Attempt : db[a] = "FINISHED" => dispatcher'[a] = dispatcher[a]
    /\ evidenced \subseteq evidenced'

LEMMA ResultsKept ==
    ASSUME Results, ColumnsKept,
           \A a \in Attempt : db'[a] = "FINISHED" <=> db[a] = "FINISHED",
           \A j \in Job : \/ db'[j] = db[j]
                          \/ db[j] \in Unfinished /\ db'[j] \in Unfinished
                          \/ db'[j] = "CANCELLED"
    PROVE  Results'
<1> USE DEF Results, ColumnsKept
<1>1. \A j \in Job : FinishedAttempts(db', j) = FinishedAttempts(db, j)
  BY DEF FinishedAttempts, Attempts
<1>2. OneResultPerJob'
  BY <1>1 DEF OneResultPerJob, Unfinished
<1>3. Undecided'
  BY DEF Undecided, Unfinished
<1>4. AcceptedByAnother'
  BY <1>1 DEF AcceptedByAnother, Unfinished, FinishedAttempts, Attempts
<1>5. AcceptedOnEvidence'
  BY <1>1 DEF AcceptedOnEvidence, Unfinished
<1> QED
  BY <1>2, <1>3, <1>4, <1>5

(* The one result of a ProjectJob arrives.                                 *)
LEMMA ResultArrives ==
    ASSUME Results, UNCHANGED columns, NEW x \in Attempt,
           \A a \in Attempt : db'[a] = "FINISHED" <=> (db[a] = "FINISHED" \/ a = x),
           JobOf[x] \in Job, db[JobOf[x]] \in Unfinished, db'[JobOf[x]] = "FINISHED",
           \A j \in Job : j # JobOf[x] => db'[j] = db[j]
    PROVE  Results'
<1> USE DEF Results, columns
<1>1. \A j \in Job : j # JobOf[x] => FinishedAttempts(db', j) = FinishedAttempts(db, j)
  BY DEF FinishedAttempts, Attempts
<1>2. FinishedAttempts(db', JobOf[x]) = {x}
  BY DEF FinishedAttempts, Attempts, OneResultPerJob, Unfinished
<1>3. OneResultPerJob'
  BY <1>1, <1>2 DEF OneResultPerJob
<1>4. Undecided'
  BY DEF Undecided, Unfinished
<1>5. AcceptedByAnother'
  BY <1>1 DEF AcceptedByAnother, Unfinished
<1>6. AcceptedOnEvidence'
  BY <1>1 DEF AcceptedOnEvidence, Unfinished
<1> QED
  BY <1>3, <1>4, <1>5, <1>6

-----------------------------------------------------------------------------
(* Creation, dispatch and reconciliation of a single row.                  *)
LEMMA CreateWorkstreamStep ==
    ASSUME CoordinatorInv, NEW p \in Process, CreateWorkstream(p)
    PROVE  CoordinatorInv'
<1> DEFINE x == arg[p]
<1>1. arg[p] \in Workstream
  BY ArgumentsOK DEF CreateWorkstream, ArgumentOf, AttemptCall, JobCall
<1>2. /\ FencedWrite(p) /\ UNCHANGED columns
      /\ x \in Workstream /\ db[x] = "ABSENT"
      /\ db' = [r \in Row |-> IF r = x THEN "READY" ELSE db[r]]
  BY <1>1, Tables, TransitionEffect DEF CreateWorkstream, Insert
<1> HIDE DEF x
<1>3. TypeOK'
  <2>1. InTable(db')
    BY <1>2, Tables DEF CoordinatorInv, TypeOK, InTable, State, WorkstreamState, RunState,
                        ProjectJobState, AttemptState
  <2> QED
    BY <1>2, <2>1, TypeAfterWrite
<1>4. DataInv'
  BY <1>2, Tables, UncertaintyKept, ResultsKept
     DEF CoordinatorInv, DataInv, Results, ColumnsKept, Unfinished, Uncertain, columns
<1>5. SessionInv'
  BY <1>2, WriteThenReturn DEF CreateWorkstream
<1> QED
  BY <1>3, <1>4, <1>5 DEF CoordinatorInv

LEMMA CreateRunStep ==
    ASSUME CoordinatorInv, NEW p \in Process, CreateRun(p)
    PROVE  CoordinatorInv'
<1> DEFINE x == arg[p]
<1>1. arg[p] \in Run
  BY ArgumentsOK DEF CreateRun, ArgumentOf, AttemptCall, JobCall
<1>2. /\ FencedWrite(p) /\ UNCHANGED columns
      /\ x \in Run /\ db[x] = "ABSENT"
      /\ db' = [r \in Row |-> IF r = x THEN "PENDING" ELSE db[r]]
  BY <1>1, Tables, TransitionEffect DEF CreateRun, Insert
<1> HIDE DEF x
<1>3. TypeOK'
  <2>1. InTable(db')
    BY <1>2, Tables DEF CoordinatorInv, TypeOK, InTable, State, WorkstreamState, RunState,
                        ProjectJobState, AttemptState
  <2> QED
    BY <1>2, <2>1, TypeAfterWrite
<1>4. DataInv'
  BY <1>2, Tables, UncertaintyKept, ResultsKept
     DEF CoordinatorInv, DataInv, Results, ColumnsKept, Unfinished, Uncertain, columns
<1>5. SessionInv'
  BY <1>2, WriteThenReturn DEF CreateRun
<1> QED
  BY <1>3, <1>4, <1>5 DEF CoordinatorInv

LEMMA CreateProjectJobStep ==
    ASSUME CoordinatorInv, NEW p \in Process, CreateProjectJob(p)
    PROVE  CoordinatorInv'
<1> DEFINE x == arg[p]
<1>1. arg[p] \in Job
  BY ArgumentsOK DEF CreateProjectJob, ArgumentOf, AttemptCall, JobCall
<1>2. /\ FencedWrite(p) /\ UNCHANGED columns
      /\ x \in Job /\ db[x] = "ABSENT"
      /\ db' = [r \in Row |-> IF r = x THEN "PENDING" ELSE db[r]]
  BY <1>1, Tables, TransitionEffect DEF CreateProjectJob, Insert
<1> HIDE DEF x
<1>3. TypeOK'
  <2>1. InTable(db')
    BY <1>2, Tables DEF CoordinatorInv, TypeOK, InTable, State, WorkstreamState, RunState,
                        ProjectJobState, AttemptState
  <2> QED
    BY <1>2, <2>1, TypeAfterWrite
<1>4. DataInv'
  BY <1>2, Tables, UncertaintyKept, ResultsKept
     DEF CoordinatorInv, DataInv, Results, ColumnsKept, Unfinished, Uncertain, columns
<1>5. SessionInv'
  BY <1>2, WriteThenReturn DEF CreateProjectJob
<1> QED
  BY <1>3, <1>4, <1>5 DEF CoordinatorInv

LEMMA StartAttemptStep ==
    ASSUME CoordinatorInv, NEW p \in Process, StartAttempt(p)
    PROVE  CoordinatorInv'
<1> DEFINE x == arg[p]
<1>1. arg[p] \in Attempt
  BY ArgumentsOK DEF StartAttempt, ArgumentOf, AttemptCall, JobCall
<1>2. /\ FencedWrite(p) /\ UNCHANGED columns
      /\ x \in Attempt /\ db[x] = "PENDING"
      /\ db' = [r \in Row |-> IF r = x THEN "RUNNING" ELSE db[r]]
  BY <1>1, Tables, TransitionEffect DEF StartAttempt
<1> HIDE DEF x
<1>3. TypeOK'
  <2>1. InTable(db')
    BY <1>2, Tables DEF CoordinatorInv, TypeOK, InTable, State, WorkstreamState, RunState,
                        ProjectJobState, AttemptState
  <2> QED
    BY <1>2, <2>1, TypeAfterWrite
<1>4. DataInv'
  BY <1>2, Tables, UncertaintyKept, ResultsKept
     DEF CoordinatorInv, DataInv, Results, ColumnsKept, Unfinished, Uncertain, columns
<1>5. SessionInv'
  BY <1>2, WriteThenReturn DEF StartAttempt
<1> QED
  BY <1>3, <1>4, <1>5 DEF CoordinatorInv

LEMMA BeginReconciliationStep ==
    ASSUME CoordinatorInv, NEW p \in Process, BeginReconciliation(p)
    PROVE  CoordinatorInv'
<1> DEFINE x == arg[p]
<1>1. arg[p] \in Attempt
  BY ArgumentsOK DEF BeginReconciliation, ArgumentOf, AttemptCall, JobCall
<1>2. /\ FencedWrite(p) /\ UNCHANGED columns
      /\ x \in Attempt /\ db[x] = "UNKNOWN"
      /\ db' = [r \in Row |-> IF r = x THEN "NEEDS_RECONCILIATION" ELSE db[r]]
  BY <1>1, Tables, TransitionEffect DEF BeginReconciliation
<1> HIDE DEF x
<1>3. TypeOK'
  <2>1. InTable(db')
    BY <1>2, Tables DEF CoordinatorInv, TypeOK, InTable, State, WorkstreamState, RunState,
                        ProjectJobState, AttemptState
  <2> QED
    BY <1>2, <2>1, TypeAfterWrite
<1>4. DataInv'
  BY <1>2, Tables, UncertaintyKept, ResultsKept
     DEF CoordinatorInv, DataInv, Results, ColumnsKept, Unfinished, Uncertain, columns
<1>5. SessionInv'
  BY <1>2, WriteThenReturn DEF BeginReconciliation
<1> QED
  BY <1>3, <1>4, <1>5 DEF CoordinatorInv

LEMMA StartWorkstreamStep ==
    ASSUME CoordinatorInv, NEW p \in Process, StartWorkstream(p)
    PROVE  CoordinatorInv'
<1> DEFINE x == WorkstreamOfAttempt(arg[p])
<1>1. arg[p] \in Attempt
  BY ArgumentsOK DEF StartWorkstream, ArgumentOf, AttemptCall, JobCall
<1>2. /\ FencedWrite(p) /\ UNCHANGED columns
      /\ x \in Workstream /\ db[x] = "READY"
      /\ db' = [r \in Row |-> IF r = x THEN "ACTIVE" ELSE db[r]]
  BY <1>1, Tables, TransitionEffect DEF StartWorkstream, RunOfAttempt, WorkstreamOfAttempt
<1> HIDE DEF x
<1>3. TypeOK'
  <2>1. InTable(db')
    BY <1>2, Tables DEF CoordinatorInv, TypeOK, InTable, State, WorkstreamState, RunState,
                        ProjectJobState, AttemptState
  <2> QED
    BY <1>2, <2>1, TypeAfterWrite
<1>4. DataInv'
  BY <1>2, Tables, UncertaintyKept, ResultsKept
     DEF CoordinatorInv, DataInv, Results, ColumnsKept, Unfinished, Uncertain, columns
<1>5. SessionInv'
  <2>1. Continue(p, StepAfterWorkstream(seen[p], arg[p]))
    BY DEF StartWorkstream
  <2>2. StepAfterWorkstream(seen[p], arg[p]) \in {"start_run", "start_job", "start_attempt"} \ {call[p]}
    BY DEF StartWorkstream, StepAfterWorkstream, StepAfterRun
  <2>3. ArgumentOf(StepAfterWorkstream(seen[p], arg[p]), arg[p]) /\ CheckedBy(StepAfterWorkstream(seen[p], arg[p]), arg[p], seen[p])
    BY <1>1, <2>2, Tables DEF ArgumentOf, CheckedBy, CallName, AttemptCall, JobCall, BlindCall
  <2>4. \A r \in Row : \/ r \in OwnWrites(p)'
                       \/ r \notin OwnWrites(p) /\ db'[r] = db[r]
    BY <1>2, <2>1, <2>2, Tables
       DEF Continue, OwnWrites, StartWorkstream, CoordinatorInv, TypeOK, SessionInv, ControlOK, StepAfterWorkstream, StepAfterRun
  <2> QED
    BY <1>2, <2>1, <2>2, <2>3, <2>4, WriteThenContinue
<1> QED
  BY <1>3, <1>4, <1>5 DEF CoordinatorInv

LEMMA StartRunStep ==
    ASSUME CoordinatorInv, NEW p \in Process, StartRun(p)
    PROVE  CoordinatorInv'
<1> DEFINE x == RunOfAttempt(arg[p])
<1>1. arg[p] \in Attempt
  BY ArgumentsOK DEF StartRun, ArgumentOf, AttemptCall, JobCall
<1>2. /\ FencedWrite(p) /\ UNCHANGED columns
      /\ x \in Run /\ db[x] = "PENDING"
      /\ db' = [r \in Row |-> IF r = x THEN "RUNNING" ELSE db[r]]
  BY <1>1, Tables, TransitionEffect DEF StartRun, RunOfAttempt, WorkstreamOfAttempt
<1> HIDE DEF x
<1>3. TypeOK'
  <2>1. InTable(db')
    BY <1>2, Tables DEF CoordinatorInv, TypeOK, InTable, State, WorkstreamState, RunState,
                        ProjectJobState, AttemptState
  <2> QED
    BY <1>2, <2>1, TypeAfterWrite
<1>4. DataInv'
  BY <1>2, Tables, UncertaintyKept, ResultsKept
     DEF CoordinatorInv, DataInv, Results, ColumnsKept, Unfinished, Uncertain, columns
<1>5. SessionInv'
  <2>1. Continue(p, StepAfterRun(seen[p], arg[p]))
    BY DEF StartRun
  <2>2. StepAfterRun(seen[p], arg[p]) \in {"start_run", "start_job", "start_attempt"} \ {call[p]}
    BY DEF StartRun, StepAfterRun
  <2>3. ArgumentOf(StepAfterRun(seen[p], arg[p]), arg[p]) /\ CheckedBy(StepAfterRun(seen[p], arg[p]), arg[p], seen[p])
    BY <1>1, <2>2, Tables DEF ArgumentOf, CheckedBy, CallName, AttemptCall, JobCall, BlindCall
  <2>4. \A r \in Row : \/ r \in OwnWrites(p)'
                       \/ r \notin OwnWrites(p) /\ db'[r] = db[r]
    BY <1>2, <2>1, <2>2, Tables
       DEF Continue, OwnWrites, StartRun, CoordinatorInv, TypeOK, SessionInv, ControlOK, StepAfterRun
  <2> QED
    BY <1>2, <2>1, <2>2, <2>3, <2>4, WriteThenContinue
<1> QED
  BY <1>3, <1>4, <1>5 DEF CoordinatorInv

LEMMA StartJobStep ==
    ASSUME CoordinatorInv, NEW p \in Process, StartJob(p)
    PROVE  CoordinatorInv'
<1> DEFINE x == JobOf[arg[p]]
<1>1. arg[p] \in Attempt
  BY ArgumentsOK DEF StartJob, ArgumentOf, AttemptCall, JobCall
<1>2. /\ FencedWrite(p) /\ UNCHANGED columns
      /\ x \in Job /\ db[x] = "PENDING"
      /\ db' = [r \in Row |-> IF r = x THEN "RUNNING" ELSE db[r]]
  BY <1>1, Tables, TransitionEffect DEF StartJob
<1> HIDE DEF x
<1>3. TypeOK'
  <2>1. InTable(db')
    BY <1>2, Tables DEF CoordinatorInv, TypeOK, InTable, State, WorkstreamState, RunState,
                        ProjectJobState, AttemptState
  <2> QED
    BY <1>2, <2>1, TypeAfterWrite
<1>4. DataInv'
  BY <1>2, Tables, UncertaintyKept, ResultsKept
     DEF CoordinatorInv, DataInv, Results, ColumnsKept, Unfinished, Uncertain, columns
<1>5. SessionInv'
  <2>1. Continue(p, "start_attempt")
    BY DEF StartJob
  <2>2. "start_attempt" \in {"start_run", "start_job", "start_attempt"} \ {call[p]}
    BY DEF StartJob
  <2>3. ArgumentOf("start_attempt", arg[p]) /\ CheckedBy("start_attempt", arg[p], seen[p])
    BY <1>1, <2>2, Tables DEF ArgumentOf, CheckedBy, CallName, AttemptCall, JobCall, BlindCall
  <2>4. \A r \in Row : \/ r \in OwnWrites(p)'
                       \/ r \notin OwnWrites(p) /\ db'[r] = db[r]
    BY <1>2, <2>1, <2>2, Tables
       DEF Continue, OwnWrites, StartJob, CoordinatorInv, TypeOK, SessionInv, ControlOK
  <2> QED
    BY <1>2, <2>1, <2>2, <2>3, <2>4, WriteThenContinue
<1> QED
  BY <1>3, <1>4, <1>5 DEF CoordinatorInv
-----------------------------------------------------------------------------
(* Steps that write more than one state column.                           *)
LEMMA CreateAttemptStep ==
    ASSUME CoordinatorInv, NEW p \in Process, CreateAttempt(p)
    PROVE  CoordinatorInv'
<1> DEFINE x == arg[p]
           n == NextOrdinal(p, JobOf[x])
<1>1. x \in Attempt
  BY ArgumentsOK DEF CreateAttempt, ArgumentOf, AttemptCall
<1>2. /\ FencedWrite(p) /\ UNCHANGED <<dispatcher, evidenced, decisions, outcome, decider>>
      /\ db[x] = "ABSENT"
      /\ db' = [r \in Row |-> IF r = x THEN "PENDING" ELSE db[r]]
      /\ ordinal' = [ordinal EXCEPT ![x] = n] /\ n <= MaxAttempts
      /\ Return(p)
  BY TransitionEffect DEF CreateAttempt, Insert
<1>3. n \in 0..MaxAttempts
  <2>1. SeenAttempts(p, JobOf[x]) \subseteq Attempt
    BY DEF SeenAttempts, Attempts
  <2>2. IsFiniteSet(SeenAttempts(p, JobOf[x]))
    BY <2>1, CoordinatorAssumption, FS_Subset
  <2>3. Cardinality(SeenAttempts(p, JobOf[x])) \in Nat
    BY <2>2, FS_CardinalityType
  <2> QED
    BY <1>2, <2>3, CoordinatorAssumption DEF NextOrdinal
<1> HIDE DEF x, n
<1>4. TypeOK'
  BY <1>1, <1>2, <1>3, Tables, WriterIsTheHolder
     DEF CoordinatorInv, TypeOK, State, WorkstreamState, RunState, ProjectJobState, AttemptState
<1>5. DataInv'
  BY <1>1, <1>2, Tables, UncertaintyKept, ResultsKept
     DEF CoordinatorInv, DataInv, Results, ColumnsKept, Unfinished, Uncertain
<1>6. SessionInv'
  BY <1>2, WriteThenReturn
<1> QED
  BY <1>4, <1>5, <1>6 DEF CoordinatorInv

LEMMA AuthorizeAttemptDispatchStep ==
    ASSUME CoordinatorInv, NEW p \in Process, NEW actor \in Actor,
           AuthorizeAttemptDispatch(p, actor)
    PROVE  CoordinatorInv'
<1> USE DEF AuthorizeAttemptDispatch, RecordDispatchAuthorization
<1>1. arg[p] \in Attempt
  BY ArgumentsOK DEF ArgumentOf, AttemptCall
<1>2. FencedWrite(p) /\ UNCHANGED db
  BY DEF RecordEvent
<1>3. db[arg[p]] = "PENDING"
  BY <1>2, WriterIsTheHolder
     DEF CoordinatorInv, SessionInv, AuthorizesPending
<1>4. TypeOK'
  BY <1>1, <1>2, WriterIsTheHolder DEF CoordinatorInv, TypeOK
<1>5. ColumnsKept
  BY <1>1, <1>3 DEF ColumnsKept, CoordinatorInv, TypeOK
<1>6. DataInv'
  BY <1>2, <1>5, UncertaintyKept, ResultsKept DEF CoordinatorInv, DataInv, Results
<1>7. SessionInv'
  BY <1>2, WriteThenReturn
<1> QED
  BY <1>4, <1>6, <1>7 DEF CoordinatorInv

LEMMA RecordEvidenceStep ==
    ASSUME CoordinatorInv, NEW p \in Process, RecordEvidence(p)
    PROVE  CoordinatorInv'
<1>1. arg[p] \in Attempt
  BY ArgumentsOK DEF RecordEvidence, ArgumentOf, AttemptCall
<1>2. FencedWrite(p) /\ UNCHANGED db
  BY DEF RecordEvidence, RecordEvent
<1>3. TypeOK'
  BY <1>1, <1>2, WriterIsTheHolder DEF CoordinatorInv, TypeOK, RecordEvidence
<1>4. ColumnsKept
  BY DEF ColumnsKept, RecordEvidence
<1>5. DataInv'
  BY <1>2, <1>4, UncertaintyKept, ResultsKept DEF CoordinatorInv, DataInv, Results
<1>6. SessionInv'
  BY <1>2, WriteThenReturn DEF RecordEvidence
<1> QED
  BY <1>3, <1>5, <1>6 DEF CoordinatorInv

(* The audit-only transactions before and after the result of an Attempt.  *)
LEMMA ResultEventStep ==
    ASSUME CoordinatorInv, NEW p \in Process,
           RecordProviderResult(p) \/ RecordAttemptFinished(p)
    PROVE  CoordinatorInv'
<1>1. FencedWrite(p) /\ UNCHANGED <<db, columns>> /\ arg[p] \in Attempt
  BY ArgumentsOK DEF RecordProviderResult, RecordAttemptFinished, RecordEvent, ArgumentOf,
                     AttemptCall
<1>2. TypeOK' /\ DataInv'
  BY <1>1, WriterIsTheHolder, DataUnchanged DEF CoordinatorInv, TypeOK, columns
<1>3. CASE RecordProviderResult(p)
  <2>1. ArgumentOf("finish", arg[p]) /\ CheckedBy("finish", arg[p], seen[p])
    BY <1>1, <1>3, Tables, ArgumentsOK DEF RecordProviderResult, ArgumentOf, CheckedBy, CallName,
                                           AttemptCall, JobCall, BlindCall
  <2>2. \A r \in Row : r \notin OwnWrites(p) /\ db'[r] = db[r]
    BY <1>1, <1>3 DEF RecordProviderResult, OwnWrites
  <2> QED
    BY <1>1, <1>2, <1>3, <2>1, <2>2, WriteThenContinue DEF RecordProviderResult, CoordinatorInv
<1>4. CASE RecordAttemptFinished(p)
  BY <1>1, <1>2, <1>4, WriteThenReturn DEF RecordAttemptFinished, CoordinatorInv
<1> QED
  BY <1>3, <1>4

LEMMA FinishAttemptStep ==
    ASSUME CoordinatorInv, NEW p \in Process, FinishAttempt(p)
    PROVE  CoordinatorInv'
<1> DEFINE x == arg[p]
           j == JobOf[x]
<1>1. x \in Attempt /\ j \in Job
  BY ArgumentsOK, Tables DEF FinishAttempt, ArgumentOf, AttemptCall
<1>2. /\ FencedWrite(p) /\ UNCHANGED columns
      /\ db[x] = "RUNNING" /\ db[j] = "RUNNING"
      /\ db' = [r \in Row |-> IF r \in {x, j} THEN "FINISHED" ELSE db[r]]
  BY <1>1 DEF FinishAttempt, TransitionBatch
<1> HIDE DEF x
<1>3. TypeOK'
  <2>1. InTable(db')
    BY <1>1, <1>2, Tables DEF CoordinatorInv, TypeOK, InTable, State, WorkstreamState, RunState,
                              ProjectJobState, AttemptState
  <2> QED
    BY <1>2, <2>1, TypeAfterWrite
<1>4. OneUncertainAttemptPerWaitingRun'
  BY <1>1, <1>2, Tables, UncertaintyKept DEF CoordinatorInv, DataInv, Uncertain
<1>5. Results'
  BY <1>1, <1>2, Tables, ResultArrives DEF CoordinatorInv, DataInv, Results, Unfinished
<1>6. SessionInv'
  <2>1. Continue(p, "finish_event") /\ call[p] = "finish"
    BY DEF FinishAttempt
  <2>2. ArgumentOf("finish_event", arg[p]) /\ CheckedBy("finish_event", arg[p], seen[p])
    BY <1>1, <2>1, Tables, ArgumentsOK
       DEF x, ArgumentOf, CheckedBy, CallName, AttemptCall, JobCall, BlindCall
  <2>3. \A r \in Row : r \notin OwnWrites(p) /\ seen[p][r] = "UNREAD"
    BY <2>1, <2>2 DEF OwnWrites, CheckedBy, BlindCall
  <2> QED
    BY <1>2, <2>1, <2>2, <2>3, WriteThenContinue
<1> QED
  BY <1>3, <1>4, <1>5, <1>6 DEF CoordinatorInv, DataInv, Results

LEMMA CancelAttemptStep ==
    ASSUME CoordinatorInv, NEW p \in Process, CancelAttempt(p)
    PROVE  CoordinatorInv'
<1> DEFINE x == arg[p]
           j == JobOf[x]
<1>1. x \in Attempt /\ j \in Job
  BY ArgumentsOK, Tables DEF CancelAttempt, ArgumentOf, AttemptCall
<1>2. /\ FencedWrite(p) /\ UNCHANGED columns
      /\ db[x] \in {"PENDING", "RUNNING"}
      /\ db' = [r \in Row |-> IF r \in {x, j} THEN "CANCELLED" ELSE db[r]]
  BY <1>1, ArgumentsOK DEF CancelAttempt, TransitionBatch, CheckedBy
<1>3. TypeOK'
  <2>1. InTable(db')
    BY <1>1, <1>2, Tables DEF CoordinatorInv, TypeOK, InTable, State, WorkstreamState, RunState,
                              ProjectJobState, AttemptState
  <2> QED
    BY <1>2, <2>1, TypeAfterWrite
<1>4. DataInv'
  BY <1>1, <1>2, Tables, UncertaintyKept, ResultsKept
     DEF CoordinatorInv, DataInv, Results, ColumnsKept, Uncertain, columns
<1>5. SessionInv'
  BY <1>1, <1>2, WriteThenSettle DEF CancelAttempt
<1> QED
  BY <1>3, <1>4, <1>5 DEF CoordinatorInv
-----------------------------------------------------------------------------
(* Uncertainty, reconciliation.                                           *)
LEMMA UncertaintyEnds ==
    ASSUME OneUncertainAttemptPerWaitingRun, NEW x \in Attempt, db[x] \in Uncertain,
           \A a \in Attempt : db'[a] \in Uncertain <=> (db[a] \in Uncertain /\ a # x),
           \A r \in Run : db'[r] = "WAITING_RECONCILIATION"
                            <=> (db[r] = "WAITING_RECONCILIATION" /\ r # RunOfAttempt(x))
    PROVE  OneUncertainAttemptPerWaitingRun'
<1>1. \A a \in Attempt : RunOfAttempt(a) \in Run
  BY Tables DEF RunOfAttempt
<1> QED
  BY <1>1 DEF OneUncertainAttemptPerWaitingRun

LEMMA MarkUnknownStep ==
    ASSUME CoordinatorInv, NEW p \in Process, MarkUnknown(p)
    PROVE  CoordinatorInv'
<1> DEFINE x == arg[p]
           j == JobOf[x]
           t == RunOfAttempt(x)
<1>1. x \in Attempt /\ j \in Job /\ t \in Run
  BY ArgumentsOK, Tables DEF MarkUnknown, ArgumentOf, AttemptCall, RunOfAttempt
<1>2. /\ FencedWrite(p) /\ UNCHANGED columns
      /\ db[x] = "RUNNING" /\ db[j] = "RUNNING" /\ db[t] = "RUNNING"
      /\ db' = [r \in Row |-> IF r = t THEN "WAITING_RECONCILIATION"
                              ELSE IF r \in {x, j} THEN "UNKNOWN" ELSE db[r]]
  BY <1>1, Tables DEF MarkUnknown, TransitionBatch
<1>3. TypeOK'
  <2>1. InTable(db')
    BY <1>1, <1>2, Tables DEF CoordinatorInv, TypeOK, InTable, State, WorkstreamState, RunState,
                              ProjectJobState, AttemptState
  <2> QED
    BY <1>2, <2>1, TypeAfterWrite
<1>4. OneUncertainAttemptPerWaitingRun'
  <2>1. \A a \in Attempt : RunOfAttempt(a) \in Run /\ (db[a] \in Uncertain => RunOfAttempt(a) # t)
    BY <1>2, Tables DEF CoordinatorInv, DataInv, OneUncertainAttemptPerWaitingRun, RunOfAttempt
  <2>2. \A a \in Attempt : db'[a] \in Uncertain <=> (db[a] \in Uncertain \/ a = x)
    BY <1>1, <1>2, Tables DEF Uncertain
  <2>3. \A r \in Run : db'[r] = "WAITING_RECONCILIATION"
                          <=> (db[r] = "WAITING_RECONCILIATION" \/ r = t)
    BY <1>1, <1>2, Tables
  <2> QED
    BY <1>1, <2>1, <2>2, <2>3 DEF CoordinatorInv, DataInv, OneUncertainAttemptPerWaitingRun
<1>5. Results'
  BY <1>1, <1>2, Tables, ResultsKept
     DEF CoordinatorInv, DataInv, Results, ColumnsKept, Unfinished, columns
<1>6. SessionInv'
  BY <1>2, WriteThenReturn DEF MarkUnknown
<1> QED
  BY <1>3, <1>4, <1>5, <1>6 DEF CoordinatorInv, DataInv, Results

LEMMA ReconcileFinishedStep ==
    ASSUME CoordinatorInv, NEW p \in Process, ReconcileFinished(p)
    PROVE  CoordinatorInv'
<1> DEFINE x == arg[p]
           j == JobOf[x]
           t == RunOfAttempt(x)
<1>1. x \in Attempt /\ j \in Job /\ t \in Run
  BY ArgumentsOK, Tables DEF ReconcileFinished, ArgumentOf, AttemptCall, RunOfAttempt
<1>2. /\ FencedWrite(p) /\ UNCHANGED columns
      /\ db[x] = "NEEDS_RECONCILIATION" /\ db[j] = "UNKNOWN"
      /\ db[t] = "WAITING_RECONCILIATION"
      /\ db' = [r \in Row |-> IF r = x THEN "FINISHED" ELSE IF r = j THEN "FINISHED"
                              ELSE IF r = t THEN "RUNNING" ELSE db[r]]
  <2>1. x \notin Job /\ x \notin Run /\ j \notin Run /\ j \notin Attempt /\ t \notin Attempt
    BY <1>1, Tables
  <2> QED
    BY <1>1, <2>1 DEF ReconcileFinished, TransitionBatch, ReconciledFrom
<1>3. TypeOK'
  <2>1. InTable(db')
    BY <1>1, <1>2, Tables DEF CoordinatorInv, TypeOK, InTable, State, WorkstreamState, RunState,
                              ProjectJobState, AttemptState
  <2> QED
    BY <1>2, <2>1, TypeAfterWrite
<1>4. OneUncertainAttemptPerWaitingRun'
  BY <1>1, <1>2, UncertaintyEnds, Tables DEF CoordinatorInv, DataInv, Uncertain
<1>5. Results'
  BY <1>1, <1>2, Tables, ResultArrives DEF CoordinatorInv, DataInv, Results, Unfinished
<1>6. SessionInv'
  BY <1>2, WriteThenReturn DEF ReconcileFinished
<1> QED
  BY <1>3, <1>4, <1>5, <1>6 DEF CoordinatorInv, DataInv, Results

LEMMA ReconcileRetryableStep ==
    ASSUME CoordinatorInv, NEW p \in Process, ReconcileRetryable(p)
    PROVE  CoordinatorInv'
<1> DEFINE x == arg[p]
           j == JobOf[x]
           t == RunOfAttempt(x)
<1>1. x \in Attempt /\ j \in Job /\ t \in Run
  BY ArgumentsOK, Tables DEF ReconcileRetryable, ArgumentOf, AttemptCall, RunOfAttempt
<1>2. /\ FencedWrite(p) /\ UNCHANGED columns
      /\ db[x] = "NEEDS_RECONCILIATION" /\ db[j] = "UNKNOWN"
      /\ db[t] = "WAITING_RECONCILIATION"
      /\ db' = [r \in Row |-> IF r = x THEN "RECONCILED_RETRYABLE" ELSE IF r = j THEN "RUNNING"
                              ELSE IF r = t THEN "RUNNING" ELSE db[r]]
  <2>1. x \notin Job /\ x \notin Run /\ j \notin Run /\ j \notin Attempt /\ t \notin Attempt
    BY <1>1, Tables
  <2> QED
    BY <1>1, <2>1 DEF ReconcileRetryable, TransitionBatch, ReconciledFrom
<1>3. TypeOK'
  <2>1. InTable(db')
    BY <1>1, <1>2, Tables DEF CoordinatorInv, TypeOK, InTable, State, WorkstreamState, RunState,
                              ProjectJobState, AttemptState
  <2> QED
    BY <1>2, <2>1, TypeAfterWrite
<1>4. OneUncertainAttemptPerWaitingRun'
  BY <1>1, <1>2, UncertaintyEnds, Tables DEF CoordinatorInv, DataInv, Uncertain
<1>5. Results'
  BY <1>1, <1>2, Tables, ResultsKept
     DEF CoordinatorInv, DataInv, Results, ColumnsKept, Unfinished, columns
<1>6. SessionInv'
  BY <1>2, WriteThenReturn DEF ReconcileRetryable
<1> QED
  BY <1>3, <1>4, <1>5, <1>6 DEF CoordinatorInv, DataInv, Results

-----------------------------------------------------------------------------
(* Acceptance.                                                             *)

(* What the holder of the fence decides on is the one result there is.     *)
LEMMA LatestIsTheResult ==
    ASSUME CoordinatorInv, NEW p \in Process, Holds(p), call[p] = "decide",
           db[arg[p]] = "FINISHED"
    PROVE  FinishedAttempts(db, arg[p]) = {Latest(seen[p], arg[p])}
<1> DEFINE j == arg[p]
<1>1. j \in Job
  BY ArgumentsOK DEF ArgumentOf, JobCall
<1>2. \A a \in Attempts(j) : a \in Row \ OwnWrites(p) /\ seen[p][a] # "UNREAD"
  BY ArgumentsOK, Tables DEF CheckedBy, OwnWrites, Attempts
<1>3. FinishedAttempts(seen[p], j) = FinishedAttempts(db, j)
  BY <1>2 DEF FinishedAttempts, CoordinatorInv, SessionInv, FenceHolderReadsAreCurrent, Holds
<1>4. PICK a \in Attempt : FinishedAttempts(db, j) = {a}
  BY <1>1 DEF CoordinatorInv, DataInv, OneResultPerJob, FinishedAttempts, Attempts
<1>5. \A b \in FinishedAttempts(db, j) : ordinal[b] <= ordinal[a]
  BY <1>4, CoordinatorAssumption DEF CoordinatorInv, TypeOK
<1>6. Latest(seen[p], j) = a
  BY <1>3, <1>4, <1>5 DEF Latest
<1> QED
  BY <1>4, <1>6

LEMMA DecideStep ==
    ASSUME CoordinatorInv, NEW p \in Process, NEW actor \in Actor, NEW result \in Outcome,
           Decide(p, actor, result)
    PROVE  CoordinatorInv'
<1> DEFINE j == arg[p]
<1>1. j \in Job /\ call[p] = "decide"
  BY ArgumentsOK DEF Decide, ArgumentOf, JobCall
<1>2. /\ FencedWrite(p) /\ Holds(p)
      /\ db[j] = "FINISHED"
      /\ db' = [r \in Row |-> IF r = j THEN TargetOf(result) ELSE db[r]]
      /\ UNCHANGED <<ordinal, dispatcher, evidenced>>
  BY WriterIsTheHolder, TransitionEffect DEF Decide
<1>3. TargetOf(result) \in {"ACCEPTED", "REJECTED", "REWORK", "REQUIRE_APPROVAL"}
      /\ (TargetOf(result) = "ACCEPTED" => result = "ACCEPT")
  BY DEF TargetOf, Outcome
<1>4. TypeOK'
  BY <1>1, <1>2, <1>3, Tables, WriterIsTheHolder
     DEF Decide, CoordinatorInv, TypeOK, State, WorkstreamState, RunState, ProjectJobState,
         AttemptState
<1>5. OneUncertainAttemptPerWaitingRun'
  BY <1>1, <1>2, Tables, UncertaintyKept DEF CoordinatorInv, DataInv
<1>6. Results'
  <2>1. \A i \in Job : FinishedAttempts(db', i) = FinishedAttempts(db, i)
    BY <1>1, <1>2, Tables DEF FinishedAttempts, Attempts
  <2>2. OneResultPerJob'
    BY <1>1, <1>2, <1>3, <2>1, Tables DEF CoordinatorInv, DataInv, OneResultPerJob
  <2>3. Undecided' /\ decisions[j] = 0
    BY <1>1, <1>2, <1>3, Tables DEF CoordinatorInv, DataInv, Undecided, Decide, TypeOK
  <2>4. FinishedAttempts(db, j) = {Latest(seen[p], j)}
    BY <1>1, <1>2, LatestIsTheResult
  <2>5. AcceptedByAnother'
    BY <1>1, <1>2, <1>3, <2>1, <2>3, <2>4, Tables
       DEF CoordinatorInv, DataInv, AcceptedByAnother, Decide, MayDecide, TypeOK
  <2>6. AcceptedOnEvidence'
    BY <1>1, <1>2, <1>3, <2>1, <2>4, Tables
       DEF CoordinatorInv, DataInv, AcceptedOnEvidence, Decide, EvidenceSuffices, TypeOK
  <2> QED
    BY <2>2, <2>3, <2>5, <2>6 DEF Results
<1>7. SessionInv'
  BY <1>1, <1>2, WriteThenReturn, WriteThenSettle DEF Decide
<1> QED
  BY <1>4, <1>5, <1>6, <1>7 DEF CoordinatorInv, DataInv, Results

LEMMA SettleReadStep ==
    ASSUME CoordinatorInv, NEW p \in Process, SettleRead(p)
    PROVE  CoordinatorInv'
<1> DEFINE t == RunOf[arg[p]]
           rows == {t, WorkstreamOf[t]} \cup Jobs(t)
<1> USE Tables DEF CoordinatorInv, SessionInv
<1>1. /\ arg[p] \in Job /\ call[p] = "settle_read"
      /\ UNCHANGED <<fencingVars, db, columns>>
  BY ArgumentsOK DEF SettleRead, ArgumentOf, JobCall
<1>2. TypeOK' /\ DataInv'
  BY <1>1, DataUnchanged DEF TypeOK, columns, fencingVars
<1>3. CASE Return(p)
  <2>1. ControlOK'
    BY <1>3 DEF ControlOK, Return, Unread, ArgumentOf, CheckedBy, CallName, AttemptCall, JobCall
  <2>2. TokensOK' /\ AuthorizesPending' /\ FenceHolderReadsAreCurrent'
    BY <1>1, <1>3 DEF TokensOK, AuthorizesPending, Holds, FenceHolderReadsAreCurrent, OwnWrites,
                      Return, Unread, ControlOK, fencingVars
  <2> QED
    BY <1>2, <2>1, <2>2
<1>4. CASE /\ Settled(db, t)
           /\ call' = [call EXCEPT ![p] = "settle"]
           /\ seen' = [seen EXCEPT ![p] = Reading(rows)]
           /\ UNCHANGED arg
  <2>1. Reading(rows) \in [Row -> State \cup {"UNREAD"}]
    BY DEF Reading, TypeOK
  <2>2. ArgumentOf("settle", arg[p]) /\ CheckedBy("settle", arg[p], Reading(rows))
    BY <1>1, <1>4 DEF ArgumentOf, CheckedBy, Settled, Reading, Jobs, CallName, AttemptCall, JobCall,
                 BlindCall
  <2>3. ControlOK'
    <3>1. /\ call' \in [Process -> CallName]
          /\ arg' \in [Process -> Row \cup {NoRow}]
          /\ seen' \in [Process -> [Row -> State \cup {"UNREAD"}]]
      BY <1>4, <2>1, <2>2 DEF ControlOK, ArgumentOf
    <3>2. ASSUME NEW q \in Process
          PROVE  ArgumentOf(call'[q], arg'[q]) /\ CheckedBy(call'[q], arg'[q], seen'[q])
      BY <1>4, <2>2 DEF ControlOK
    <3> QED
      BY <3>1, <3>2 DEF ControlOK
  <2>4. TokensOK'
    BY <1>1, <1>4 DEF TokensOK, ControlOK, fencingVars
  <2>5. AuthorizesPending'
    BY <1>1, <1>4 DEF AuthorizesPending, Holds, ControlOK, fencingVars
  <2>6. FenceHolderReadsAreCurrent'
    BY <1>1, <1>4 DEF FenceHolderReadsAreCurrent, OwnWrites, Reading, ControlOK, fencingVars
  <2> QED
    BY <1>2, <2>3, <2>4, <2>5, <2>6
<1> QED
  BY <1>3, <1>4 DEF SettleRead

(* The Run that settles, and that its ProjectJobs are done at that moment. *)
LEMMA SettleEffect ==
    ASSUME CoordinatorInv, NEW p \in Process, SettleRun(p)
    PROVE  LET t == RunOf[arg[p]] IN
           /\ t \in Run
           /\ FencedWrite(p) /\ UNCHANGED columns
           /\ db[t] = "RUNNING" /\ db'[t] = "COMPLETED"
           /\ Settled(db, t)
           /\ \A w \in Workstream : db'[w] \in {db[w], "COMPLETE"}
           /\ \A r \in Run : r # t => db'[r] = db[r]
           /\ \A j \in Job : db'[j] = db[j]
           /\ \A a \in Attempt : db'[a] = db[a]
           /\ DOMAIN db' = Row
<1> DEFINE t == RunOf[arg[p]]
           w == WorkstreamOf[t]
           rows == {t} \cup (IF seen[p][w] = "ACTIVE" THEN {w} ELSE {})
<1>1. arg[p] \in Job /\ t \in Run /\ w \in Workstream /\ Settled(seen[p], t)
  BY ArgumentsOK, Tables DEF SettleRun, ArgumentOf, CheckedBy, JobCall
<1>2. /\ FencedWrite(p) /\ UNCHANGED columns
      /\ \A x \in rows : db[x] = IF x \in Run THEN "RUNNING" ELSE "ACTIVE"
      /\ db' = [r \in Row |-> IF r \in rows THEN IF r \in Run THEN "COMPLETED" ELSE "COMPLETE"
                              ELSE db[r]]
  BY DEF SettleRun, TransitionBatch
<1>3. Settled(db, t)
  <2>1. \A j \in Jobs(t) : j \in Row \ OwnWrites(p) /\ seen[p][j] # "UNREAD"
    BY <1>1, Tables DEF OwnWrites, SettleRun, Settled, Jobs, TerminalJob
  <2> QED
    BY <1>1, <1>2, <2>1, WriterIsTheHolder
       DEF CoordinatorInv, SessionInv, FenceHolderReadsAreCurrent, Holds, Settled
<1> QED
  BY <1>1, <1>2, <1>3, Tables

LEMMA SettleRunStep ==
    ASSUME CoordinatorInv, NEW p \in Process, SettleRun(p)
    PROVE  CoordinatorInv'
<1>1. TypeOK'
  <2>1. /\ db' = [r \in Row |-> db'[r]]
        /\ \A x \in Row : db'[x] \in {db[x], "COMPLETED", "COMPLETE"}
    BY DEF SettleRun, TransitionBatch
  <2>2. db \in [Row -> State] /\ InTable(db)
    BY DEF CoordinatorInv, TypeOK, InTable
  <2>3. "COMPLETED" \in RunState /\ "COMPLETE" \in WorkstreamState
    BY DEF RunState, WorkstreamState
  <2>4. db' \in [Row -> State]
    BY <2>1, <2>2, <2>3 DEF State
  <2>5. InTable(db')
    BY <2>2, <2>3, <2>4, SettleEffect DEF InTable
  <2> QED
    BY <2>5, SettleEffect, TypeAfterWrite
<1>2. DataInv'
  BY SettleEffect, UncertaintyKept, ResultsKept
     DEF CoordinatorInv, DataInv, Results, ColumnsKept, columns
<1>3. SessionInv'
  BY SettleEffect, WriteThenReturn DEF SettleRun
<1> QED
  BY <1>1, <1>2, <1>3 DEF CoordinatorInv
-----------------------------------------------------------------------------
(* The steps together.                                                     *)

(* Every Call... action is a Begin whose arguments are in order.           *)
LEMMA CallStep ==
    ASSUME CoordinatorInv, NEW p \in Process,
           \/ \E w \in Workstream : CallCreateWorkstream(p, w)
           \/ \E r \in Run : CallCreateRun(p, r)
           \/ \E j \in Job : CallCreateProjectJob(p, j) \/ CallDecide(p, j)
           \/ \E a \in Attempt :
                 \/ CallCreateAttempt(p, a)
                 \/ \E b \in Attempt : CallRetryAttempt(p, b, a)
                 \/ CallAuthorizeAttemptDispatch(p, a)
                 \/ CallStartAttempt(p, a)
                 \/ CallFinishAttempt(p, a)
                 \/ CallRecordEvidence(p, a)
                 \/ CallCancelAttempt(p, a)
                 \/ CallMarkUnknown(p, a)
                 \/ CallBeginReconciliation(p, a)
                 \/ \E name \in {"recovered_finished", "safe_to_retry"} :
                       CallReconcileAttempt(p, a, name)
    PROVE  CoordinatorInv'
<1> USE Tables DEF ArgumentOf, CallName, AttemptCall, JobCall
<1>t. db \in [Row -> State]
  BY DEF CoordinatorInv, TypeOK
<1>b. \A name, row, rows :
        rows \subseteq Row /\ Begin(p, name, row, rows) /\ UNCHANGED columns
          /\ ArgumentOf(name, row) /\ CheckedBy(name, row, Reading(rows))
          /\ (name = "authorize" => db[row] = "PENDING")
        => CoordinatorInv'
  BY BeginStep
<1>r. \A rows : \A x \in Row : Reading(rows)[x] = IF x \in rows THEN db[x] ELSE "UNREAD"
  BY DEF Reading
<1>1. ASSUME NEW w \in Workstream, CallCreateWorkstream(p, w) PROVE CoordinatorInv'
  BY <1>1, <1>b, <1>r DEF CallCreateWorkstream, CheckedBy
<1>2. ASSUME NEW r \in Run, CallCreateRun(p, r) PROVE CoordinatorInv'
  BY <1>2, <1>b, <1>r DEF CallCreateRun, CheckedBy
<1>3. ASSUME NEW j \in Job, CallCreateProjectJob(p, j) PROVE CoordinatorInv'
  BY <1>3, <1>b, <1>r DEF CallCreateProjectJob, CheckedBy
<1>4. ASSUME NEW j \in Job, CallDecide(p, j) PROVE CoordinatorInv'
  BY <1>4, <1>b, <1>r, <1>t DEF CallDecide, CheckedBy, Attempts, BlindCall
<1>5. ASSUME NEW a \in Attempt, NEW name \in AttemptCall, NEW rows \in SUBSET Row,
             Begin(p, name, a, rows), UNCHANGED columns,
             name \in BlindCall => rows = {},
             name = "cancel" => a \in rows /\ db[a] \in {"PENDING", "RUNNING"},
             name = "authorize" => db[a] = "PENDING"
      PROVE  CoordinatorInv'
  BY <1>5, <1>b, <1>r DEF CheckedBy
<1>6. ASSUME NEW a \in Attempt, NEW b \in Attempt,
             CallCreateAttempt(p, a) \/ CallRetryAttempt(p, b, a)
      PROVE  CoordinatorInv'
  BY <1>5, <1>6 DEF CallCreateAttempt, CallRetryAttempt, Attempts, BlindCall
<1>7. ASSUME NEW a \in Attempt, CallAuthorizeAttemptDispatch(p, a) PROVE CoordinatorInv'
  BY <1>5, <1>7 DEF CallAuthorizeAttemptDispatch
<1>8. ASSUME NEW a \in Attempt, CallStartAttempt(p, a) PROVE CoordinatorInv'
  <2>1. FirstStartStep(db, a) \in {"start_workstream", "start_run", "start_job", "start_attempt"}
    BY DEF FirstStartStep, StepAfterWorkstream, StepAfterRun
  <2>2. Chain(a) \in SUBSET Row
    BY DEF Chain, RunOfAttempt, WorkstreamOfAttempt
  <2> QED
    BY <1>5, <1>8, <2>1, <2>2 DEF CallStartAttempt, BlindCall
<1>9. ASSUME NEW a \in Attempt, CallFinishAttempt(p, a) PROVE CoordinatorInv'
  BY <1>5, <1>9 DEF CallFinishAttempt
<1>10. ASSUME NEW a \in Attempt, CallRecordEvidence(p, a) PROVE CoordinatorInv'
  BY <1>5, <1>10 DEF CallRecordEvidence
<1>11. ASSUME NEW a \in Attempt, CallCancelAttempt(p, a) PROVE CoordinatorInv'
  BY <1>5, <1>11 DEF CallCancelAttempt, BlindCall
<1>12. ASSUME NEW a \in Attempt, CallMarkUnknown(p, a) \/ CallBeginReconciliation(p, a)
       PROVE  CoordinatorInv'
  BY <1>5, <1>12 DEF CallMarkUnknown, CallBeginReconciliation
<1>13. ASSUME NEW a \in Attempt, NEW name \in {"recovered_finished", "safe_to_retry"},
              CallReconcileAttempt(p, a, name)
       PROVE  CoordinatorInv'
  BY <1>5, <1>13 DEF CallReconcileAttempt
<1> QED
  BY <1>1, <1>2, <1>3, <1>4, <1>6, <1>7, <1>8, <1>9, <1>10, <1>11, <1>12, <1>13

LEMMA InvStep == CoordinatorInv /\ [Next]_vars => CoordinatorInv'
<1> SUFFICES ASSUME CoordinatorInv, [Next]_vars PROVE CoordinatorInv'
  OBVIOUS
<1>1. CASE UNCHANGED vars
  BY <1>1, DataUnchanged
     DEF vars, fencingVars, storeVars, columns, CoordinatorInv, TypeOK, SessionInv, ControlOK,
         TokensOK, AuthorizesPending, Holds, FenceHolderReadsAreCurrent, OwnWrites
<1>2. ASSUME NEW p \in Process, Incarnation(p) PROVE CoordinatorInv'
  BY <1>2, AbortStep, CrashStep, AcquireStep DEF Incarnation
<1>3. ASSUME NEW p \in Process, Create(p) PROVE CoordinatorInv'
  BY <1>3, CallStep, CreateWorkstreamStep, CreateRunStep, CreateProjectJobStep, CreateAttemptStep
     DEF Create
<1>4. ASSUME NEW p \in Process, Dispatch(p) PROVE CoordinatorInv'
  BY <1>4, CallStep, AuthorizeAttemptDispatchStep, StartWorkstreamStep, StartRunStep, StartJobStep,
     StartAttemptStep DEF Dispatch
<1>5. ASSUME NEW p \in Process, Report(p) PROVE CoordinatorInv'
  BY <1>5, CallStep, ResultEventStep, FinishAttemptStep, RecordEvidenceStep, CancelAttemptStep
     DEF Report
<1>6. ASSUME NEW p \in Process, Reconcile(p) PROVE CoordinatorInv'
  BY <1>6, CallStep, MarkUnknownStep, BeginReconciliationStep, ReconcileFinishedStep,
     ReconcileRetryableStep DEF Reconcile
<1>7. ASSUME NEW p \in Process, Accept(p) PROVE CoordinatorInv'
  BY <1>7, CallStep, DecideStep, SettleReadStep, SettleRunStep DEF Accept
<1> QED
  BY <1>1, <1>2, <1>3, <1>4, <1>5, <1>6, <1>7 DEF Next

-----------------------------------------------------------------------------
(* The inductive invariant of the durable execution lifecycle.             *)
THEOREM CoordinatorInvariant == Spec => []CoordinatorInv
  BY InitEstablishesInv, InvStep, PTL DEF Spec

(* Type correctness of the four tables, the columns and the tokens.        *)
THEOREM TypeCorrect == Spec => []TypeOK
<1>1. CoordinatorInv => TypeOK
  BY DEF CoordinatorInv
<1> QED
  BY <1>1, CoordinatorInvariant, PTL

(* A Run waits for reconciliation exactly while one of its Attempts is     *)
(* uncertain, and for one only (mark_unknown, reconcile_attempt).          *)
THEOREM WaitingRunsHaveOneUncertainAttempt == Spec => []OneUncertainAttemptPerWaitingRun
<1>1. CoordinatorInv => OneUncertainAttemptPerWaitingRun
  BY DEF CoordinatorInv, DataInv
<1> QED
  BY <1>1, CoordinatorInvariant, PTL

(* A ProjectJob never has two results (finish_attempt, reconcile_attempt). *)
THEOREM JobsHaveOneResult == Spec => []OneResultPerJob
<1>1. CoordinatorInv => OneResultPerJob
  BY DEF CoordinatorInv, DataInv
<1> QED
  BY <1>1, CoordinatorInvariant, PTL

(* Acceptance is one ACCEPT by somebody who did not dispatch (decide).     *)
THEOREM AcceptanceIsIndependent == Spec => []AcceptedByAnother
<1>1. CoordinatorInv => AcceptedByAnother
  BY DEF CoordinatorInv, DataInv
<1> QED
  BY <1>1, CoordinatorInvariant, PTL

(* Acceptance rests on evidence of the accepted Attempt                    *)
(* (_validate_evidence).                                                   *)
THEOREM AcceptanceIsEvidenced == Spec => []AcceptedOnEvidence
<1>1. CoordinatorInv => AcceptedOnEvidence
  BY DEF CoordinatorInv, DataInv
<1> QED
  BY <1>1, CoordinatorInvariant, PTL

(* Fencing alone makes the reads of a call as good as reads inside its     *)
(* transactions (_assert_fence, transition_batch).                         *)
THEOREM FencedReadsAreCurrent == Spec => []FenceHolderReadsAreCurrent
<1>1. CoordinatorInv => FenceHolderReadsAreCurrent
  BY DEF CoordinatorInv, SessionInv
<1> QED
  BY <1>1, CoordinatorInvariant, PTL

-----------------------------------------------------------------------------
(* Steps on the state columns, for the action properties: which rows a     *)
(* step may move, whoever takes it.                                        *)
LEMMA RowsThatMove ==
    ASSUME CoordinatorInv, [Next]_vars
    PROVE  \/ UNCHANGED db
           \/ \E p \in Process : SettleRun(p)
           \/ /\ \A r \in Run : db'[r] = "COMPLETED" => db[r] = "COMPLETED"
              /\ \A j \in Job : db[j] \in TerminalJob => db'[j] \in {db[j], "CANCELLED"}
<1> DEFINE Goal == \/ UNCHANGED db
                   \/ \E p \in Process : SettleRun(p)
                   \/ /\ \A r \in Run : db'[r] = "COMPLETED" => db[r] = "COMPLETED"
                      /\ \A j \in Job : db[j] \in TerminalJob => db'[j] \in {db[j], "CANCELLED"}
<1>1. CASE UNCHANGED vars
  BY <1>1 DEF vars, storeVars
<1>2. ASSUME NEW p \in Process, Incarnation(p) PROVE UNCHANGED db
  BY <1>2 DEF Incarnation, AcquireCoordinator, Crash, Abort, storeVars
<1>3. ASSUME NEW p \in Process, NEW row, NEW from, NEW to, Transition(p, row, from, to),
             to # "COMPLETED", row \in Job => from \notin TerminalJob
      PROVE  Goal
  BY <1>3, TransitionEffect, Tables
<1>4. ASSUME NEW p \in Process, Create(p) PROVE Goal
  BY <1>3, <1>4 DEF Create, CallCreateWorkstream, CreateWorkstream, CallCreateRun, CreateRun,
                    CallCreateProjectJob, CreateProjectJob, CallCreateAttempt, CallRetryAttempt,
                    CreateAttempt, Begin, Insert, TerminalJob
<1>5. ASSUME NEW p \in Process, Dispatch(p) PROVE Goal
  BY <1>3, <1>5 DEF Dispatch, CallAuthorizeAttemptDispatch, AuthorizeAttemptDispatch,
                    RecordDispatchAuthorization,
                    CallStartAttempt, StartWorkstream, StartRun, StartJob, StartAttempt, Begin,
                    RecordEvent, TerminalJob
<1>6. ASSUME NEW p \in Process, Report(p) PROVE Goal
  <2>1. CASE FinishAttempt(p)
    <3>1. arg[p] \in Attempt
      BY <2>1, ArgumentsOK DEF FinishAttempt, ArgumentOf, AttemptCall
    <3> QED
      BY <2>1, <3>1, Tables DEF FinishAttempt, TransitionBatch, TerminalJob
  <2>2. CASE CancelAttempt(p)
    <3>1. arg[p] \in Attempt
      BY <2>2, ArgumentsOK DEF CancelAttempt, ArgumentOf, AttemptCall
    <3> QED
      BY <2>2, <3>1, Tables DEF CancelAttempt, TransitionBatch
  <2> QED
    BY <1>6, <2>1, <2>2 DEF Report, CallFinishAttempt, RecordProviderResult, RecordAttemptFinished,
                            CallRecordEvidence, RecordEvidence, CallCancelAttempt, Begin, RecordEvent
<1>7. ASSUME NEW p \in Process, Reconcile(p) PROVE Goal
  <2>1. CASE MarkUnknown(p) \/ ReconcileFinished(p) \/ ReconcileRetryable(p)
    <3>1. arg[p] \in Attempt /\ RunOfAttempt(arg[p]) \in Run
      BY <2>1, ArgumentsOK, Tables DEF MarkUnknown, ReconcileFinished, ReconcileRetryable,
                                       ArgumentOf, AttemptCall, RunOfAttempt
    <3>2. JobOf[arg[p]] \in Job /\ db[JobOf[arg[p]]] \notin TerminalJob
      BY <2>1, <3>1, Tables DEF MarkUnknown, ReconcileFinished, ReconcileRetryable, ReconciledFrom,
                                TransitionBatch, TerminalJob
    <3>3. CASE MarkUnknown(p)
      BY <3>1, <3>2, <3>3, Tables DEF MarkUnknown, TransitionBatch
    <3>4. CASE ReconcileFinished(p)
      BY <3>1, <3>2, <3>4, Tables DEF ReconcileFinished, TransitionBatch
    <3>5. CASE ReconcileRetryable(p)
      BY <3>1, <3>2, <3>5, Tables DEF ReconcileRetryable, TransitionBatch
    <3> QED
      BY <2>1, <3>3, <3>4, <3>5
  <2> QED
    BY <1>3, <1>7, <2>1, ArgumentsOK, Tables
       DEF Reconcile, CallMarkUnknown, CallBeginReconciliation, BeginReconciliation,
           CallReconcileAttempt, Begin, ArgumentOf, AttemptCall, TerminalJob
<1>8. ASSUME NEW p \in Process, Accept(p) PROVE Goal
  BY <1>3, <1>8 DEF Accept, CallDecide, Decide, SettleRead, Begin, TargetOf, Outcome, TerminalJob
<1> QED
  BY <1>1, <1>2, <1>4, <1>5, <1>6, <1>7, <1>8 DEF Next

(* Runs complete only when every ProjectJob is done at the commit          *)
(* (settle_run_for_job).                                                   *)
THEOREM RunsSettleCompletely == Spec => RunsCompleteSettled
<1>1. CoordinatorInv /\ [Next]_vars
        => [\A r \in Run : db'[r] = "COMPLETED" /\ db[r] # "COMPLETED" => Settled(db, r)]_vars
  BY RowsThatMove, SettleEffect
<1> QED
  BY <1>1, CoordinatorInvariant, PTL DEF Spec, RunsCompleteSettled

(* No late result, recovery or restart reopens a ProjectJob.               *)
THEOREM DoneJobsStayDone == Spec => TerminalJobsStayTerminal
<1>1. CoordinatorInv /\ [Next]_vars
        => [\A j \in Job : db[j] \in TerminalJob => db'[j] \in TerminalJob]_vars
  BY RowsThatMove, SettleEffect DEF TerminalJob
<1> QED
  BY <1>1, CoordinatorInvariant, PTL DEF Spec, TerminalJobsStayTerminal
=============================================================================
