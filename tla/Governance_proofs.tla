------------------------- MODULE Governance_proofs -------------------------
(***************************************************************************)
(* Proofs about the gates of ManagedRuntimeService (Governance) and about  *)
(* the approval of Execution Envelopes (EnvelopeApproval), for any number  *)
(* of service incarnations, requests, scopes and versions.                 *)
(***************************************************************************)
EXTENDS Governance, EnvelopeApproval, ExecutionCoordinator_proofs

-----------------------------------------------------------------------------
(* Governance: the calls of the coordinator and the ones in front of them. *)

StartCall == {"start_workstream", "start_run", "start_job", "start_attempt"}

(* Calls that passed the gate of authorize_dispatch or of bootstrap_run,   *)
(* and those that passed the gate of accept.                               *)
DispatchCall == {"dispatch", "authorize", "dispatch_start"} \cup StartCall

AcceptCall == {"accept", "decide"}

DecisionCall == {"request_decision", "resolve_decision"}

GovernedArgument(name, row) ==
    /\ name \in AttemptCall \cup DispatchCall => row \in Attempt
    /\ name \in JobCall \cup AcceptCall => row \in Job
    /\ name = "create_workstream" => row \in Workstream
    /\ name = "create_run" => row \in Run

(* What the gate in front of a call found.                                 *)
GatePassed(rows, controls, name, row) ==
    /\ name \in DispatchCall =>
          /\ rows[WorkstreamOfAttempt(row)] # "BLOCKED"
          /\ \A s \in CommonScope \cup Chain(row) : controls[s].state = "RUNNING"
    /\ name \in AcceptCall => rows[WorkstreamOf[RunOf[row]]] # "BLOCKED"

(* States that Workstreams were blocked from.                              *)
BlockedFrom(b) ==
    /\ DOMAIN b \subseteq Workstream
    /\ \A w \in DOMAIN b : b[w] \in {"READY", "ACTIVE"}

PlanFor(name, content) ==
    /\ name \in DecisionCall => content.request \in Request
    /\ name = "request_decision" => BlockedFrom(content.blocked)
    /\ name = "resolve_decision" => content.outcome \in DecisionOutcome
    /\ name = "control" => content.state \in ControlState

CallsOK ==
    /\ DOMAIN call = Process /\ DOMAIN arg = Process /\ DOMAIN plan = Process
    /\ \A p \in Process : GovernedArgument(call[p], arg[p]) /\ PlanFor(call[p], plan[p])

FenceOK ==
    /\ generation \in Nat
    /\ token \in [Process -> Nat]
    /\ \A p \in Process :
          /\ token[p] <= generation
          /\ token[p] = 0 => call[p] = "idle"
          /\ \A q \in Process : token[p] = token[q] /\ token[p] # 0 => p = q

(* The gate is still open when the holder of the fence writes.             *)
GatesHold == \A p \in Process : Holds(p) => GatePassed(db, control, call[p], arg[p])

ControlsOK ==
    /\ DOMAIN control = Scope
    /\ \A s \in Scope : control[s].state \in ControlState

(* Requests: an absent one blocks nothing, an open one has no outcome.     *)
RequestsOK ==
    /\ DOMAIN request = Request
    /\ \A d \in Request :
          /\ DOMAIN request[d] = {"state", "outcome", "blocked"}
          /\ BlockedFrom(request[d].blocked)
          /\ request[d].state = "ABSENT" => DOMAIN request[d].blocked = {}
          /\ request[d].state = "OPEN" => request[d].outcome = "NONE"

GateInv == CallsOK /\ FenceOK /\ GatesHold /\ ControlsOK

DecisionInv == RequestsOK /\ BlockedByOneDecision

GovernanceInv == GateInv /\ DecisionInv

-----------------------------------------------------------------------------
LEMMA Hierarchy ==
    /\ \A a \in Attempt : /\ RunOfAttempt(a) \in Run /\ WorkstreamOfAttempt(a) \in Workstream
                          /\ Chain(a) \subseteq Scope
    /\ \A j \in Job : WorkstreamOf[RunOf[j]] \in Workstream
    /\ CommonScope \subseteq Scope
  BY Tables DEF RunOfAttempt, WorkstreamOfAttempt, Chain, Scope

(* The most restrictive of the controls is RUNNING only if all are.        *)
LEMMA RunningIsLeast ==
    ASSUME ControlsOK, NEW a \in Attempt, NEW providers \in SUBSET Provider,
           Effective(a, providers) = "RUNNING"
    PROVE  \A s \in CommonScope \cup Chain(a) : control[s].state = "RUNNING"
<1> DEFINE states == {control[s].state : s \in ScopesOf(a, providers)}
<1>1. ScopesOf(a, providers) \subseteq Scope /\ CommonScope \cup Chain(a) \subseteq ScopesOf(a, providers)
  BY Hierarchy DEF ScopesOf, Scope
<1>2. states \subseteq ControlState
  BY <1>1 DEF ControlsOK
<1>3. states # {}
  BY <1>1 DEF Chain
<1> HIDE DEF states
<1>r. /\ Rank["RUNNING"] = 0 /\ Rank["DRAINING"] = 1
      /\ Rank["PAUSED"] = 2 /\ Rank["EMERGENCY_STOP"] = 3
  BY DEF Rank
<1>4. \E c \in states : \A d \in states : Rank[d] <= Rank[c]
  <2>1. ASSUME NEW c \in states, Rank[c] = 3 PROVE \A d \in states : Rank[d] <= Rank[c]
    BY <2>1, <1>2, <1>r DEF ControlState
  <2>2. ASSUME NEW c \in states, Rank[c] = 2, "EMERGENCY_STOP" \notin states
        PROVE  \A d \in states : Rank[d] <= Rank[c]
    BY <2>2, <1>2, <1>r DEF ControlState
  <2>3. ASSUME NEW c \in states, Rank[c] = 1, "EMERGENCY_STOP" \notin states, "PAUSED" \notin states
        PROVE  \A d \in states : Rank[d] <= Rank[c]
    BY <2>3, <1>2, <1>r DEF ControlState
  <2>4. ASSUME NEW c \in states, "EMERGENCY_STOP" \notin states, "PAUSED" \notin states,
               "DRAINING" \notin states
        PROVE  \A d \in states : Rank[d] <= Rank[c]
    BY <2>4, <1>2, <1>r DEF ControlState
  <2> QED
    BY <2>1, <2>2, <2>3, <2>4, <1>3, <1>r
<1>5. Effective(a, providers) = CHOOSE c \in states : \A d \in states : Rank[d] <= Rank[c]
  BY DEF Effective, states
<1>6. \A d \in states : Rank[d] <= Rank["RUNNING"]
  BY <1>4, <1>5
<1>7. \A d \in states : d = "RUNNING"
  BY <1>2, <1>6, <1>r DEF ControlState
<1> QED
  BY <1>1, <1>7 DEF states

LEMMA GateOpens ==
    ASSUME ControlsOK, NEW a \in Attempt, NEW providers \in SUBSET Provider,
           DispatchAllowed(a, providers)
    PROVE  /\ db[WorkstreamOfAttempt(a)] # "BLOCKED"
           /\ \A s \in CommonScope \cup Chain(a) : control[s].state = "RUNNING"
  BY RunningIsLeast DEF DispatchAllowed

LEMMA GovernedInitOK == GovernedInit => GovernanceInv
<1> SUFFICES ASSUME GovernedInit PROVE GovernanceInv
  OBVIOUS
<1> USE Tables DEF GovernedInit, CallInit, Init, StoreInit, FencingInit
<1>1. CallsOK
  BY DEF CallsOK, GovernedArgument, PlanFor, AttemptCall, JobCall, DispatchCall, StartCall, AcceptCall, DecisionCall
<1>2. FenceOK /\ GatesHold
  BY DEF FenceOK, GatesHold, Holds
<1>3. ControlsOK
  BY DEF ControlsOK, ControlState
<1>4. RequestsOK
  BY DEF RequestsOK, BlockedFrom, Nowhere
<1>5. BlockedByOneDecision
  BY DEF BlockedByOneDecision, Blocking, Nowhere
<1> QED
  BY <1>1, <1>2, <1>3, <1>4, <1>5 DEF GovernanceInv, GateInv, DecisionInv

-----------------------------------------------------------------------------
(* A step of a call moves it to its next step, about some row.             *)
MovesTo(p, name, row) ==
    /\ DOMAIN call' = Process /\ DOMAIN arg' = Process
    /\ \A q \in Process : /\ call'[q] = IF q = p THEN name ELSE call[q]
                          /\ arg'[q] = IF q = p THEN row ELSE arg[q]

PlanMoves(p, content) ==
    /\ DOMAIN plan' = Process
    /\ \A q \in Process : plan'[q] = IF q = p THEN content ELSE plan[q]

(* Reads: the rows and the controls are as they were.                      *)
LEMMA ReadKeepsGates ==
    ASSUME GateInv, NEW p \in Process, NEW name, NEW row, NEW content,
           UNCHANGED <<fencingVars, db, control>>,
           MovesTo(p, name, row), PlanMoves(p, content),
           GovernedArgument(name, row), PlanFor(name, content),
           token[p] # 0 \/ name = "idle",
           Holds(p) => GatePassed(db, control, name, row)
    PROVE  GateInv'
<1> USE DEF GateInv, MovesTo, PlanMoves, fencingVars
<1>1. \A q \in Process : /\ call'[q] = (IF q = p THEN name ELSE call[q])
                         /\ arg'[q] = (IF q = p THEN row ELSE arg[q])
                         /\ plan'[q] = (IF q = p THEN content ELSE plan[q])
  BY DEF CallsOK
<1>2. CallsOK'
  <2>1. DOMAIN call' = Process /\ DOMAIN arg' = Process /\ DOMAIN plan' = Process
    BY DEF CallsOK
  <2>2. ASSUME NEW q \in Process
        PROVE  GovernedArgument(call'[q], arg'[q]) /\ PlanFor(call'[q], plan'[q])
    BY <1>1 DEF CallsOK
  <2> QED
    BY <2>1, <2>2 DEF CallsOK
<1>3. FenceOK'
  BY <1>1 DEF FenceOK
<1>4. GatesHold'
  <2>1. ASSUME NEW q \in Process, Holds(q)
        PROVE  GatePassed(db, control, call'[q], arg'[q])
    BY <1>1, <2>1 DEF GatesHold
  <2> QED
    BY <2>1 DEF GatesHold, Holds
<1> QED
  BY <1>2, <1>3, <1>4 DEF ControlsOK

(* Writes: nobody else has the fence, so only the writer's gate counts.    *)
LEMMA WriteKeepsGates ==
    ASSUME GateInv, NEW p \in Process, NEW name, NEW row, NEW content,
           FencedWrite(p),
           MovesTo(p, name, row), PlanMoves(p, content), ControlsOK',
           GovernedArgument(name, row), PlanFor(name, content),
           GatePassed(db', control', name, row)
    PROVE  GateInv'
<1> USE DEF GateInv, MovesTo, PlanMoves, FencedWrite
<1>1. \A q \in Process : /\ call'[q] = (IF q = p THEN name ELSE call[q])
                         /\ arg'[q] = (IF q = p THEN row ELSE arg[q])
                         /\ plan'[q] = (IF q = p THEN content ELSE plan[q])
  BY DEF CallsOK
<1>2. CallsOK'
  <2>1. DOMAIN call' = Process /\ DOMAIN arg' = Process /\ DOMAIN plan' = Process
    BY DEF CallsOK
  <2>2. ASSUME NEW q \in Process
        PROVE  GovernedArgument(call'[q], arg'[q]) /\ PlanFor(call'[q], plan'[q])
    BY <1>1 DEF CallsOK
  <2> QED
    BY <2>1, <2>2 DEF CallsOK
<1>3. FenceOK'
  BY <1>1 DEF FenceOK
<1>4. GatesHold'
  <2>1. ASSUME NEW q \in Process, Holds(q)
        PROVE  GatePassed(db', control', call'[q], arg'[q])
    BY <1>1, <2>1 DEF FenceOK, Holds
  <2> QED
    BY <2>1 DEF GatesHold, Holds
<1> QED
  BY <1>2, <1>3, <1>4

LEMMA IncarnationKeepsGates ==
    ASSUME GateInv, NEW p \in Process, IncarnationDropsPlan(p), UNCHANGED control
    PROVE  GateInv' /\ UNCHANGED db
<1> USE DEF GateInv, IncarnationDropsPlan, Incarnation
<1>1. CASE AcquireCoordinator(p)
  <2> USE <1>1 DEF AcquireCoordinator, Grant, storeVars
  <2>0. call[p] = "idle"
    BY DEF FenceOK
  <2>1. CallsOK'
    <3>1. \A q \in Process : plan'[q] = (IF q = p THEN NoPlan ELSE plan[q])
      BY DEF CallsOK
    <3>2. \A q \in Process : PlanFor(call[q], plan'[q])
      BY <2>0, <3>1 DEF CallsOK, PlanFor, DecisionCall
    <3> QED
      BY <3>2 DEF CallsOK
  <2>2. FenceOK'
    BY DEF FenceOK
  <2>3. GatesHold'
    <3>1. ASSUME NEW q \in Process, Holds(q)' PROVE q = p
      BY <3>1 DEF FenceOK, Holds
    <3> QED
      BY <2>0, <3>1 DEF GatesHold, GatePassed, DispatchCall, StartCall, AcceptCall
  <2> QED
    BY <2>1, <2>2, <2>3 DEF ControlsOK
<1>2. CASE Crash(p)
  <2> USE <1>2 DEF Crash, Drop, Return
  <2>1. \A q \in Process : /\ call'[q] = (IF q = p THEN "idle" ELSE call[q])
                           /\ arg'[q] = (IF q = p THEN NoRow ELSE arg[q])
                           /\ plan'[q] = (IF q = p THEN NoPlan ELSE plan[q])
    BY DEF CallsOK
  <2>2. CallsOK'
    <3>1. DOMAIN call' = Process /\ DOMAIN arg' = Process /\ DOMAIN plan' = Process
      BY DEF CallsOK
    <3>2. ASSUME NEW q \in Process
          PROVE  GovernedArgument(call'[q], arg'[q]) /\ PlanFor(call'[q], plan'[q])
      BY <2>1 DEF CallsOK, GovernedArgument, PlanFor, AttemptCall, JobCall, DispatchCall,
                  StartCall, AcceptCall, DecisionCall
    <3> QED
      BY <3>1, <3>2 DEF CallsOK
  <2>3. FenceOK'
    BY <2>1 DEF FenceOK
  <2>4. GatesHold'
    <3>1. ASSUME NEW q \in Process, Holds(q)' PROVE q # p /\ Holds(q)
      BY <3>1 DEF FenceOK, Holds
    <3> QED
      BY <2>1, <3>1 DEF GatesHold
  <2> QED
    BY <2>2, <2>3, <2>4 DEF ControlsOK
<1>3. CASE Abort(p)
  <2>1. MovesTo(p, "idle", NoRow) /\ PlanMoves(p, NoPlan)
    BY <1>3 DEF Abort, Return, MovesTo, PlanMoves, CallsOK
  <2>2. /\ GovernedArgument("idle", NoRow) /\ PlanFor("idle", NoPlan)
        /\ GatePassed(db, control, "idle", NoRow)
    BY DEF GovernedArgument, PlanFor, GatePassed, AttemptCall, JobCall, DispatchCall,
           StartCall, AcceptCall, DecisionCall
  <2> QED
    BY <1>3, <2>1, <2>2, ReadKeepsGates DEF Abort
<1> QED
  BY <1>1, <1>2, <1>3

-----------------------------------------------------------------------------
(* What a step of the coordinator may do to rows: no Workstream is blocked *)
(* or unblocked, and what starts or accepts is the call of the holder.     *)
RowsMoved(p) ==
    /\ \A w \in Workstream : db'[w] = "BLOCKED" <=> db[w] = "BLOCKED"
    /\ \A a \in Attempt : db[a] = "PENDING" /\ db'[a] = "RUNNING" =>
          Holds(p) /\ call[p] = "start_attempt" /\ a = arg[p]
    /\ \A j \in Job : db[j] # "ACCEPTED" /\ db'[j] = "ACCEPTED" =>
          Holds(p) /\ call[p] = "decide" /\ j = arg[p]

PlanCall == DecisionCall \cup {"control"}

LEMMA PlanStays ==
    ASSUME GateInv, NEW p \in Process, UNCHANGED plan
    PROVE  PlanMoves(p, plan[p])
  BY DEF GateInv, CallsOK, PlanMoves

LEMMA BeginKeepsGates ==
    ASSUME GateInv, NEW p \in Process, NEW name, NEW row, NEW rows,
           Begin(p, name, row, rows), UNCHANGED <<governanceVars, plan>>,
           name \notin PlanCall, GovernedArgument(name, row), GatePassed(db, control, name, row)
    PROVE  GateInv' /\ RowsMoved(p)
<1>1. MovesTo(p, name, row) /\ token[p] # 0 /\ UNCHANGED <<fencingVars, db, control>>
  BY DEF Begin, MovesTo, governanceVars, GateInv, CallsOK
<1>2. PlanFor(name, plan[p])
  BY DEF PlanFor, PlanCall, DecisionCall
<1>3. RowsMoved(p)
  BY <1>1 DEF RowsMoved
<1> QED
  BY <1>1, <1>2, <1>3, PlanStays, ReadKeepsGates

(* A write that ends its call, with or without settle_run_for_job.         *)
LEMMA LastWriteKeepsGates ==
    ASSUME GateInv, NEW p \in Process, FencedWrite(p), UNCHANGED <<governanceVars, plan>>,
           \/ Return(p)
           \/ \E j \in Job : CallSettle(p, j)
    PROVE  GateInv'
<1>1. ControlsOK'
  BY DEF GateInv, ControlsOK, governanceVars
<1>2. CASE Return(p)
  <2>1. MovesTo(p, "idle", NoRow)
    BY <1>2 DEF Return, MovesTo, GateInv, CallsOK
  <2>2. /\ GovernedArgument("idle", NoRow) /\ PlanFor("idle", plan[p])
        /\ GatePassed(db', control', "idle", NoRow)
    BY DEF GovernedArgument, PlanFor, GatePassed, AttemptCall, JobCall, DispatchCall,
           StartCall, AcceptCall, DecisionCall
  <2> QED
    BY <1>1, <2>1, <2>2, PlanStays, WriteKeepsGates
<1>3. ASSUME NEW j \in Job, CallSettle(p, j)
      PROVE  GateInv'
  <2>1. MovesTo(p, "settle_read", j)
    BY <1>3 DEF CallSettle, MovesTo, GateInv, CallsOK
  <2>2. /\ GovernedArgument("settle_read", j) /\ PlanFor("settle_read", plan[p])
        /\ GatePassed(db', control', "settle_read", j)
    BY DEF GovernedArgument, PlanFor, GatePassed, AttemptCall, JobCall, DispatchCall,
           StartCall, AcceptCall, DecisionCall
  <2> QED
    BY <1>1, <2>1, <2>2, PlanStays, WriteKeepsGates
<1> QED
  BY <1>2, <1>3

(* A write between two transactions of one call.                           *)
LEMMA NextWriteKeepsGates ==
    ASSUME GateInv, NEW p \in Process, NEW name, FencedWrite(p), Continue(p, name),
           UNCHANGED <<governanceVars, plan>>, RowsMoved(p),
           \/ call[p] \in DispatchCall /\ name \in DispatchCall
           \/ call[p] \in AttemptCall /\ name \in {"finish", "finish_event"}
    PROVE  GateInv'
<1>1. ControlsOK'
  BY DEF GateInv, ControlsOK, governanceVars
<1>2. MovesTo(p, name, arg[p])
  BY DEF Continue, MovesTo, GateInv, CallsOK
<1>3. arg[p] \in Attempt
  BY DEF GateInv, CallsOK, GovernedArgument
<1>4. GovernedArgument(name, arg[p]) /\ PlanFor(name, plan[p])
  BY <1>3 DEF GovernedArgument, PlanFor, AttemptCall, JobCall, DispatchCall, StartCall,
              AcceptCall, DecisionCall
<1>5. GatePassed(db', control', name, arg[p])
  <2>1. CASE name \in DispatchCall /\ call[p] \in DispatchCall
    <3>1. GatePassed(db, control, call[p], arg[p])
      BY DEF GateInv, GatesHold, FencedWrite, Holds
    <3>2. db'[WorkstreamOfAttempt(arg[p])] # "BLOCKED"
      BY <1>3, <2>1, <3>1, Hierarchy DEF GatePassed, RowsMoved
    <3> QED
      BY <2>1, <3>1, <3>2 DEF GatePassed, governanceVars, AcceptCall, DispatchCall, StartCall
  <2>2. CASE name \in {"finish", "finish_event"}
    BY <2>2 DEF GatePassed, AcceptCall, DispatchCall, StartCall
  <2> QED
    BY <2>1, <2>2
<1> QED
  BY <1>1, <1>2, <1>4, <1>5, PlanStays, WriteKeepsGates

-----------------------------------------------------------------------------
(* One lemma for each step of the coordinator behind the gates.            *)
LEMMA OneRowMoves ==
    ASSUME NEW p, NEW row \in Row, NEW from, NEW to, Transition(p, row, from, to),
           from # "BLOCKED" /\ to # "BLOCKED" /\ to # "ACCEPTED",
           row \in Attempt => ~ (from = "PENDING" /\ to = "RUNNING")
    PROVE  FencedWrite(p) /\ RowsMoved(p)
  BY TransitionEffect, Tables DEF RowsMoved

LEMMA CreateWorkstreamGated ==
    ASSUME GateInv, NEW p \in Process, CreateWorkstream(p), UNCHANGED <<governanceVars, plan>>
    PROVE  GateInv' /\ RowsMoved(p)
<1>1. arg[p] \in Workstream
  BY DEF GateInv, CallsOK, GovernedArgument, CreateWorkstream, AttemptCall, JobCall, DispatchCall, StartCall
<1>2. arg[p] \in Workstream
  BY <1>1, Hierarchy, Tables
<1>3. FencedWrite(p) /\ RowsMoved(p)
  BY <1>2, OneRowMoves, Tables DEF CreateWorkstream, Insert
<1> QED
  BY <1>3, LastWriteKeepsGates DEF CreateWorkstream

LEMMA CreateRunGated ==
    ASSUME GateInv, NEW p \in Process, CreateRun(p), UNCHANGED <<governanceVars, plan>>
    PROVE  GateInv' /\ RowsMoved(p)
<1>1. arg[p] \in Run
  BY DEF GateInv, CallsOK, GovernedArgument, CreateRun, AttemptCall, JobCall, DispatchCall, StartCall
<1>2. arg[p] \in Run
  BY <1>1, Hierarchy, Tables
<1>3. FencedWrite(p) /\ RowsMoved(p)
  BY <1>2, OneRowMoves, Tables DEF CreateRun, Insert
<1> QED
  BY <1>3, LastWriteKeepsGates DEF CreateRun

LEMMA CreateProjectJobGated ==
    ASSUME GateInv, NEW p \in Process, CreateProjectJob(p), UNCHANGED <<governanceVars, plan>>
    PROVE  GateInv' /\ RowsMoved(p)
<1>1. arg[p] \in Job
  BY DEF GateInv, CallsOK, GovernedArgument, CreateProjectJob, AttemptCall, JobCall, DispatchCall, StartCall
<1>2. arg[p] \in Job
  BY <1>1, Hierarchy, Tables
<1>3. FencedWrite(p) /\ RowsMoved(p)
  BY <1>2, OneRowMoves, Tables DEF CreateProjectJob, Insert
<1> QED
  BY <1>3, LastWriteKeepsGates DEF CreateProjectJob

LEMMA CreateAttemptGated ==
    ASSUME GateInv, NEW p \in Process, CreateAttempt(p), UNCHANGED <<governanceVars, plan>>
    PROVE  GateInv' /\ RowsMoved(p)
<1>1. arg[p] \in Attempt
  BY DEF GateInv, CallsOK, GovernedArgument, CreateAttempt, AttemptCall, JobCall, DispatchCall, StartCall
<1>2. arg[p] \in Attempt
  BY <1>1, Hierarchy, Tables
<1>3. FencedWrite(p) /\ RowsMoved(p)
  BY <1>2, OneRowMoves, Tables DEF CreateAttempt, Insert
<1> QED
  BY <1>3, LastWriteKeepsGates DEF CreateAttempt

LEMMA StartWorkstreamGated ==
    ASSUME GateInv, NEW p \in Process, StartWorkstream(p), UNCHANGED <<governanceVars, plan>>
    PROVE  GateInv' /\ RowsMoved(p)
<1>1. arg[p] \in Attempt
  BY DEF GateInv, CallsOK, GovernedArgument, StartWorkstream, AttemptCall, JobCall, DispatchCall, StartCall
<1>2. WorkstreamOfAttempt(arg[p]) \in Workstream
  BY <1>1, Hierarchy, Tables
<1>3. FencedWrite(p) /\ RowsMoved(p)
  BY <1>2, OneRowMoves, Tables DEF StartWorkstream
<1>4. StepAfterWorkstream(seen[p], arg[p]) \in DispatchCall
  BY DEF DispatchCall, StartCall, StepAfterWorkstream, StepAfterRun
<1> QED
  BY <1>3, <1>4, NextWriteKeepsGates DEF StartWorkstream, DispatchCall, StartCall

LEMMA StartRunGated ==
    ASSUME GateInv, NEW p \in Process, StartRun(p), UNCHANGED <<governanceVars, plan>>
    PROVE  GateInv' /\ RowsMoved(p)
<1>1. arg[p] \in Attempt
  BY DEF GateInv, CallsOK, GovernedArgument, StartRun, AttemptCall, JobCall, DispatchCall, StartCall
<1>2. RunOfAttempt(arg[p]) \in Run
  BY <1>1, Hierarchy, Tables
<1>3. FencedWrite(p) /\ RowsMoved(p)
  BY <1>2, OneRowMoves, Tables DEF StartRun
<1>4. StepAfterRun(seen[p], arg[p]) \in DispatchCall
  BY DEF DispatchCall, StartCall, StepAfterWorkstream, StepAfterRun
<1> QED
  BY <1>3, <1>4, NextWriteKeepsGates DEF StartRun, DispatchCall, StartCall

LEMMA StartJobGated ==
    ASSUME GateInv, NEW p \in Process, StartJob(p), UNCHANGED <<governanceVars, plan>>
    PROVE  GateInv' /\ RowsMoved(p)
<1>1. arg[p] \in Attempt
  BY DEF GateInv, CallsOK, GovernedArgument, StartJob, AttemptCall, JobCall, DispatchCall, StartCall
<1>2. JobOf[arg[p]] \in Job
  BY <1>1, Hierarchy, Tables
<1>3. FencedWrite(p) /\ RowsMoved(p)
  BY <1>2, OneRowMoves, Tables DEF StartJob
<1>4. "start_attempt" \in DispatchCall
  BY DEF DispatchCall, StartCall, StepAfterWorkstream, StepAfterRun
<1> QED
  BY <1>3, <1>4, NextWriteKeepsGates DEF StartJob, DispatchCall, StartCall

LEMMA BeginReconciliationGated ==
    ASSUME GateInv, NEW p \in Process, BeginReconciliation(p), UNCHANGED <<governanceVars, plan>>
    PROVE  GateInv' /\ RowsMoved(p)
<1>1. arg[p] \in Attempt
  BY DEF GateInv, CallsOK, GovernedArgument, BeginReconciliation, AttemptCall, JobCall, DispatchCall, StartCall
<1>2. arg[p] \in Attempt
  BY <1>1, Hierarchy, Tables
<1>3. FencedWrite(p) /\ RowsMoved(p)
  BY <1>2, OneRowMoves, Tables DEF BeginReconciliation
<1> QED
  BY <1>3, LastWriteKeepsGates DEF BeginReconciliation

LEMMA StartAttemptGated ==
    ASSUME GateInv, NEW p \in Process, StartAttempt(p), UNCHANGED <<governanceVars, plan>>
    PROVE  GateInv' /\ RowsMoved(p)
<1>1. arg[p] \in Attempt
  BY DEF GateInv, CallsOK, GovernedArgument, StartAttempt, AttemptCall, JobCall, DispatchCall, StartCall
<1>2. FencedWrite(p) /\ RowsMoved(p)
  BY <1>1, TransitionEffect, Tables DEF StartAttempt, RowsMoved, FencedWrite, Holds
<1> QED
  BY <1>2, LastWriteKeepsGates DEF StartAttempt

LEMMA DecideGated ==
    ASSUME GateInv, NEW p \in Process, NEW actor \in Actor, Decide(p, actor, "ACCEPT"),
           UNCHANGED <<governanceVars, plan>>
    PROVE  GateInv' /\ RowsMoved(p)
<1>1. arg[p] \in Job
  BY DEF GateInv, CallsOK, GovernedArgument, Decide, JobCall
<1>2. FencedWrite(p) /\ RowsMoved(p)
  BY <1>1, TransitionEffect, Tables DEF Decide, RowsMoved, FencedWrite, Holds, TargetOf
<1> QED
  BY <1>1, <1>2, LastWriteKeepsGates DEF Decide

LEMMA FinishAttemptGated ==
    ASSUME GateInv, NEW p \in Process, FinishAttempt(p), UNCHANGED <<governanceVars, plan>>
    PROVE  GateInv' /\ RowsMoved(p)
<1>1. arg[p] \in Attempt
  BY DEF GateInv, CallsOK, GovernedArgument, FinishAttempt, AttemptCall, JobCall, DispatchCall, StartCall
<1>2. /\ arg[p] \in Attempt /\ arg[p] \notin Workstream /\ arg[p] \notin Run /\ arg[p] \notin Job
      /\ JobOf[arg[p]] \in Job /\ JobOf[arg[p]] \notin Workstream /\ JobOf[arg[p]] \notin Run
      /\ JobOf[arg[p]] \notin Attempt
      /\ RunOfAttempt(arg[p]) \in Run /\ RunOfAttempt(arg[p]) \notin Workstream
      /\ RunOfAttempt(arg[p]) \notin Job /\ RunOfAttempt(arg[p]) \notin Attempt
  BY <1>1, Tables, Hierarchy
<1>3. FencedWrite(p) /\ RowsMoved(p)
  BY <1>2, Tables DEF FinishAttempt, TransitionBatch, RowsMoved
<1> QED
  BY <1>3, NextWriteKeepsGates DEF FinishAttempt, AttemptCall

LEMMA CancelAttemptGated ==
    ASSUME GateInv, NEW p \in Process, CancelAttempt(p), UNCHANGED <<governanceVars, plan>>
    PROVE  GateInv' /\ RowsMoved(p)
<1>1. arg[p] \in Attempt
  BY DEF GateInv, CallsOK, GovernedArgument, CancelAttempt, AttemptCall, JobCall, DispatchCall, StartCall
<1>2. /\ arg[p] \in Attempt /\ arg[p] \notin Workstream /\ arg[p] \notin Run /\ arg[p] \notin Job
      /\ JobOf[arg[p]] \in Job /\ JobOf[arg[p]] \notin Workstream /\ JobOf[arg[p]] \notin Run
      /\ JobOf[arg[p]] \notin Attempt
      /\ RunOfAttempt(arg[p]) \in Run /\ RunOfAttempt(arg[p]) \notin Workstream
      /\ RunOfAttempt(arg[p]) \notin Job /\ RunOfAttempt(arg[p]) \notin Attempt
  BY <1>1, Tables, Hierarchy
<1>3. FencedWrite(p) /\ RowsMoved(p)
  BY <1>2, Tables DEF CancelAttempt, TransitionBatch, RowsMoved
<1> QED
  BY <1>2, <1>3, LastWriteKeepsGates DEF CancelAttempt

LEMMA MarkUnknownGated ==
    ASSUME GateInv, NEW p \in Process, MarkUnknown(p), UNCHANGED <<governanceVars, plan>>
    PROVE  GateInv' /\ RowsMoved(p)
<1>1. arg[p] \in Attempt
  BY DEF GateInv, CallsOK, GovernedArgument, MarkUnknown, AttemptCall, JobCall, DispatchCall, StartCall
<1>2. /\ arg[p] \in Attempt /\ arg[p] \notin Workstream /\ arg[p] \notin Run /\ arg[p] \notin Job
      /\ JobOf[arg[p]] \in Job /\ JobOf[arg[p]] \notin Workstream /\ JobOf[arg[p]] \notin Run
      /\ JobOf[arg[p]] \notin Attempt
      /\ RunOfAttempt(arg[p]) \in Run /\ RunOfAttempt(arg[p]) \notin Workstream
      /\ RunOfAttempt(arg[p]) \notin Job /\ RunOfAttempt(arg[p]) \notin Attempt
  BY <1>1, Tables, Hierarchy
<1>3. FencedWrite(p) /\ RowsMoved(p)
  BY <1>2, Tables DEF MarkUnknown, TransitionBatch, RowsMoved
<1> QED
  BY <1>2, <1>3, LastWriteKeepsGates DEF MarkUnknown

LEMMA ReconcileFinishedGated ==
    ASSUME GateInv, NEW p \in Process, ReconcileFinished(p), UNCHANGED <<governanceVars, plan>>
    PROVE  GateInv' /\ RowsMoved(p)
<1>1. arg[p] \in Attempt
  BY DEF GateInv, CallsOK, GovernedArgument, ReconcileFinished, AttemptCall, JobCall, DispatchCall, StartCall
<1>2. /\ arg[p] \in Attempt /\ arg[p] \notin Workstream /\ arg[p] \notin Run /\ arg[p] \notin Job
      /\ JobOf[arg[p]] \in Job /\ JobOf[arg[p]] \notin Workstream /\ JobOf[arg[p]] \notin Run
      /\ JobOf[arg[p]] \notin Attempt
      /\ RunOfAttempt(arg[p]) \in Run /\ RunOfAttempt(arg[p]) \notin Workstream
      /\ RunOfAttempt(arg[p]) \notin Job /\ RunOfAttempt(arg[p]) \notin Attempt
  BY <1>1, Tables, Hierarchy
<1>3. FencedWrite(p) /\ RowsMoved(p)
  BY <1>2, Tables DEF ReconcileFinished, TransitionBatch, RowsMoved, ReconciledFrom
<1> QED
  BY <1>2, <1>3, LastWriteKeepsGates DEF ReconcileFinished

LEMMA ReconcileRetryableGated ==
    ASSUME GateInv, NEW p \in Process, ReconcileRetryable(p), UNCHANGED <<governanceVars, plan>>
    PROVE  GateInv' /\ RowsMoved(p)
<1>1. arg[p] \in Attempt
  BY DEF GateInv, CallsOK, GovernedArgument, ReconcileRetryable, AttemptCall, JobCall, DispatchCall, StartCall
<1>2. /\ arg[p] \in Attempt /\ arg[p] \notin Workstream /\ arg[p] \notin Run /\ arg[p] \notin Job
      /\ JobOf[arg[p]] \in Job /\ JobOf[arg[p]] \notin Workstream /\ JobOf[arg[p]] \notin Run
      /\ JobOf[arg[p]] \notin Attempt
      /\ RunOfAttempt(arg[p]) \in Run /\ RunOfAttempt(arg[p]) \notin Workstream
      /\ RunOfAttempt(arg[p]) \notin Job /\ RunOfAttempt(arg[p]) \notin Attempt
  BY <1>1, Tables, Hierarchy
<1>3. FencedWrite(p) /\ RowsMoved(p)
  BY <1>2, Tables DEF ReconcileRetryable, TransitionBatch, RowsMoved, ReconciledFrom
<1> QED
  BY <1>2, <1>3, LastWriteKeepsGates DEF ReconcileRetryable

LEMMA SettleRunGated ==
    ASSUME GateInv, NEW p \in Process, SettleRun(p), UNCHANGED <<governanceVars, plan>>
    PROVE  GateInv' /\ RowsMoved(p)
<1>1. arg[p] \in Job
  BY DEF GateInv, CallsOK, GovernedArgument, SettleRun, JobCall
<1>2. /\ RunOf[arg[p]] \in Run /\ RunOf[arg[p]] \notin Workstream
      /\ RunOf[arg[p]] \notin Job /\ RunOf[arg[p]] \notin Attempt
      /\ WorkstreamOf[RunOf[arg[p]]] \in Workstream /\ WorkstreamOf[RunOf[arg[p]]] \notin Run
      /\ WorkstreamOf[RunOf[arg[p]]] \notin Job /\ WorkstreamOf[RunOf[arg[p]]] \notin Attempt
  BY <1>1, Tables, Hierarchy
<1>3. FencedWrite(p) /\ RowsMoved(p)
  BY <1>2, Tables DEF SettleRun, TransitionBatch, RowsMoved
<1> QED
  BY <1>3, LastWriteKeepsGates DEF SettleRun

LEMMA RecordProviderResultGated ==
    ASSUME GateInv, NEW p \in Process, RecordProviderResult(p), UNCHANGED <<governanceVars, plan>>
    PROVE  GateInv' /\ RowsMoved(p)
<1>1. FencedWrite(p) /\ RowsMoved(p)
  BY DEF RecordProviderResult, RecordEvent, RowsMoved
<1> QED
  BY <1>1, NextWriteKeepsGates DEF RecordProviderResult, AttemptCall

LEMMA RecordAttemptFinishedGated ==
    ASSUME GateInv, NEW p \in Process, RecordAttemptFinished(p), UNCHANGED <<governanceVars, plan>>
    PROVE  GateInv' /\ RowsMoved(p)
<1>1. FencedWrite(p) /\ RowsMoved(p)
  BY DEF RecordAttemptFinished, RecordEvent, RowsMoved
<1> QED
  BY <1>1, LastWriteKeepsGates DEF RecordAttemptFinished

LEMMA RecordEvidenceGated ==
    ASSUME GateInv, NEW p \in Process, RecordEvidence(p), UNCHANGED <<governanceVars, plan>>
    PROVE  GateInv' /\ RowsMoved(p)
<1>1. FencedWrite(p) /\ RowsMoved(p)
  BY DEF RecordEvidence, RecordEvent, RowsMoved
<1> QED
  BY <1>1, LastWriteKeepsGates DEF RecordEvidence

LEMMA AuthorizeDispatchGated ==
    ASSUME GateInv, NEW p \in Process, NEW actor \in Actor, AuthorizeDispatch(p, actor), UNCHANGED <<governanceVars, plan>>
    PROVE  GateInv' /\ RowsMoved(p)
<1>1. FencedWrite(p) /\ RowsMoved(p)
  BY DEF AuthorizeDispatch, RecordEvent, RowsMoved, RecordDispatchAuthorization
<1> QED
  BY <1>1, NextWriteKeepsGates DEF AuthorizeDispatch, RecordDispatchAuthorization, DispatchCall

(* Reads inside a call that has passed its gate.                           *)
LEMMA NextReadKeepsGates ==
    ASSUME GateInv, NEW p \in Process, NEW name, NEW row, MovesTo(p, name, row),
           UNCHANGED <<fencingVars, db, governanceVars, plan>>,
           name \notin PlanCall, call[p] # "idle", GovernedArgument(name, row),
           Holds(p) => GatePassed(db, control, name, row)
    PROVE  GateInv' /\ RowsMoved(p)
<1>1. token[p] # 0
  BY DEF GateInv, FenceOK
<1>2. PlanFor(name, plan[p])
  BY DEF PlanFor, PlanCall, DecisionCall
<1>3. RowsMoved(p)
  BY DEF RowsMoved
<1> QED
  BY <1>1, <1>2, <1>3, PlanStays, ReadKeepsGates DEF governanceVars

LEMMA AuthorizeReadGated ==
    ASSUME GateInv, NEW p \in Process, AuthorizeRead(p), UNCHANGED <<governanceVars, plan>>
    PROVE  GateInv' /\ RowsMoved(p)
<1>1. /\ GovernedArgument(call[p], arg[p])
      /\ Holds(p) => GatePassed(db, control, call[p], arg[p])
      /\ DOMAIN call = Process /\ DOMAIN arg = Process
  BY DEF GateInv, CallsOK, GatesHold
<1>3. MovesTo(p, "authorize", arg[p])
  BY <1>1 DEF AuthorizeRead, Continue, MovesTo
<1>4. /\ GovernedArgument("authorize", arg[p])
      /\ Holds(p) => GatePassed(db, control, "authorize", arg[p])
      /\ "authorize" \notin PlanCall
  BY <1>1 DEF AuthorizeRead, GovernedArgument, GatePassed, AttemptCall, JobCall, DispatchCall, StartCall,
         AcceptCall, DecisionCall, PlanCall
<1> QED
  BY <1>3, <1>4, NextReadKeepsGates DEF AuthorizeRead

LEMMA StartReadGated ==
    ASSUME GateInv, NEW p \in Process, StartRead(p), UNCHANGED <<governanceVars, plan>>
    PROVE  GateInv' /\ RowsMoved(p)
<1>1. /\ GovernedArgument(call[p], arg[p])
      /\ Holds(p) => GatePassed(db, control, call[p], arg[p])
      /\ DOMAIN call = Process /\ DOMAIN arg = Process
  BY DEF GateInv, CallsOK, GatesHold
<1>2. FirstStartStep(db, arg[p]) \in StartCall
  BY DEF FirstStartStep, StepAfterWorkstream, StepAfterRun, StartCall
<1>3. MovesTo(p, FirstStartStep(db, arg[p]), arg[p])
  BY <1>1, <1>2 DEF StartRead, Continue, MovesTo
<1>4. /\ GovernedArgument(FirstStartStep(db, arg[p]), arg[p])
      /\ Holds(p) => GatePassed(db, control, FirstStartStep(db, arg[p]), arg[p])
      /\ FirstStartStep(db, arg[p]) \notin PlanCall
  BY <1>1, <1>2 DEF StartRead, GovernedArgument, GatePassed, AttemptCall, JobCall, DispatchCall, StartCall,
         AcceptCall, DecisionCall, PlanCall
<1> QED
  BY <1>3, <1>4, NextReadKeepsGates DEF StartRead

LEMMA AcceptReadGated ==
    ASSUME GateInv, NEW p \in Process, AcceptRead(p), UNCHANGED <<governanceVars, plan>>
    PROVE  GateInv' /\ RowsMoved(p)
<1>1. /\ GovernedArgument(call[p], arg[p])
      /\ Holds(p) => GatePassed(db, control, call[p], arg[p])
      /\ DOMAIN call = Process /\ DOMAIN arg = Process
  BY DEF GateInv, CallsOK, GatesHold
<1>3. MovesTo(p, "decide", arg[p])
  BY <1>1 DEF AcceptRead, Continue, MovesTo
<1>4. /\ GovernedArgument("decide", arg[p])
      /\ Holds(p) => GatePassed(db, control, "decide", arg[p])
      /\ "decide" \notin PlanCall
  BY <1>1 DEF AcceptRead, GovernedArgument, GatePassed, AttemptCall, JobCall, DispatchCall, StartCall,
         AcceptCall, DecisionCall, PlanCall
<1> QED
  BY <1>3, <1>4, NextReadKeepsGates DEF AcceptRead

LEMMA SettleReadGated ==
    ASSUME GateInv, NEW p \in Process, SettleRead(p), UNCHANGED <<governanceVars, plan>>
    PROVE  GateInv' /\ RowsMoved(p)
<1>1. arg[p] \in Job /\ DOMAIN call = Process /\ DOMAIN arg = Process
  BY DEF GateInv, CallsOK, GovernedArgument, SettleRead, JobCall
<1>2. /\ GovernedArgument("settle", arg[p]) /\ GatePassed(db, control, "settle", arg[p])
      /\ GovernedArgument("idle", NoRow) /\ GatePassed(db, control, "idle", NoRow)
      /\ "settle" \notin PlanCall /\ "idle" \notin PlanCall
  BY <1>1 DEF GovernedArgument, GatePassed, AttemptCall, JobCall, DispatchCall, StartCall,
         AcceptCall, DecisionCall, PlanCall
<1>3. MovesTo(p, "settle", arg[p]) \/ MovesTo(p, "idle", NoRow)
  BY <1>1 DEF SettleRead, Return, MovesTo
<1> QED
  BY <1>2, <1>3, NextReadKeepsGates DEF SettleRead


(* The heads of the calls.  Those without a gate carry none.               *)
LEMMA UngatedCall ==
    ASSUME GateInv, NEW p \in Process, NEW name, NEW row, NEW rows,
           Begin(p, name, row, rows), UNCHANGED <<governanceVars, plan>>,
           \/ name = "create_workstream" /\ row \in Workstream
           \/ name = "create_run" /\ row \in Run
           \/ name = "create_project_job" /\ row \in Job
           \/ name \in AttemptCall \ DispatchCall /\ row \in Attempt
    PROVE  GateInv' /\ RowsMoved(p)
<1>1. /\ name \notin PlanCall
      /\ GovernedArgument(name, row)
      /\ GatePassed(db, control, name, row)
  BY DEF GovernedArgument, GatePassed, AttemptCall, JobCall, DispatchCall, StartCall, AcceptCall,
         DecisionCall, PlanCall
<1> QED
  BY <1>1, BeginKeepsGates

LEMMA AuthorizeCallGated ==
    ASSUME GateInv, NEW p \in Process, NEW a \in Attempt, NEW provider \in Provider,
           CallAuthorizeDispatch(p, a, provider), UNCHANGED <<governanceVars, plan>>
    PROVE  GateInv' /\ RowsMoved(p)
<1>1. /\ db[WorkstreamOfAttempt(a)] # "BLOCKED"
      /\ \A s \in CommonScope \cup Chain(a) : control[s].state = "RUNNING"
  BY GateOpens DEF CallAuthorizeDispatch, GateInv
<1>2. /\ "dispatch" \notin PlanCall
      /\ GovernedArgument("dispatch", a)
      /\ GatePassed(db, control, "dispatch", a)
  BY <1>1 DEF GovernedArgument, GatePassed, AttemptCall, JobCall, DispatchCall, StartCall,
              AcceptCall, DecisionCall, PlanCall
<1> QED
  BY <1>2, BeginKeepsGates DEF CallAuthorizeDispatch

LEMMA BootstrapCallGated ==
    ASSUME GateInv, NEW p \in Process, NEW a \in Attempt, CallBootstrapStart(p, a),
           UNCHANGED <<governanceVars, plan>>
    PROVE  GateInv' /\ RowsMoved(p)
<1>1. /\ db[WorkstreamOfAttempt(a)] # "BLOCKED"
      /\ \A s \in CommonScope \cup Chain(a) : control[s].state = "RUNNING"
  BY GateOpens DEF CallBootstrapStart, GateInv
<1>2. /\ "dispatch_start" \notin PlanCall
      /\ GovernedArgument("dispatch_start", a)
      /\ GatePassed(db, control, "dispatch_start", a)
  BY <1>1 DEF GovernedArgument, GatePassed, AttemptCall, JobCall, DispatchCall, StartCall,
              AcceptCall, DecisionCall, PlanCall
<1> QED
  BY <1>2, BeginKeepsGates DEF CallBootstrapStart

LEMMA AcceptCallGated ==
    ASSUME GateInv, NEW p \in Process, NEW j \in Job, CallAccept(p, j),
           UNCHANGED <<governanceVars, plan>>
    PROVE  GateInv' /\ RowsMoved(p)
<1>1. /\ "accept" \notin PlanCall
      /\ GovernedArgument("accept", j)
      /\ GatePassed(db, control, "accept", j)
  BY DEF CallAccept, GovernedArgument, GatePassed, AttemptCall, JobCall, DispatchCall, StartCall,
         AcceptCall, DecisionCall, PlanCall
<1> QED
  BY <1>1, BeginKeepsGates DEF CallAccept

LEMMA CoordinatedGated ==
    ASSUME GateInv, NEW p \in Process, Coordinated(p)
    PROVE  GateInv' /\ RowsMoved(p)
<1>0. UNCHANGED <<governanceVars, plan>>
  BY DEF Coordinated
<1>1. ASSUME NEW w \in Workstream, CallCreateWorkstream(p, w)
      PROVE  GateInv' /\ RowsMoved(p)
  BY <1>0, <1>1, UngatedCall DEF CallCreateWorkstream, AttemptCall, DispatchCall, StartCall
<1>2. ASSUME NEW r \in Run, CallCreateRun(p, r)
      PROVE  GateInv' /\ RowsMoved(p)
  BY <1>0, <1>2, UngatedCall DEF CallCreateRun, AttemptCall, DispatchCall, StartCall
<1>3. ASSUME NEW j \in Job, CallCreateProjectJob(p, j)
      PROVE  GateInv' /\ RowsMoved(p)
  BY <1>0, <1>3, UngatedCall DEF CallCreateProjectJob, AttemptCall, DispatchCall, StartCall
<1>4. ASSUME NEW a \in Attempt, CallCreateAttempt(p, a)
      PROVE  GateInv' /\ RowsMoved(p)
  BY <1>0, <1>4, UngatedCall DEF CallCreateAttempt, AttemptCall, DispatchCall, StartCall
<1>5. ASSUME NEW b \in Attempt, NEW a \in Attempt, CallRetryAttempt(p, b, a)
      PROVE  GateInv' /\ RowsMoved(p)
  BY <1>0, <1>5, UngatedCall DEF CallRetryAttempt, AttemptCall, DispatchCall, StartCall
<1>6. ASSUME NEW a \in Attempt, CallFinishAttempt(p, a)
      PROVE  GateInv' /\ RowsMoved(p)
  BY <1>0, <1>6, UngatedCall DEF CallFinishAttempt, AttemptCall, DispatchCall, StartCall
<1>7. ASSUME NEW a \in Attempt, CallRecordEvidence(p, a)
      PROVE  GateInv' /\ RowsMoved(p)
  BY <1>0, <1>7, UngatedCall DEF CallRecordEvidence, AttemptCall, DispatchCall, StartCall
<1>8. ASSUME NEW a \in Attempt, CallCancelAttempt(p, a)
      PROVE  GateInv' /\ RowsMoved(p)
  BY <1>0, <1>8, UngatedCall DEF CallCancelAttempt, AttemptCall, DispatchCall, StartCall
<1>9. ASSUME NEW a \in Attempt, CallMarkUnknown(p, a)
      PROVE  GateInv' /\ RowsMoved(p)
  BY <1>0, <1>9, UngatedCall DEF CallMarkUnknown, AttemptCall, DispatchCall, StartCall
<1>10. ASSUME NEW a \in Attempt, CallBeginReconciliation(p, a)
      PROVE  GateInv' /\ RowsMoved(p)
  BY <1>0, <1>10, UngatedCall DEF CallBeginReconciliation, AttemptCall, DispatchCall, StartCall
<1>11. ASSUME NEW a \in Attempt, NEW name \in {"recovered_finished", "safe_to_retry"}, CallReconcileAttempt(p, a, name)
      PROVE  GateInv' /\ RowsMoved(p)
  BY <1>0, <1>11, UngatedCall DEF CallReconcileAttempt, AttemptCall, DispatchCall, StartCall
<1>12. CASE GovernedCreate(p)
  BY <1>0, <1>12, <1>1, <1>2, <1>3, <1>4, <1>5, CreateWorkstreamGated, CreateRunGated,
     CreateProjectJobGated, CreateAttemptGated DEF GovernedCreate
<1>13. CASE GovernedDispatch(p)
  BY <1>0, <1>13, AuthorizeCallGated, AuthorizeReadGated, AuthorizeDispatchGated,
     BootstrapCallGated, StartReadGated, StartWorkstreamGated, StartRunGated, StartJobGated,
     StartAttemptGated DEF GovernedDispatch
<1>14. CASE Report(p)
  BY <1>0, <1>14, <1>6, <1>7, <1>8, RecordProviderResultGated, FinishAttemptGated,
     RecordAttemptFinishedGated, RecordEvidenceGated, CancelAttemptGated DEF Report
<1>15. CASE Reconcile(p)
  BY <1>0, <1>15, <1>9, <1>10, <1>11, MarkUnknownGated, BeginReconciliationGated,
     ReconcileFinishedGated, ReconcileRetryableGated DEF Reconcile
<1>16. CASE GovernedAccept(p)
  BY <1>0, <1>16, AcceptCallGated, AcceptReadGated, DecideGated, SettleReadGated,
     SettleRunGated DEF GovernedAccept
<1> QED
  BY <1>12, <1>13, <1>14, <1>15, <1>16 DEF Coordinated

-----------------------------------------------------------------------------
(* Calls that carry a plan.                                                *)
LEMMA PlannedCall ==
    ASSUME GateInv, NEW p \in Process, NEW name, NEW content,
           BeginPlan(p, name, content), UNCHANGED governanceVars,
           name \in PlanCall, PlanFor(name, content)
    PROVE  GateInv'
<1>1. /\ MovesTo(p, name, NoRow) /\ PlanMoves(p, content)
      /\ token[p] # 0 /\ UNCHANGED <<fencingVars, db, control>>
  BY DEF BeginPlan, Begin, MovesTo, PlanMoves, governanceVars, GateInv, CallsOK
<1>2. GovernedArgument(name, NoRow) /\ GatePassed(db, control, name, NoRow)
  BY DEF GovernedArgument, GatePassed, AttemptCall, JobCall, DispatchCall, StartCall, AcceptCall,
         DecisionCall, PlanCall
<1> QED
  BY <1>1, <1>2, ReadKeepsGates

LEMMA PlannedWrite ==
    ASSUME GateInv, NEW p \in Process, FencedWrite(p), ReturnPlan(p), ControlsOK'
    PROVE  GateInv'
<1>1. MovesTo(p, "idle", NoRow) /\ PlanMoves(p, NoPlan)
  BY DEF ReturnPlan, Return, MovesTo, PlanMoves, GateInv, CallsOK
<1>2. /\ GovernedArgument("idle", NoRow) /\ PlanFor("idle", NoPlan)
      /\ GatePassed(db', control', "idle", NoRow)
  BY DEF GovernedArgument, PlanFor, GatePassed, AttemptCall, JobCall, DispatchCall,
         StartCall, AcceptCall, DecisionCall
<1> QED
  BY <1>1, <1>2, WriteKeepsGates

(* No row but Workstreams moves in a decision: nothing starts, nothing is  *)
(* accepted.                                                               *)
OnlyWorkstreams == \A r \in Row \ Workstream : db'[r] = db[r]

LEMMA DecisionsStand ==
    ASSUME DecisionInv, UNCHANGED request,
           \A w \in Workstream : db'[w] = "BLOCKED" <=> db[w] = "BLOCKED"
    PROVE  DecisionInv'
  BY DEF DecisionInv, RequestsOK, BlockedByOneDecision, Blocking

LEMMA CreateDecisionStep ==
    ASSUME GovernanceInv, NEW p \in Process, CreateDecisionRequest(p)
    PROVE  GovernanceInv' /\ OnlyWorkstreams
<1> DEFINE d == plan[p].request
           b == plan[p].blocked
<1> USE DEF GovernanceInv
<1>1. d \in Request /\ BlockedFrom(b)
  BY DEF GateInv, CallsOK, PlanFor, DecisionCall, CreateDecisionRequest
<1>2. /\ FencedWrite(p) /\ ReturnPlan(p) /\ UNCHANGED control
      /\ request[d].state = "ABSENT"
      /\ \A w \in DOMAIN b : db[w] = b[w]
      /\ db' = [r \in Row |-> IF r \in DOMAIN b THEN "BLOCKED" ELSE db[r]]
      /\ request' = [request EXCEPT ![d] = [state |-> "OPEN", outcome |-> "NONE", blocked |-> b]]
  BY DEF CreateDecisionRequest, TransitionBatch
<1> HIDE DEF d, b
<1>3. GateInv'
  BY <1>2, PlannedWrite DEF GateInv, ControlsOK
<1>4. OnlyWorkstreams
  BY <1>1, <1>2, Tables DEF OnlyWorkstreams, BlockedFrom
<1>5. /\ DOMAIN request' = Request
      /\ request'[d] = [state |-> "OPEN", outcome |-> "NONE", blocked |-> b]
      /\ \A e \in Request : e # d => request'[e] = request[e]
  BY <1>1, <1>2 DEF DecisionInv, RequestsOK
<1>6. RequestsOK'
  <2>1. ASSUME NEW e \in Request
        PROVE  /\ DOMAIN request'[e] = {"state", "outcome", "blocked"}
               /\ BlockedFrom(request'[e].blocked)
               /\ request'[e].state = "ABSENT" => DOMAIN request'[e].blocked = {}
               /\ request'[e].state = "OPEN" => request'[e].outcome = "NONE"
    <3>1. CASE e = d
      BY <1>1, <1>5, <3>1
    <3>2. CASE e # d
      BY <1>5, <3>2 DEF DecisionInv, RequestsOK
    <3> QED
      BY <3>1, <3>2
  <2> QED
    BY <1>5, <2>1 DEF RequestsOK
<1>7. BlockedByOneDecision'
  <2>1. ASSUME NEW w \in Workstream
        PROVE  /\ db'[w] = "BLOCKED" <=> Blocking(w)' # {}
               /\ \A c, e \in Blocking(w)' : c = e
    <3>1. CASE w \in DOMAIN b
      <4>1. db[w] # "BLOCKED" /\ db'[w] = "BLOCKED"
        BY <1>1, <1>2, <3>1, Tables DEF BlockedFrom
      <4>2. Blocking(w) = {}
        BY <4>1 DEF DecisionInv, BlockedByOneDecision
      <4>3. Blocking(w)' = {d}
        BY <1>1, <1>5, <3>1, <4>2 DEF Blocking
      <4> QED
        BY <4>1, <4>3
    <3>2. CASE w \notin DOMAIN b
      <4>1. db'[w] = db[w]
        BY <1>2, <3>2, Tables
      <4>2. Blocking(w)' = Blocking(w)
        <5>1. w \notin DOMAIN request[d].blocked
          BY <1>1, <1>2 DEF DecisionInv, RequestsOK
        <5> QED
          BY <1>5, <3>2, <5>1 DEF Blocking
      <4> QED
        BY <4>1, <4>2 DEF DecisionInv, BlockedByOneDecision
    <3> QED
      BY <3>1, <3>2
  <2> QED
    BY <2>1 DEF BlockedByOneDecision
<1> QED
  BY <1>3, <1>4, <1>6, <1>7 DEF DecisionInv

LEMMA ResolveDecisionStep ==
    ASSUME GovernanceInv, NEW p \in Process, ResolveDecisionRequest(p)
    PROVE  GovernanceInv' /\ OnlyWorkstreams
<1> DEFINE d == plan[p].request
           result == plan[p].outcome
           b == request[d].blocked
           resolved == [request[d] EXCEPT !.state = "RESOLVED", !.outcome = result]
<1> USE DEF GovernanceInv
<1>1. d \in Request /\ result \in DecisionOutcome
  BY DEF GateInv, CallsOK, PlanFor, DecisionCall, ResolveDecisionRequest
<1>2. /\ FencedWrite(p) /\ ReturnPlan(p) /\ UNCHANGED control
      /\ request[d].state = "OPEN"
      /\ db' = IF result = "APPROVE"
               THEN [r \in Row |-> IF r \in DOMAIN b THEN b[r] ELSE db[r]]
               ELSE db
      /\ request' = [request EXCEPT ![d] = resolved]
  BY DEF ResolveDecisionRequest, TransitionBatch, RecordEvent
<1>3. BlockedFrom(b) /\ request[d].outcome = "NONE"
  BY <1>1, <1>2 DEF DecisionInv, RequestsOK
<1>4. /\ DOMAIN resolved = {"state", "outcome", "blocked"}
      /\ resolved.state = "RESOLVED" /\ resolved.outcome = result /\ resolved.blocked = b
  BY <1>1 DEF DecisionInv, RequestsOK
<1> HIDE DEF result, resolved
<1>5. GateInv'
  BY <1>2, PlannedWrite DEF GateInv, ControlsOK
<1>6. OnlyWorkstreams
  BY <1>2, <1>3, Tables DEF OnlyWorkstreams, BlockedFrom
<1>7. /\ DOMAIN request' = Request
      /\ request'[d] = resolved
      /\ \A e \in Request : e # d => request'[e] = request[e]
  BY <1>1, <1>2 DEF DecisionInv, RequestsOK
<1>8. RequestsOK'
  <2>1. ASSUME NEW e \in Request
        PROVE  /\ DOMAIN request'[e] = {"state", "outcome", "blocked"}
               /\ BlockedFrom(request'[e].blocked)
               /\ request'[e].state = "ABSENT" => DOMAIN request'[e].blocked = {}
               /\ request'[e].state = "OPEN" => request'[e].outcome = "NONE"
    <3>1. CASE e = d
      BY <1>3, <1>4, <1>7, <3>1
    <3>2. CASE e # d
      BY <1>7, <3>2 DEF DecisionInv, RequestsOK
    <3> QED
      BY <3>1, <3>2
  <2> QED
    BY <1>7, <2>1 DEF RequestsOK
<1>9. BlockedByOneDecision'
  <2>1. ASSUME NEW w \in Workstream
        PROVE  /\ db'[w] = "BLOCKED" <=> Blocking(w)' # {}
               /\ \A c, e \in Blocking(w)' : c = e
    <3>1. CASE w \in DOMAIN b /\ result = "APPROVE"
      <4>1. d \in Blocking(w)
        BY <1>1, <1>3, <3>1 DEF Blocking
      <4>2. Blocking(w) = {d}
        BY <4>1 DEF DecisionInv, BlockedByOneDecision
      <4>3. Blocking(w)' = {}
        BY <1>1, <1>4, <1>7, <3>1, <4>2 DEF Blocking
      <4>4. db'[w] # "BLOCKED"
        BY <1>2, <1>3, <3>1, Tables DEF BlockedFrom
      <4> QED
        BY <4>3, <4>4
    <3>2. CASE ~ (w \in DOMAIN b /\ result = "APPROVE")
      <4>1. db'[w] = db[w]
        BY <1>2, <3>2, Tables
      <4>2. Blocking(w)' = Blocking(w)
        BY <1>1, <1>3, <1>4, <1>7, <3>2 DEF Blocking
      <4> QED
        BY <4>1, <4>2 DEF DecisionInv, BlockedByOneDecision
    <3> QED
      BY <3>1, <3>2
  <2> QED
    BY <2>1 DEF BlockedByOneDecision
<1> QED
  BY <1>5, <1>6, <1>8, <1>9 DEF DecisionInv

LEMMA DecisionsStep ==
    ASSUME GovernanceInv, NEW p \in Process, Decisions(p)
    PROVE  GovernanceInv' /\ OnlyWorkstreams
<1>1. ASSUME NEW d \in Request, NEW affected \in SUBSET Workstream,
             CallDecisionCreate(p, d, affected)
      PROVE  GovernanceInv' /\ OnlyWorkstreams
  <2> DEFINE content == [request |-> d, blocked |-> [w \in affected |-> db[w]]]
  <2>1. PlanFor("request_decision", content) /\ "request_decision" \in PlanCall
    BY <1>1 DEF PlanFor, BlockedFrom, CallDecisionCreate, PlanCall, DecisionCall
  <2>2. BeginPlan(p, "request_decision", content) /\ UNCHANGED governanceVars
    BY <1>1 DEF CallDecisionCreate
  <2>3. GateInv'
    BY <2>1, <2>2, PlannedCall DEF GovernanceInv
  <2>4. UNCHANGED <<db, request>>
    BY <2>2 DEF BeginPlan, Begin, governanceVars
  <2> QED
    BY <2>3, <2>4, DecisionsStand DEF GovernanceInv, OnlyWorkstreams
<1>2. CASE CreateDecisionRequest(p)
  BY <1>2, CreateDecisionStep
<1>3. ASSUME NEW d \in Request, NEW result \in DecisionOutcome, CallDecisionResolve(p, d, result)
      PROVE  GovernanceInv' /\ OnlyWorkstreams
  <2> DEFINE content == [request |-> d, outcome |-> result]
  <2>1. PlanFor("resolve_decision", content) /\ "resolve_decision" \in PlanCall
    BY DEF PlanFor, PlanCall, DecisionCall
  <2>2. BeginPlan(p, "resolve_decision", content) /\ UNCHANGED governanceVars
    BY <1>3 DEF CallDecisionResolve
  <2>3. GateInv'
    BY <2>1, <2>2, PlannedCall DEF GovernanceInv
  <2>4. UNCHANGED <<db, request>>
    BY <2>2 DEF BeginPlan, Begin, governanceVars
  <2> QED
    BY <2>3, <2>4, DecisionsStand DEF GovernanceInv, OnlyWorkstreams
<1>4. CASE ResolveDecisionRequest(p)
  BY <1>4, ResolveDecisionStep
<1> QED
  BY <1>1, <1>2, <1>3, <1>4 DEF Decisions

LEMMA ControlsStep ==
    ASSUME GovernanceInv, NEW p \in Process, Controls(p)
    PROVE  GovernanceInv' /\ UNCHANGED db
<1>1. ASSUME NEW s \in ControlledScope, NEW state \in ControlState, NEW reconciled \in BOOLEAN,
             CallControlSet(p, s, state, reconciled)
      PROVE  GovernanceInv' /\ UNCHANGED db
  <2> DEFINE content == [scope |-> s, state |-> state, generation |-> control[s].generation + 1]
  <2>1. PlanFor("control", content) /\ "control" \in PlanCall
    BY DEF PlanFor, PlanCall, DecisionCall
  <2>2. BeginPlan(p, "control", content) /\ UNCHANGED governanceVars
    BY <1>1 DEF CallControlSet
  <2>3. GateInv'
    BY <2>1, <2>2, PlannedCall DEF GovernanceInv
  <2>4. UNCHANGED <<db, request>>
    BY <2>2 DEF BeginPlan, Begin, governanceVars
  <2> QED
    BY <2>3, <2>4, DecisionsStand DEF GovernanceInv
<1>2. ASSUME NEW s \in ControlledScope, SetOperationalControl(p, s)
      PROVE  GovernanceInv' /\ UNCHANGED db
  <2> DEFINE row == [state |-> plan[p].state, generation |-> plan[p].generation]
  <2>1. plan[p].state \in ControlState
    BY <1>2 DEF SetOperationalControl, GovernanceInv, GateInv, CallsOK, PlanFor
  <2>2. row.state \in ControlState
    BY <2>1
  <2>3. control' = [control EXCEPT ![s] = row]
    BY <1>2 DEF SetOperationalControl
  <2> HIDE DEF row
  <2>4. ControlsOK'
    BY <2>2, <2>3 DEF GovernanceInv, GateInv, ControlsOK
  <2>5. FencedWrite(p) /\ ReturnPlan(p) /\ UNCHANGED <<db, request>>
    BY <1>2 DEF SetOperationalControl, RecordEvent
  <2> QED
    BY <2>4, <2>5, PlannedWrite, DecisionsStand DEF GovernanceInv
<1> QED
  BY <1>1, <1>2 DEF Controls

-----------------------------------------------------------------------------
LEMMA GovernedStepOK == GovernanceInv /\ [GovernedNext]_allVars => GovernanceInv'
<1> SUFFICES ASSUME GovernanceInv, [GovernedNext]_allVars PROVE GovernanceInv'
  OBVIOUS
<1>1. ASSUME NEW p \in Process, GovernedIncarnation(p) PROVE GovernanceInv'
  <2>1. IncarnationDropsPlan(p) /\ UNCHANGED <<request, control>>
    BY <1>1 DEF GovernedIncarnation, governanceVars
  <2> QED
    BY <2>1, IncarnationKeepsGates, DecisionsStand DEF GovernanceInv
<1>2. ASSUME NEW p \in Process, Coordinated(p) PROVE GovernanceInv'
  <2>1. UNCHANGED request
    BY <1>2 DEF Coordinated, governanceVars
  <2>2. GateInv' /\ RowsMoved(p)
    BY <1>2, CoordinatedGated DEF GovernanceInv
  <2> QED
    BY <2>1, <2>2, DecisionsStand DEF GovernanceInv, RowsMoved
<1>3. ASSUME NEW p \in Process, Decisions(p) \/ Controls(p) PROVE GovernanceInv'
  BY <1>3, DecisionsStep, ControlsStep
<1>4. CASE UNCHANGED allVars
  <2>1. /\ UNCHANGED <<generation, token, db, call, arg, plan, request, control>>
    BY <1>4 DEF allVars, vars, governanceVars, fencingVars, storeVars
  <2>2. GateInv'
    BY <2>1 DEF GovernanceInv, GateInv, CallsOK, FenceOK, GatesHold, ControlsOK, Holds
  <2> QED
    BY <2>1, <2>2, DecisionsStand DEF GovernanceInv
<1> QED
  BY <1>1, <1>2, <1>3, <1>4 DEF GovernedNext

(* The inductive invariant of the gates: a plan and a row fit the call     *)
(* they belong to, the gate the holder of the fence passed is still open,  *)
(* and one DecisionRequest blocks a BLOCKED Workstream.                    *)
THEOREM GovernanceInvariant == GovernedSpec => []GovernanceInv
<1> QED
  BY GovernedInitOK, GovernedStepOK, PTL DEF GovernedSpec

(* Whatever the interleaving of requests, resolutions, starts and          *)
(* settlements (create_decision_request, resolve_decision_request), a      *)
(* Workstream is BLOCKED exactly while one DecisionRequest keeps it so.    *)
THEOREM OneDecisionBlocks == GovernedSpec => []BlockedByOneDecision
<1>1. GovernanceInv => BlockedByOneDecision
  BY DEF GovernanceInv, DecisionInv
<1> QED
  BY <1>1, GovernanceInvariant, PTL

LEMMA StartsAndAcceptsBehindTheGate ==
    ASSUME GovernanceInv, [GovernedNext]_allVars
    PROVE  /\ \A a \in Attempt : db[a] = "PENDING" /\ db'[a] = "RUNNING" =>
                 /\ db[WorkstreamOfAttempt(a)] # "BLOCKED"
                 /\ \A s \in CommonScope \cup Chain(a) : control[s].state = "RUNNING"
           /\ \A j \in Job : db[j] # "ACCEPTED" /\ db'[j] = "ACCEPTED" =>
                 db[WorkstreamOf[RunOf[j]]] # "BLOCKED"
<1>1. ASSUME NEW p \in Process, Coordinated(p)
      PROVE  /\ \A a \in Attempt : db[a] = "PENDING" /\ db'[a] = "RUNNING" =>
                   /\ db[WorkstreamOfAttempt(a)] # "BLOCKED"
                   /\ \A s \in CommonScope \cup Chain(a) : control[s].state = "RUNNING"
             /\ \A j \in Job : db[j] # "ACCEPTED" /\ db'[j] = "ACCEPTED" =>
                   db[WorkstreamOf[RunOf[j]]] # "BLOCKED"
  <2>1. RowsMoved(p)
    BY <1>1, CoordinatedGated DEF GovernanceInv
  <2>2. Holds(p) => GatePassed(db, control, call[p], arg[p])
    BY DEF GovernanceInv, GateInv, GatesHold
  <2> QED
    BY <2>1, <2>2 DEF RowsMoved, GatePassed, DispatchCall, StartCall, AcceptCall
<1>2. ASSUME NEW p \in Process, GovernedIncarnation(p) \/ Controls(p) PROVE UNCHANGED db
  BY <1>2, IncarnationKeepsGates, ControlsStep
     DEF GovernedIncarnation, governanceVars, GovernanceInv
<1>3. ASSUME NEW p \in Process, Decisions(p) PROVE OnlyWorkstreams
  BY <1>3, DecisionsStep
<1>4. CASE UNCHANGED allVars
  BY <1>4 DEF allVars, vars, storeVars
<1> QED
  BY <1>1, <1>2, <1>3, <1>4, Tables DEF GovernedNext, OnlyWorkstreams

(* The gates of authorize_dispatch, bootstrap_run and accept are checked   *)
(* several transactions before the write they guard; the fence keeps them  *)
(* true until then: nothing of a BLOCKED Workstream starts or is accepted. *)
THEOREM BlockedStandStill == GovernedSpec => BlockedWorkstreamsStandStill
<1>1. GovernanceInv /\ [GovernedNext]_allVars =>
        [/\ \A a \in Attempt : db[a] = "PENDING" /\ db'[a] = "RUNNING" =>
                db[WorkstreamOfAttempt(a)] # "BLOCKED"
         /\ \A j \in Job : db[j] # "ACCEPTED" /\ db'[j] = "ACCEPTED" =>
                db[WorkstreamOf[RunOf[j]]] # "BLOCKED"]_allVars
  BY StartsAndAcceptsBehindTheGate
<1> QED
  BY <1>1, GovernanceInvariant, PTL DEF GovernedSpec, BlockedWorkstreamsStandStill

(* Nor does an Attempt start under an operational control of the Platform, *)
(* the Project or its own chain (set_operational_control), however late    *)
(* the control was set.                                                    *)
THEOREM ControlledStandStill == GovernedSpec => NoStartUnderControl
<1>1. GovernanceInv /\ [GovernedNext]_allVars =>
        [\A a \in Attempt : db[a] = "PENDING" /\ db'[a] = "RUNNING" =>
            \A s \in CommonScope \cup Chain(a) : control[s].state = "RUNNING"]_allVars
  BY StartsAndAcceptsBehindTheGate
<1> QED
  BY <1>1, GovernanceInvariant, PTL DEF GovernedSpec, NoStartUnderControl

-----------------------------------------------------------------------------
(* EnvelopeApproval.                                                       *)

ApprovalCall == {"propose", "approve", "mark_approved"}

(* What a call relies on between its reads and its transactions: the       *)
(* payload to approve is the proposed one where the call marks a proposal, *)
(* it is in force once put_envelope has committed, and a Run to be created *)
(* has its Envelope.                                                       *)
ReliesOn(proposals, envelopes, name, row, content) ==
    /\ name \in ApprovalCall => content.envelope \in Envelope /\ content.payload \in Content
    /\ name = "approve" => content.marks \in BOOLEAN
    /\ name = "mark_approved" \/ (name = "approve" /\ content.marks = TRUE) =>
          /\ proposals[content.envelope].state # "ABSENT"
          /\ proposals[content.envelope].payload = content.payload
    /\ name = "mark_approved" => envelopes[content.envelope] = content.payload
    /\ name = "create_workstream" => row \in Workstream
    /\ name = "create_run" => row \in Run /\ envelopes[EnvelopeOf[row]] # NoContent

ApprovalCallsOK ==
    /\ DOMAIN call = Process /\ DOMAIN arg = Process /\ DOMAIN plan = Process
    /\ \A p \in Process : ReliesOn(proposal, envelope, call[p], arg[p], plan[p])

ProposalsOK ==
    /\ DOMAIN envelope = Envelope /\ DOMAIN proposal = Envelope
    /\ \A e \in Envelope :
          /\ DOMAIN proposal[e] = {"state", "payload"}
          /\ proposal[e].state # "ABSENT" => proposal[e].payload \in Content

ApprovalInv == ApprovalCallsOK /\ ProposalsOK /\ ApprovedProposalsAreInForce

(* Both tables only grow: an Envelope in force and the payload of a        *)
(* proposal are never changed.                                             *)
TablesGrow ==
    \A e \in Envelope :
        /\ envelope[e] # NoContent => envelope'[e] = envelope[e]
        /\ proposal[e].state # "ABSENT" =>
              proposal'[e].state # "ABSENT" /\ proposal'[e].payload = proposal[e].payload

LEMMA ReliedOnStays ==
    ASSUME NEW name, NEW row, NEW content, TablesGrow,
           ReliesOn(proposal, envelope, name, row, content)
    PROVE  ReliesOn(proposal', envelope', name, row, content)
  BY EnvelopeAssumption DEF ReliesOn, TablesGrow, ApprovalCall

LEMMA ApprovalCallMoves ==
    ASSUME ApprovalInv, NEW p \in Process, NEW name, NEW row, NEW content, TablesGrow,
           MovesTo(p, name, row), PlanMoves(p, content),
           ReliesOn(proposal', envelope', name, row, content)
    PROVE  ApprovalCallsOK'
<1>1. ASSUME NEW q \in Process
      PROVE  ReliesOn(proposal', envelope', call'[q], arg'[q], plan'[q])
  <2>1. CASE q = p
    BY <2>1 DEF MovesTo, PlanMoves
  <2>2. CASE q # p
    BY <2>2, ReliedOnStays DEF MovesTo, PlanMoves, ApprovalInv, ApprovalCallsOK
  <2> QED
    BY <2>1, <2>2
<1> QED
  BY <1>1 DEF ApprovalCallsOK, MovesTo, PlanMoves

(* Steps that leave both tables and every Run alone.                       *)
LEMMA ApprovalStands ==
    ASSUME ApprovalInv, UNCHANGED envelopeVars, ApprovalCallsOK',
           \A r \in Run : db'[r] # "ABSENT" => db[r] # "ABSENT"
    PROVE  ApprovalInv'
  BY DEF ApprovalInv, ProposalsOK, ApprovedProposalsAreInForce, envelopeVars

LEMMA NothingGrows == UNCHANGED envelopeVars => TablesGrow
  BY DEF TablesGrow, envelopeVars

LEMMA EnvelopeInitOK == EnvelopeInit => ApprovalInv
<1> SUFFICES ASSUME EnvelopeInit PROVE ApprovalInv
  OBVIOUS
<1> USE Tables, EnvelopeAssumption DEF EnvelopeInit, CallInit, Init, StoreInit
<1>1. ApprovalCallsOK
  BY DEF ApprovalCallsOK, ReliesOn, ApprovalCall
<1>2. ProposalsOK
  BY DEF ProposalsOK
<1>3. ApprovedProposalsAreInForce
  BY DEF ApprovedProposalsAreInForce
<1> QED
  BY <1>1, <1>2, <1>3 DEF ApprovalInv

LEMMA EnvelopeIncarnation ==
    ASSUME ApprovalInv, NEW p \in Process, IncarnationDropsPlan(p), UNCHANGED envelopeVars,
           token[p] = 0 => call[p] = "idle"
    PROVE  ApprovalInv'
<1>1. UNCHANGED db
  BY DEF IncarnationDropsPlan, Incarnation, AcquireCoordinator, Crash, Abort, storeVars
<1>2. \A row : ReliesOn(proposal', envelope', "idle", row, NoPlan)
  BY DEF ReliesOn, ApprovalCall
<1>3. PlanMoves(p, NoPlan)
  BY DEF IncarnationDropsPlan, PlanMoves, ApprovalInv, ApprovalCallsOK
<1>4. MovesTo(p, "idle", NoRow) \/ MovesTo(p, "idle", arg[p])
  BY DEF IncarnationDropsPlan, Incarnation, AcquireCoordinator, Crash, Abort, Return, storeVars,
         MovesTo, ApprovalInv, ApprovalCallsOK
<1> QED
  BY <1>1, <1>2, <1>3, <1>4, NothingGrows, ApprovalCallMoves, ApprovalStands

(* The heads of the planned calls.                                         *)
LEMMA ApprovalPlanned ==
    ASSUME ApprovalInv, NEW p \in Process, NEW name, NEW content,
           BeginPlan(p, name, content), UNCHANGED envelopeVars,
           ReliesOn(proposal, envelope, name, NoRow, content)
    PROVE  ApprovalInv'
<1>1. MovesTo(p, name, NoRow) /\ PlanMoves(p, content) /\ UNCHANGED db
  BY DEF BeginPlan, Begin, MovesTo, PlanMoves, ApprovalInv, ApprovalCallsOK
<1>2. ReliesOn(proposal', envelope', name, NoRow, content)
  BY NothingGrows, ReliedOnStays
<1> QED
  BY <1>1, <1>2, NothingGrows, ApprovalCallMoves, ApprovalStands

LEMMA ProposeStep ==
    ASSUME ApprovalInv, NEW p \in Process, ProposeEnvelope(p)
    PROVE  ApprovalInv'
<1> DEFINE e == plan[p].envelope
           c == plan[p].payload
<1>1. e \in Envelope /\ c \in Content
  BY DEF ApprovalInv, ApprovalCallsOK, ReliesOn, ApprovalCall, ProposeEnvelope
<1>2. /\ proposal[e].state = "ABSENT" /\ UNCHANGED <<db, envelope>>
      /\ proposal' = [proposal EXCEPT ![e] = [state |-> "PROPOSED", payload |-> c]]
      /\ MovesTo(p, "idle", NoRow) /\ PlanMoves(p, NoPlan)
  BY DEF ProposeEnvelope, RecordEvent, ReturnPlan, Return, MovesTo, PlanMoves, ApprovalInv,
         ApprovalCallsOK
<1> HIDE DEF e, c
<1>3. /\ DOMAIN proposal' = Envelope
      /\ proposal'[e] = [state |-> "PROPOSED", payload |-> c]
      /\ \A f \in Envelope : f # e => proposal'[f] = proposal[f]
  BY <1>1, <1>2 DEF ApprovalInv, ProposalsOK
<1>4. TablesGrow
  BY <1>2, <1>3 DEF TablesGrow
<1>5. ReliesOn(proposal', envelope', "idle", NoRow, NoPlan)
  BY DEF ReliesOn, ApprovalCall
<1>6. ApprovalCallsOK'
  BY <1>2, <1>4, <1>5, ApprovalCallMoves
<1>7. ProposalsOK'
  BY <1>1, <1>2, <1>3 DEF ApprovalInv, ProposalsOK
<1>8. ApprovedProposalsAreInForce'
  BY <1>2, <1>3 DEF ApprovalInv, ApprovedProposalsAreInForce
<1> QED
  BY <1>6, <1>7, <1>8 DEF ApprovalInv

LEMMA PutEnvelopeStep ==
    ASSUME ApprovalInv, NEW p \in Process, PutEnvelope(p)
    PROVE  ApprovalInv'
<1> DEFINE e == plan[p].envelope
           c == plan[p].payload
<1>1. /\ e \in Envelope /\ c \in Content /\ plan[p].marks \in BOOLEAN
      /\ ReliesOn(proposal, envelope, "approve", arg[p], plan[p])
  BY DEF ApprovalInv, ApprovalCallsOK, ReliesOn, ApprovalCall, PutEnvelope
<1>2. /\ envelope[e] \in {NoContent, c} /\ UNCHANGED <<db, proposal>>
      /\ envelope' = [envelope EXCEPT ![e] = c]
  BY DEF PutEnvelope, RecordEvent
<1>3. /\ DOMAIN envelope' = Envelope /\ envelope'[e] = c
      /\ \A f \in Envelope : f # e => envelope'[f] = envelope[f]
  BY <1>1, <1>2 DEF ApprovalInv, ProposalsOK
<1>4. TablesGrow
  BY <1>2, <1>3 DEF TablesGrow
<1>5. ApprovalCallsOK'
  <2>1. CASE plan[p].marks = TRUE
    <3>1. MovesTo(p, "mark_approved", arg[p]) /\ PlanMoves(p, plan[p])
      BY <2>1 DEF PutEnvelope, Continue, MovesTo, PlanMoves, ApprovalInv, ApprovalCallsOK
    <3>2. ReliesOn(proposal', envelope', "mark_approved", arg[p], plan[p])
      BY <1>1, <1>2, <1>3, <2>1 DEF ReliesOn, ApprovalCall
    <3> QED
      BY <1>4, <3>1, <3>2, ApprovalCallMoves
  <2>2. CASE plan[p].marks = FALSE
    <3>1. MovesTo(p, "idle", NoRow) /\ PlanMoves(p, NoPlan)
      BY <2>2 DEF PutEnvelope, ReturnPlan, Return, MovesTo, PlanMoves, ApprovalInv, ApprovalCallsOK
    <3>2. ReliesOn(proposal', envelope', "idle", NoRow, NoPlan)
      BY DEF ReliesOn, ApprovalCall
    <3> QED
      BY <1>4, <3>1, <3>2, ApprovalCallMoves
  <2> QED
    BY <1>1, <2>1, <2>2
<1> HIDE DEF e, c
<1>6. ProposalsOK'
  BY <1>2, <1>3 DEF ApprovalInv, ProposalsOK
<1>7. ApprovedProposalsAreInForce'
  <2>1. ASSUME NEW f \in Envelope, proposal[f].state = "APPROVED"
        PROVE  envelope'[f] = proposal[f].payload
    <3>1. envelope[f] = proposal[f].payload /\ proposal[f].payload \in Content
      BY <2>1 DEF ApprovalInv, ProposalsOK, ApprovedProposalsAreInForce
    <3> QED
      BY <1>4, <3>1, EnvelopeAssumption DEF TablesGrow
  <2>2. ASSUME NEW r \in Run, db[r] # "ABSENT"
        PROVE  envelope'[EnvelopeOf[r]] # NoContent
    BY <1>4, <2>2, EnvelopeAssumption DEF TablesGrow, ApprovalInv, ApprovedProposalsAreInForce
  <2> QED
    BY <1>2, <2>1, <2>2 DEF ApprovedProposalsAreInForce
<1> QED
  BY <1>5, <1>6, <1>7 DEF ApprovalInv

LEMMA MarkApprovedStep ==
    ASSUME ApprovalInv, NEW p \in Process, MarkProposalApproved(p)
    PROVE  ApprovalInv'
<1> DEFINE e == plan[p].envelope
<1>1. /\ e \in Envelope
      /\ envelope[e] = proposal[e].payload /\ proposal[e].payload \in Content
  BY DEF ApprovalInv, ApprovalCallsOK, ReliesOn, ApprovalCall, MarkProposalApproved
<1>2. /\ proposal[e].state = "PROPOSED" /\ UNCHANGED <<db, envelope>>
      /\ proposal' = [proposal EXCEPT ![e].state = "APPROVED"]
      /\ MovesTo(p, "idle", NoRow) /\ PlanMoves(p, NoPlan)
  BY DEF MarkProposalApproved, RecordEvent, ReturnPlan, Return, MovesTo, PlanMoves, ApprovalInv,
         ApprovalCallsOK
<1> HIDE DEF e
<1>3. /\ DOMAIN proposal' = Envelope
      /\ DOMAIN proposal'[e] = {"state", "payload"}
      /\ proposal'[e].state = "APPROVED" /\ proposal'[e].payload = proposal[e].payload
      /\ \A f \in Envelope : f # e => proposal'[f] = proposal[f]
  BY <1>1, <1>2 DEF ApprovalInv, ProposalsOK
<1>4. TablesGrow
  BY <1>2, <1>3 DEF TablesGrow
<1>5. ReliesOn(proposal', envelope', "idle", NoRow, NoPlan)
  BY DEF ReliesOn, ApprovalCall
<1>6. ApprovalCallsOK'
  BY <1>2, <1>4, <1>5, ApprovalCallMoves
<1>7. ProposalsOK'
  BY <1>1, <1>2, <1>3 DEF ApprovalInv, ProposalsOK
<1>8. ApprovedProposalsAreInForce'
  BY <1>1, <1>2, <1>3 DEF ApprovalInv, ApprovedProposalsAreInForce
<1> QED
  BY <1>6, <1>7, <1>8 DEF ApprovalInv

LEMMA CreateUnderStep ==
    ASSUME ApprovalInv, NEW p \in Process, CreateUnder(p)
    PROVE  ApprovalInv'
<1>0. UNCHANGED envelopeVars /\ PlanMoves(p, plan[p])
  BY DEF CreateUnder, CallCreateRunUnder, PlanMoves, ApprovalInv, ApprovalCallsOK
<1>1. TablesGrow
  BY <1>0, NothingGrows
<1>2. ASSUME NEW r \in Run, CallCreateRunUnder(p, r) PROVE ApprovalInv'
  <2>1. MovesTo(p, "create_run", r) /\ UNCHANGED db
    BY <1>2 DEF CallCreateRunUnder, CallCreateRun, Begin, MovesTo, ApprovalInv, ApprovalCallsOK
  <2>2. ReliesOn(proposal', envelope', "create_run", r, plan[p])
    BY <1>0, <1>2 DEF CallCreateRunUnder, ReliesOn, ApprovalCall, envelopeVars
  <2> QED
    BY <1>0, <1>1, <2>1, <2>2, ApprovalCallMoves, ApprovalStands
<1>3. ASSUME NEW w \in Workstream, CallCreateWorkstream(p, w) PROVE ApprovalInv'
  <2>1. MovesTo(p, "create_workstream", w) /\ UNCHANGED db
    BY <1>3 DEF CallCreateWorkstream, Begin, MovesTo, ApprovalInv, ApprovalCallsOK
  <2>2. ReliesOn(proposal', envelope', "create_workstream", w, plan[p])
    BY DEF ReliesOn, ApprovalCall
  <2> QED
    BY <1>0, <1>1, <2>1, <2>2, ApprovalCallMoves, ApprovalStands
<1>4. ASSUME Return(p) PROVE ApprovalCallsOK'
  <2>1. MovesTo(p, "idle", NoRow)
    BY <1>4 DEF Return, MovesTo, ApprovalInv, ApprovalCallsOK
  <2>2. ReliesOn(proposal', envelope', "idle", NoRow, plan[p])
    BY DEF ReliesOn, ApprovalCall
  <2> QED
    BY <1>0, <1>1, <2>1, <2>2, ApprovalCallMoves
<1>5. CASE CreateWorkstream(p)
  <2>1. arg[p] \in Workstream
    BY <1>5 DEF CreateWorkstream, ApprovalInv, ApprovalCallsOK, ReliesOn
  <2>2. \A r \in Run : db'[r] = db[r]
    BY <1>5, <2>1, TransitionEffect, Tables DEF CreateWorkstream, Insert
  <2> QED
    BY <1>0, <1>4, <1>5, <2>2, ApprovalStands DEF CreateWorkstream
<1>6. CASE CreateRun(p)
  <2>1. arg[p] \in Run /\ envelope[EnvelopeOf[arg[p]]] # NoContent
    BY <1>6 DEF CreateRun, ApprovalInv, ApprovalCallsOK, ReliesOn
  <2>2. \A r \in Run : r # arg[p] => db'[r] = db[r]
    BY <1>6, <2>1, TransitionEffect, Tables DEF CreateRun, Insert
  <2>3. ApprovedProposalsAreInForce'
    BY <1>0, <2>1, <2>2 DEF ApprovalInv, ApprovedProposalsAreInForce, envelopeVars
  <2>4. ProposalsOK'
    BY <1>0 DEF ApprovalInv, ProposalsOK, envelopeVars
  <2> QED
    BY <1>4, <1>6, <2>3, <2>4 DEF CreateRun, ApprovalInv
<1> QED
  BY <1>2, <1>3, <1>5, <1>6 DEF CreateUnder

(* A process without a token is in no call.                                *)
CallsHaveTokens ==
    /\ DOMAIN token = Process
    /\ \A p \in Process : token[p] = 0 => call[p] = "idle"

LEMMA TokensStay ==
    ASSUME CallsHaveTokens, ApprovalInv, [EnvelopeNext]_approvalVars
    PROVE  CallsHaveTokens'
<1> DEFINE Kept(p) ==
      \/ UNCHANGED token /\ token[p] # 0 /\ \A q \in Process \ {p} : call'[q] = call[q]
      \/ call'[p] = "idle" /\ DOMAIN token' = Process
         /\ \A q \in Process \ {p} : token'[q] = token[q] /\ call'[q] = call[q]
<1>0. DOMAIN call = Process
  BY DEF ApprovalInv, ApprovalCallsOK
<1>1. ASSUME NEW p \in Process, IncarnationDropsPlan(p) PROVE Kept(p)
  BY <1>0, <1>1 DEF IncarnationDropsPlan, Incarnation, AcquireCoordinator, Grant, Crash, Drop, Abort,
         Return, storeVars, fencingVars, CallsHaveTokens
<1>2. ASSUME NEW p \in Process, Propose(p) PROVE Kept(p)
  BY <1>0, <1>2 DEF Propose, CallProposeEnvelope, ProposeEnvelope, BeginPlan, Begin, RecordEvent,
         FencedWrite, ReturnPlan, Return, fencingVars
<1>3. ASSUME NEW p \in Process, Approve(p) PROVE Kept(p)
  BY <1>0, <1>3 DEF Approve, CallApproveGiven, CallApproveProposed, PutEnvelope,
         MarkProposalApproved, BeginPlan, Begin, RecordEvent, FencedWrite, ReturnPlan, Return,
         Continue, fencingVars
<1>4. ASSUME NEW p \in Process, CreateUnder(p) PROVE Kept(p)
  BY <1>0, <1>4 DEF CreateUnder, CallCreateRunUnder, CallCreateRun, CallCreateWorkstream, CreateRun,
         CreateWorkstream, Insert, Transition, TransitionBatch, Begin, FencedWrite, Return,
         fencingVars
<1>5. ASSUME NEW p \in Process, Kept(p) PROVE CallsHaveTokens'
  BY <1>5 DEF CallsHaveTokens
<1>6. CASE UNCHANGED approvalVars
  BY <1>6 DEF approvalVars, vars, fencingVars, storeVars, CallsHaveTokens
<1> HIDE DEF Kept
<1> QED
  BY <1>1, <1>2, <1>3, <1>4, <1>5, <1>6 DEF EnvelopeNext

LEMMA EnvelopeStepOK ==
    CallsHaveTokens /\ ApprovalInv /\ [EnvelopeNext]_approvalVars => ApprovalInv'
<1> SUFFICES ASSUME CallsHaveTokens, ApprovalInv, [EnvelopeNext]_approvalVars
             PROVE  ApprovalInv'
  OBVIOUS
<1>1. ASSUME NEW p \in Process, IncarnationDropsPlan(p), UNCHANGED envelopeVars PROVE ApprovalInv'
  BY <1>1, EnvelopeIncarnation DEF CallsHaveTokens
<1>2. ASSUME NEW p \in Process, Propose(p) PROVE ApprovalInv'
  <2>1. ASSUME NEW e \in Envelope, NEW c \in Content, CallProposeEnvelope(p, e, c)
        PROVE  ApprovalInv'
    <3>1. ReliesOn(proposal, envelope, "propose", NoRow, [envelope |-> e, payload |-> c])
      BY DEF ReliesOn, ApprovalCall
    <3> QED
      BY <2>1, <3>1, ApprovalPlanned DEF CallProposeEnvelope
  <2> QED
    BY <1>2, <2>1, ProposeStep DEF Propose
<1>3. ASSUME NEW p \in Process, Approve(p) PROVE ApprovalInv'
  <2>1. ASSUME NEW e \in Envelope, NEW c \in Content, CallApproveGiven(p, e, c)
        PROVE  ApprovalInv'
    <3>1. ReliesOn(proposal, envelope, "approve", NoRow,
                   [envelope |-> e, payload |-> c, marks |-> FALSE])
      BY DEF ReliesOn, ApprovalCall
    <3> QED
      BY <2>1, <3>1, ApprovalPlanned DEF CallApproveGiven
  <2>2. ASSUME NEW e \in Envelope, CallApproveProposed(p, e)
        PROVE  ApprovalInv'
    <3>1. proposal[e].state # "ABSENT" /\ proposal[e].payload \in Content
      BY <2>2 DEF CallApproveProposed, ApprovalInv, ProposalsOK
    <3>2. ReliesOn(proposal, envelope, "approve", NoRow,
                   [envelope |-> e, payload |-> proposal[e].payload, marks |-> TRUE])
      BY <3>1 DEF ReliesOn, ApprovalCall
    <3> QED
      BY <2>2, <3>2, ApprovalPlanned DEF CallApproveProposed
  <2> QED
    BY <1>3, <2>1, <2>2, PutEnvelopeStep, MarkApprovedStep DEF Approve
<1>4. CASE UNCHANGED approvalVars
  BY <1>4 DEF approvalVars, vars, storeVars, envelopeVars, ApprovalInv, ApprovalCallsOK, ProposalsOK,
              ApprovedProposalsAreInForce
<1> QED
  BY <1>1, <1>2, <1>3, <1>4, CreateUnderStep DEF EnvelopeNext

(* The inductive invariant of the approval of Envelopes: every call still  *)
(* has what it read (ReliesOn), because put_envelope refuses another       *)
(* payload and neither table is ever overwritten.                          *)
THEOREM ApprovalInvariant == EnvelopeSpec => [](CallsHaveTokens /\ ApprovalInv)
<1>1. EnvelopeInit => CallsHaveTokens /\ ApprovalInv
  BY EnvelopeInitOK DEF EnvelopeInit, CallInit, Init, StoreInit, FencingInit, CallsHaveTokens
<1>2. CallsHaveTokens /\ ApprovalInv /\ [EnvelopeNext]_approvalVars
         => (CallsHaveTokens /\ ApprovalInv)'
  BY TokensStay, EnvelopeStepOK
<1> QED
  BY <1>1, <1>2, PTL DEF EnvelopeSpec

(* A proposal that is marked APPROVED is the Envelope in force and a Run   *)
(* has an Envelope, for any number of incarnations that propose, approve,  *)
(* bootstrap and crash between put_envelope and the marking of the         *)
(* proposal.                                                               *)
THEOREM ApprovedAreInForce == EnvelopeSpec => []ApprovedProposalsAreInForce
<1>1. CallsHaveTokens /\ ApprovalInv => ApprovedProposalsAreInForce
  BY DEF ApprovalInv
<1> QED
  BY <1>1, ApprovalInvariant, PTL
=============================================================================
