------------------------ MODULE InteractionSessions ------------------------
(***************************************************************************)
(* Interaction sessions of frontends (runtime/governance.py, the session   *)
(* requests of application/api.py).  A session row has a state and the     *)
(* revision its client saw last; every update compares the state alone and *)
(* writes both, the revision as the request read it.                       *)
(***************************************************************************)
EXTENDS FencedWorkers

CONSTANTS
    Session, Unopened,
    MaxAccepted      \* bound on the revisions of the Project

ASSUME SessionAssumption == MaxAccepted \in Nat \ {0}

VARIABLES
    session,         \* session[i]: state, last_seen_revision
    acceptedNumber,  \* the current revision of the Project
    basis,           \* basis[n]: the revision the author of n had seen last
    visit            \* visit[w]: the request w serves and what it read

sessionVars == <<fenceVars, session, acceptedNumber, basis, visit>>

Away ==
    [step |-> "idle", of |-> Unopened, to |-> "NONE", read |-> [state |-> "ABSENT", seen |-> 0],
     number |-> 0]

SessionInit ==
    /\ FencedInit
    /\ session = [i \in Session |-> [state |-> "ABSENT", seen |-> 0]]
    /\ acceptedNumber = 1
    /\ basis = [n \in {1} |-> 0]
    /\ visit = [w \in Worker |-> Away]

Visiting(w, i, step, to) ==
    /\ visit[w].step = "idle"
    /\ visit' = [visit EXCEPT ![w] = [step |-> step, of |-> i, to |-> to,
                                      read |-> session[i], number |-> 0]]
    /\ UNCHANGED <<fenceVars, session, acceptedNumber, basis>>

Departs(w) == visit' = [visit EXCEPT ![w] = Away]

-----------------------------------------------------------------------------
(* open reads the current revision and inserts.                            *)
OpenRead(w, i) ==
    /\ visit[w].step = "idle"
    /\ visit' = [visit EXCEPT ![w] = [step |-> "open", of |-> i, to |-> "ACTIVE",
                                      read |-> [state |-> "ABSENT", seen |-> acceptedNumber],
                                      number |-> 0]]
    /\ UNCHANGED <<fenceVars, session, acceptedNumber, basis>>

(* create_interaction_session.                                             *)
OpenSession(w) ==
    LET i == visit[w].of
    IN /\ visit[w].step = "open"
       /\ session' = IF fence = w /\ session[i].state = "ABSENT"
                     THEN [session EXCEPT ![i] = [state |-> "ACTIVE", seen |-> visit[w].read.seen]]
                     ELSE session
       /\ Departs(w)
       /\ UNCHANGED <<fenceVars, acceptedNumber, basis>>

DisconnectRead(w, i) ==
    session[i].state = "ACTIVE" /\ Visiting(w, i, "update", "DISCONNECTED")

ReconnectRead(w, i) ==
    session[i].state = "DISCONNECTED" /\ Visiting(w, i, "update", "ACTIVE")

(* A session that is closed already is returned as it is.                  *)
CloseRead(w, i) ==
    session[i].state \in {"ACTIVE", "DISCONNECTED"} /\ Visiting(w, i, "update", "CLOSED")

(* update_interaction_session for the three of them.                       *)
UpdateSession(w) ==
    LET i == visit[w].of
    IN /\ visit[w].step = "update"
       /\ session' = IF fence = w /\ session[i].state = visit[w].read.state
                     THEN [session EXCEPT ![i] =
                             [state |-> visit[w].to, seen |-> visit[w].read.seen]]
                     ELSE session
       /\ Departs(w)
       /\ UNCHANGED <<fenceVars, acceptedNumber, basis>>

-----------------------------------------------------------------------------
(* semantic.submit with accept, and lifecycle.advance: the caller states   *)
(* the revision the session saw last.                                      *)
SubmitRead(w, i) ==
    session[i].state = "ACTIVE" /\ Visiting(w, i, "submit", "ACTIVE")

SubmitOverStale(w) ==
    /\ visit[w].step = "submit" /\ acceptedNumber < MaxAccepted
    /\ visit' = [visit EXCEPT ![w] = [@ EXCEPT !.step = "publish", !.number = acceptedNumber + 1]]
    /\ UNCHANGED <<fenceVars, session, acceptedNumber, basis>>

(* propose and accept against that revision: the current number is read,   *)
(* and the file of the next revision is found missing ...                  *)
SubmitFindsFree(w) ==
    /\ visit[w].step = "submit" /\ acceptedNumber < MaxAccepted
    /\ IF visit[w].read.seen = acceptedNumber
       THEN visit' = [visit EXCEPT ![w] =
              [@ EXCEPT !.step = "publish", !.number = acceptedNumber + 1]]
       ELSE Departs(w)
    /\ UNCHANGED <<fenceVars, session, acceptedNumber, basis>>

(* ... and is written later, by then over the revision of someone else; no *)
(* fence is asked.                                                         *)
PublishSubmitted(w) ==
    LET v == visit[w]
    IN /\ v.step = "publish"
       /\ acceptedNumber' = IF v.number > acceptedNumber THEN v.number ELSE acceptedNumber
       /\ basis' = [n \in 1..acceptedNumber' |-> IF n = v.number THEN v.read.seen ELSE basis[n]]
       /\ visit' = [visit EXCEPT ![w] =
             [v EXCEPT !.step = "record", !.read = [v.read EXCEPT !.seen = v.number]]]
       /\ UNCHANGED <<fenceVars, session>>

(* record_revision, for a session that is ACTIVE still or again.           *)
RecordRevision(w) ==
    LET i == visit[w].of
    IN /\ visit[w].step = "record"
       /\ session' = IF fence = w /\ session[i].state = "ACTIVE"
                     THEN [session EXCEPT ![i].seen = visit[w].read.seen]
                     ELSE session
       /\ Departs(w)
       /\ UNCHANGED <<fenceVars, acceptedNumber, basis>>

(* Another way to a new revision.  One that overwrites a revision is made  *)
(* for the same number, and changes nothing here.                          *)
AcceptBeside ==
    /\ acceptedNumber < MaxAccepted
    /\ acceptedNumber' = acceptedNumber + 1
    /\ basis' = [n \in 1..acceptedNumber + 1 |->
                   IF n \in DOMAIN basis THEN basis[n] ELSE acceptedNumber]
    /\ UNCHANGED <<fenceVars, session, visit>>

DropVisit(w) ==
    /\ visit[w].step # "idle" /\ Departs(w)
    /\ UNCHANGED <<fenceVars, session, acceptedNumber, basis>>

ReplaceServer(w) ==
    /\ visit[w].step = "idle" /\ TakeFence(w)
    /\ UNCHANGED <<session, acceptedNumber, basis, visit>>

SessionNext ==
    \/ \E w \in Worker :
          \/ \E i \in Session :
                \/ OpenRead(w, i) \/ SubmitRead(w, i)
                \/ DisconnectRead(w, i) \/ ReconnectRead(w, i) \/ CloseRead(w, i)
          \/ OpenSession(w) \/ UpdateSession(w)
          \/ SubmitFindsFree(w) \/ PublishSubmitted(w) \/ RecordRevision(w)
          \/ DropVisit(w) \/ ReplaceServer(w)
    \/ AcceptBeside

SessionSpec == SessionInit /\ [][SessionNext]_sessionVars

-----------------------------------------------------------------------------
(* A client never submits on top of a revision it has not seen, although   *)
(* requests write back the revision they read: every revision was made     *)
(* for the number right before it, no session has seen one that does not   *)
(* exist, and a CLOSED session is never opened again (accept, _transition, *)
(* record_revision).  Of two that were written under one number the client *)
(* may have seen the other one.                                            *)
SessionsKeepTheirPlace ==
    [][/\ \A i \in Session :
             /\ session'[i].seen <= acceptedNumber'
             /\ session[i].state = "CLOSED" => session'[i] = session[i]
             /\ session[i].state # "ABSENT" => session'[i].seen >= session[i].seen
       /\ \A n \in DOMAIN basis' : basis'[n] = n - 1]_sessionVars
=============================================================================
