-------------------------- MODULE ObservedReality --------------------------
(***************************************************************************)
(* The append-only logs of a Project: its audit history (project/audit.py) *)
(* and the observations and divergences of Observed Reality (reality/).    *)
(* Several processes append without a lock.  Each reads the log through    *)
(* first and refuses one that is damaged; an append may be cut off, and    *)
(* one that was checked before the cut then runs into the torn line.       *)
(***************************************************************************)
EXTENDS Naturals, Sequences, FiniteSets

CONSTANTS
    Observer,        \* processes
    Sighting,        \* observations, and the divergences they lead to
    Reported,        \* what observers may report
    Suggestion,      \* proposals made of external changes
    NoSuggestion


ObservationStatus == {"MATCH", "DIVERGED", "INVALID", "UNREACHABLE", "UNKNOWN"}

ASSUME RealityAssumption == Reported \subseteq ObservationStatus /\ NoSuggestion \notin Suggestion

VARIABLES
    log,             \* the lines of each log
    confirmed,        \* entries whose append has returned (history)
    suggestion,      \* state of each proposal
    chore             \* what each process has still to append

realityVars == <<log, confirmed, suggestion, chore>>

Log == {"audit", "observations", "divergences"}

Cut == [line |-> "torn"]         \* no newline at its end
Garbled == [line |-> "garbled"]   \* a torn line and another one behind it

Done == [todo |-> <<>>, checked |-> FALSE, resolves |-> NoSuggestion]

RealityInit ==
    /\ log = [f \in Log |-> <<>>]
    /\ confirmed = [f \in Log |-> {}]
    /\ suggestion = [s \in Suggestion |-> "NONE"]
    /\ chore = [p \in Observer |-> Done]

-----------------------------------------------------------------------------
AuditEvent(type, s) == [log |-> "audit", line |-> type, proposal |-> s]

Observation(o, status) == [log |-> "observations", line |-> status, of |-> o]

Divergence(o, status, s) == [log |-> "divergences", line |-> status, of |-> o, proposal |-> s]

LegibleInPart(f) == TRUE

(* read_all, _read: one bad line condemns the log.                         *)
Legible(f) == \A i \in DOMAIN log[f] : log[f][i] \notin {Cut, Garbled}

Lines(f) == {log[f][i] : i \in DOMAIN log[f]} \ {Cut, Garbled}

(* divergences: the last line about a divergence counts.                   *)
Divergences ==
    LET lines == log["divergences"]
        about == {i \in DOMAIN lines : lines[i] \in Lines("divergences")}
    IN {lines[i] : i \in {k \in about : \A j \in about : j > k => lines[j].of # lines[k].of}}

CutOffTail(f) == log[f] # <<>> /\ log[f][Len(log[f])] = Cut

Appended(f, line) ==
    IF CutOffTail(f) THEN [log[f] EXCEPT ![Len(log[f])] = line] ELSE Append(log[f], line)

-----------------------------------------------------------------------------
Undertake(p, entries, s) ==
    /\ chore[p] = Done
    /\ chore' = [chore EXCEPT ![p] = [todo |-> entries, checked |-> FALSE, resolves |-> s]]
    /\ UNCHANGED <<log, confirmed>>

(* A fresh identifier: noted nowhere, nor about to be.                     *)
Unnoted(o) ==
    /\ \A e \in Lines("observations") : e.of # o
    /\ \A p \in Observer : \A i \in DOMAIN chore[p].todo :
          chore[p].todo[i].log = "observations" => chore[p].todo[i].of # o

(* observe_repository: a divergence that can be read becomes a proposal,   *)
(* unless the change is gone when it is looked at again.                   *)
ObserveRepository(p, o, status, s) ==
    /\ Unnoted(o)
    /\ s # NoSuggestion => suggestion[s] = "NONE"
    /\ status \in {"MATCH", "DIVERGED", "INVALID"}
    /\ status # "DIVERGED" => s = NoSuggestion
    /\ Undertake(p,
          (IF s = NoSuggestion THEN <<>> ELSE <<AuditEvent("PROPOSED", s)>>)
          \o <<Observation(o, status)>>
          \o (IF status = "MATCH" THEN <<>>
              ELSE <<Divergence(o, IF s = NoSuggestion THEN "OPEN" ELSE "PROPOSED", s)>>),
          NoSuggestion)
    /\ suggestion' = [x \in Suggestion |-> IF x = s THEN "MADE" ELSE suggestion[x]]

(* observe_adapter: a fact without a proposal.                             *)
ObserveAdapter(p, o, status) ==
    /\ Unnoted(o)
    /\ Undertake(p,
          <<Observation(o, status)>>
          \o (IF status = "MATCH" THEN <<>> ELSE <<Divergence(o, "OPEN", NoSuggestion)>>),
          NoSuggestion)
    /\ UNCHANGED suggestion

(* accept refuses a damaged history before it writes the revision.         *)
AdoptSuggestion(p, s) ==
    /\ suggestion[s] = "MADE"
    /\ Legible("audit")
    /\ Undertake(p, <<AuditEvent("ACCEPTED", s)>>, s)
    /\ suggestion' = [suggestion EXCEPT ![s] = "ACCEPTED"]

(* resolve_proposal, once the acceptance is in the history.                *)
ResolveProposal(p) ==
    LET unresolved == {d \in Divergences : d.proposal = chore[p].resolves /\ d.line # "RESOLVED"}
        resolved == {[d EXCEPT !.line = "RESOLVED"] : d \in unresolved}
    IN /\ chore[p].resolves # NoSuggestion /\ chore[p].todo = <<>>
       /\ Legible("divergences")
       /\ \E todo \in [1 .. Cardinality(resolved) -> resolved] :
             /\ \A d \in resolved : \E i \in DOMAIN todo : todo[i] = d
             /\ chore' = [chore EXCEPT ![p] = [Done EXCEPT !.todo = todo]]
       /\ UNCHANGED <<log, confirmed, suggestion>>

-----------------------------------------------------------------------------
(* append, _append: read the log through ...                               *)
CheckLog(p) ==
    /\ chore[p].todo # <<>> /\ ~chore[p].checked
    /\ Legible(Head(chore[p].todo).log)
    /\ chore' = [chore EXCEPT ![p].checked = TRUE]
    /\ UNCHANGED <<log, confirmed, suggestion>>

(* ... and write the line at its end, whatever that is by now.             *)
AppendLine(p) ==
    LET entry == Head(chore[p].todo)
        f == entry.log
    IN /\ chore[p].checked
       /\ log' = [log EXCEPT ![f] = Appended(f, IF CutOffTail(f) THEN Garbled ELSE entry)]
       /\ confirmed' = [confirmed EXCEPT ![f] = @ \cup {entry}]
       /\ chore' = [chore EXCEPT ![p] = [@ EXCEPT !.todo = Tail(chore[p].todo), !.checked = FALSE]]
       /\ UNCHANGED suggestion

(* The write is cut off: it raises, or the process dies.                   *)
AppendPart(p) ==
    LET f == Head(chore[p].todo).log
    IN /\ chore[p].checked
       /\ log' = [log EXCEPT ![f] = Appended(f, Cut)]
       /\ chore' = [chore EXCEPT ![p] = Done]
       /\ UNCHANGED <<confirmed, suggestion>>

(* A damaged log is refused, or the process dies between two appends.      *)
LeaveOff(p) ==
    /\ chore[p] # Done
    /\ chore' = [chore EXCEPT ![p] = Done]
    /\ UNCHANGED <<log, confirmed, suggestion>>

RealityNext ==
    \E p \in Observer :
        \/ \E o \in Sighting, status \in Reported, s \in Suggestion \cup {NoSuggestion} :
              ObserveRepository(p, o, status, s)
        \/ \E o \in Sighting, status \in Reported : ObserveAdapter(p, o, status)
        \/ \E s \in Suggestion : AdoptSuggestion(p, s)
        \/ ResolveProposal(p)
        \/ CheckLog(p)
        \/ AppendLine(p)
        \/ AppendPart(p)
        \/ LeaveOff(p)

RealitySpec == RealityInit /\ [][RealityNext]_realityVars

-----------------------------------------------------------------------------
(* An append that returned is in the log, or the log refuses to be read:   *)
(* also when two processes append at a time and one of them is cut off.    *)
(* And what can be read holds together: a divergence has its observation   *)
(* and counts as resolved exactly when its resolution was written, which   *)
(* is after its proposal was accepted (append, _append, read_all, _read,   *)
(* divergences, resolve_proposal).                                         *)
AppendedOrRefused ==
    /\ \A f \in Log : Legible(f) => confirmed[f] \subseteq Lines(f)
    /\ Legible("divergences") => \A d \in Divergences :
          /\ d.of \in {e.of : e \in confirmed["observations"]}
          /\ d.line = "RESOLVED" => suggestion[d.proposal] = "ACCEPTED"
          /\ [d EXCEPT !.line = "RESOLVED"] \in confirmed["divergences"] => d.line = "RESOLVED"
=============================================================================
