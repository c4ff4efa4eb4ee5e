----------------------------- MODULE Validation -----------------------------
(***************************************************************************)
(* The evidence ledger and the gates evaluated on it (validation/core.py). *)
(* A ledger appends to its journal before it changes in memory; a process  *)
(* may die or fail in the middle of a line and another one opens what is   *)
(* there.  Gates pass on current evidence of their own and of the gates    *)
(* below them, or are waived.                                              *)
(***************************************************************************)
EXTENDS Naturals, Sequences, FiniteSets, TLC

CONSTANTS
    EvidenceId,
    Historical,          \* identities in the journal of version 1, which is only read
    Evidence,            \* evidence that validators may come up with
    EvidenceBinding,     \* commit, contract and Model that evidence is about
    Gate,
    Below,               \* Below[g]: children of a gate
    GateLevel,           \* GateLevel[g]: 0 TASK, 1 INTEGRATION, 2 MILESTONE, 3 RELEASE
    Waivable,            \* gates whose definition allows a waiver
    MinimumPasses,       \* evidence a gate requires
    Torn,                \* an event whose text was cut off
    Closed,              \* the ledger of a process that is not there
    MaxDamage,           \* bound on failing writes
    MaxLines             \* bound on lines of the journal

(* Evidence names the claim it supports: here, the gate that asks for it.  *)
EvidenceEntry ==
    [id : EvidenceId, claim : Gate, outcome : {"PASS", "FAIL", "BLOCKED"},
     binding : EvidenceBinding, independent : BOOLEAN]

ASSUME ValidationAssumption ==
    /\ Evidence \subseteq EvidenceEntry /\ Historical \subseteq EvidenceId
    /\ MinimumPasses \in Nat \ {0} /\ {MaxDamage, MaxLines} \subseteq Nat
    /\ Waivable \subseteq Gate
    /\ GateLevel \in [Gate -> 0 .. 3]
    /\ \A g \in Gate : Below[g] \subseteq Gate /\ \A c \in Below[g] : GateLevel[g] = GateLevel[c] + 1

VARIABLES
    journal,    \* lines of the journal, each with the events on it
    unended,    \* the last line has no newline
    ledger,     \* [entries, invalid] in memory, or Closed
    returned,   \* events whose append or invalidate returned (history)
    damage,     \* failing writes so far
    binding,    \* the binding gates are evaluated for
    waivers     \* gates with an active waiver

ledgerVars == <<journal, unended, ledger, returned, damage>>
validationVars == <<ledgerVars, binding, waivers>>

Empty == [entries |-> {}, invalid |-> {}]

ValidationInit ==
    /\ journal = <<>> /\ unended = FALSE /\ ledger = Empty /\ returned = {} /\ damage = 0
    /\ binding \in EvidenceBinding /\ waivers = {}

-----------------------------------------------------------------------------
(* Events are entries and invalidations of an identity.                    *)
IsEntry(e) == e \in Evidence

(* _load_legacy_journal keeps identities, which are no evidence any more.  *)
IsHistorical(id) == id \in Historical

Knows(l, id) == \E e \in l.entries : e.id = id

(* _validate_entry, and the checks of invalidate and of _load_journal.     *)
Admits(l, e) ==
    IF IsEntry(e) THEN ~IsHistorical(e.id) /\ ~Knows(l, e.id)
    ELSE Knows(l, e) /\ e \notin l.invalid

After(l, e) ==
    IF IsEntry(e) THEN [l EXCEPT !.entries = @ \cup {e}] ELSE [l EXCEPT !.invalid = @ \cup {e}]

(* The ledger after the first n lines, where each is one event.            *)
LedgerAfter(n) ==
    [entries |-> {e \in Evidence : \E i \in 1 .. n : journal[i] = <<e>>},
     invalid |-> {e \in EvidenceId \ Evidence : \E i \in 1 .. n : journal[i] = <<e>>}]

(* _load_journal: every line is one well-formed event that the ledger      *)
(* admits after the lines before it.                                       *)
Replays ==
    \A n \in 1 .. Len(journal) :
        /\ Len(journal[n]) = 1 /\ journal[n][1] # Torn
        /\ Admits(LedgerAfter(n - 1), journal[n][1])

Write(e, newline) ==
    /\ Len(journal) < MaxLines
    /\ journal' = IF unended THEN [journal EXCEPT ![Len(journal)] = Append(@, e)]
                  ELSE Append(journal, <<e>>)
    /\ unended' = ~newline

(* append and invalidate.                                                  *)
Record(e) ==
    /\ ledger # Closed /\ Admits(ledger, e)
    /\ Write(e, TRUE)
    /\ ledger' = After(ledger, e)
    /\ returned' = returned \cup {e}
    /\ UNCHANGED <<damage, binding, waivers>>

(* A write that fails or is the last of its process: some of the text, or  *)
(* all of it but the newline, or all of it is in the file.                 *)
RecordFails(e) ==
    /\ ledger # Closed /\ Admits(ledger, e) /\ damage < MaxDamage
    /\ \E text \in {e, Torn}, newline \in BOOLEAN :
          /\ newline => text = e
          /\ Write(text, newline)
    /\ ledger' \in {ledger, Closed}
    /\ damage' = damage + 1
    /\ UNCHANGED <<returned, binding, waivers>>

CloseLedger ==
    /\ ledger # Closed /\ ledger' = Closed
    /\ UNCHANGED <<journal, unended, returned, damage, binding, waivers>>

ReopenSkippingBadLines ==
    /\ ledger = Closed
    /\ ledger' = [entries |-> {e \in Evidence : <<e>> \in {journal[i] : i \in DOMAIN journal}},
                  invalid |-> {e \in EvidenceId : <<e>> \in {journal[i] : i \in DOMAIN journal}}]
    /\ UNCHANGED <<journal, unended, returned, damage, binding, waivers>>

(* open_canonical: a journal that does not replay is refused.              *)
Reopen ==
    /\ ledger = Closed
    /\ Replays /\ ledger' = LedgerAfter(Len(journal))
    /\ UNCHANGED <<journal, unended, returned, damage, binding, waivers>>

(* The project moves on: a commit, a contract or a Model is another one.   *)
Rebind(b) ==
    /\ b # binding /\ binding' = b
    /\ UNCHANGED <<ledgerVars, waivers>>

(* approve, by somebody else than the requester; waivers may expire.       *)
ApproveWaiver(g) == waivers' = waivers \cup {g} /\ UNCHANGED <<ledgerVars, binding>>

WaiverExpires(g) == waivers' = waivers \ {g} /\ UNCHANGED <<ledgerVars, binding>>

ValidationNext ==
    \/ \E e \in Evidence \cup EvidenceId : Record(e) \/ RecordFails(e)
    \/ CloseLedger \/ Reopen
    \/ \E b \in EvidenceBinding : Rebind(b)
    \/ \E g \in Gate : ApproveWaiver(g) \/ WaiverExpires(g)

ValidationSpec == ValidationInit /\ [][ValidationNext]_validationVars

-----------------------------------------------------------------------------
IsCurrent(e) == e.id \notin ledger.invalid /\ e.binding = binding

Candidates(g) == {e \in ledger.entries : e.claim = g /\ e.independent}

(* _evaluate_requirement.                                                  *)
Requirement(g) ==
    LET current == {e \in Candidates(g) : IsCurrent(e)}
        With(o) == {e \in current : e.outcome = o}
    IN CASE With("FAIL") # {} -> "FAIL"
         [] With("FAIL") = {} /\ With("BLOCKED") # {} -> "BLOCKED"
         [] OTHER -> IF Cardinality(With("PASS")) >= MinimumPasses THEN "PASS"
                     ELSE IF Candidates(g) # {} THEN "STALE" ELSE "PENDING"

WorstOfIgnoringStale(states) ==
    IF states \cap {"FAIL", "BLOCKED", "PENDING"} = {} THEN "PASS"
    ELSE CHOOSE s \in states \cap {"FAIL", "BLOCKED", "PENDING"} :
            \A t \in states : s = "FAIL" \/ (t # "FAIL" /\ (s = "BLOCKED" \/ t # "BLOCKED"))

(* The first of FAIL, BLOCKED, STALE and PENDING that occurs.              *)
WorstOf(states) ==
    LET order == <<"FAIL", "BLOCKED", "STALE", "PENDING">>
        occurs == {i \in 1 .. 4 : order[i] \in states}
    IN IF occurs = {} THEN "PASS" ELSE order[CHOOSE i \in occurs : \A j \in occurs : i <= j]

(* evaluate; "REFUSED" stands for the ValidationError of a waiver that the *)
(* gate does not allow, which the evaluation of a gate above raises too.   *)
GateState[g \in Gate] ==
    IF g \in waivers THEN IF g \in Waivable THEN "WAIVED" ELSE "REFUSED"
    ELSE LET below == {GateState[c] : c \in Below[g]}
         IN CASE "REFUSED" \in below -> "REFUSED"
              [] "REFUSED" \notin below /\ WorstOf(below) # "PASS" -> WorstOf(below)
              [] OTHER -> WorstOf({Requirement(g)})

-----------------------------------------------------------------------------
(* A ledger that opens knows all evidence and all invalidations that were  *)
(* ever recorded, whatever lines were cut off or run together; a journal   *)
(* that lost one is refused (append, invalidate, _load_journal).           *)
NoEvidenceIsForgotten ==
    ledger # Closed => returned \subseteq ledger.entries \cup ledger.invalid

(* The gates that count for a gate: below it, and not below a waived one.  *)
CountsFor[g \in Gate] == {g} \cup UNION {CountsFor[h] : h \in Below[g] \ waivers}

Earned(h) ==
    LET current == {e \in ledger.entries :
                      e.claim = h /\ e.independent /\ e.binding = binding /\ e.id \notin ledger.invalid}
    IN /\ \A e \in current : e.outcome = "PASS"
       /\ Cardinality(current) >= MinimumPasses

(* A gate passes if and only if every gate that counts for it has enough   *)
(* passing evidence for the current binding and none against it, and the   *)
(* waivers among them are allowed (GateGraph.evaluate).                    *)
PassIsEarned ==
    ledger # Closed => \A g \in Gate \ waivers :
        GateState[g] = "PASS" <=>
            \A h \in CountsFor[g] : Earned(h) /\ Below[h] \cap waivers \subseteq Waivable
=============================================================================
