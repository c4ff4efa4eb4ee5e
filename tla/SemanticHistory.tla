-------------------------- MODULE SemanticHistory --------------------------
(***************************************************************************)
(* What Project Authority promises (project/authority.py): the accepted    *)
(* semantic revisions of a Project form a history that only grows, and a   *)
(* proposal enters it only as the successor of the revision it was made    *)
(* against.  A proposal never changes.                                     *)
(***************************************************************************)
EXTENDS Naturals, Sequences

CONSTANTS Content, Proposal, NoProposal

VARIABLES history, offered

HistoryInit ==
    /\ history = <<>>
    /\ offered = [p \in Proposal |-> NoProposal]

Found(m) ==
    /\ history = <<>>
    /\ history' = <<m>>
    /\ UNCHANGED offered

Offer(p) ==
    /\ offered[p] = NoProposal
    /\ offered'[p] \in [expected : Nat \ {0}, content : Content]
    /\ offered' = [offered EXCEPT ![p] = offered'[p]]
    /\ UNCHANGED history

Enter(p) ==
    /\ offered[p] # NoProposal
    /\ offered[p].expected = Len(history)
    /\ history' = Append(history, offered[p].content)
    /\ UNCHANGED offered

HistoryNext ==
    \/ \E m \in Content : Found(m)
    \/ \E p \in Proposal : Offer(p) \/ Enter(p)

HistorySpec == HistoryInit /\ [][HistoryNext]_<<history, offered>>
=============================================================================
