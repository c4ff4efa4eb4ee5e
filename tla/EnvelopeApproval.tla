------------------------- MODULE EnvelopeApproval -------------------------
(***************************************************************************)
(* Execution Envelopes: proposals, approval, and the Runs created under an *)
(* approved version: bootstrap_run (runtime/service.py) and the envelope   *)
(* requests of application/api.py, over two tables of runtime/store.py.    *)
(* Nothing but the fence orders a proposal, its approval and a bootstrap   *)
(* that brings an Envelope of its own.                                     *)
(***************************************************************************)
EXTENDS ServiceCall

CONSTANTS
    Envelope,        \* (envelope_id, version) pairs
    EnvelopeOf,      \* EnvelopeOf[r]: the Envelope a Run names
    Content,         \* what an Envelope may say
    NoContent

ASSUME EnvelopeAssumption ==
    /\ EnvelopeOf \in [Run -> Envelope]
    /\ NoContent \notin Content

VARIABLES
    proposal,        \* envelope_proposals: state and payload
    envelope         \* envelopes: the approved payload, or NoContent

envelopeVars == <<proposal, envelope>>

approvalVars == <<vars, plan, envelopeVars>>

EnvelopeInit ==
    /\ CallInit
    /\ proposal = [e \in Envelope |-> [state |-> "ABSENT", payload |-> NoContent]]
    /\ envelope = [e \in Envelope |-> NoContent]

-----------------------------------------------------------------------------
CallProposeEnvelope(p, e, c) ==
    /\ BeginPlan(p, "propose", [envelope |-> e, payload |-> c])
    /\ UNCHANGED envelopeVars

(* The primary key admits one proposal of a version.                       *)
ProposeEnvelope(p) ==
    LET e == plan[p].envelope
    IN /\ call[p] = "propose"
       /\ proposal[e].state = "ABSENT"
       /\ RecordEvent(p)
       /\ proposal' = [proposal EXCEPT ![e] = [state |-> "PROPOSED", payload |-> plan[p].payload]]
       /\ ReturnPlan(p)
       /\ UNCHANGED <<columns, envelope>>

(* bootstrap_run approves the Envelope it is given; envelope.approve the   *)
(* one that was proposed, whatever the state of the proposal.              *)
CallApproveGiven(p, e, c) ==
    /\ BeginPlan(p, "approve", [envelope |-> e, payload |-> c, marks |-> FALSE])
    /\ UNCHANGED envelopeVars

CallApproveProposed(p, e) ==
    /\ proposal[e].state # "ABSENT"
    /\ BeginPlan(p, "approve", [envelope |-> e, payload |-> proposal[e].payload, marks |-> TRUE])
    /\ UNCHANGED envelopeVars

PutEnvelopeOverwrites(p) ==
    LET e == plan[p].envelope
    IN /\ call[p] = "approve"
       /\ RecordEvent(p)
       /\ envelope' = [envelope EXCEPT ![e] = plan[p].payload]
       /\ IF plan[p].marks THEN Continue(p, "mark_approved") /\ UNCHANGED plan ELSE ReturnPlan(p)
       /\ UNCHANGED <<columns, proposal>>

(* put_envelope: idempotent for the same payload, refused for another one. *)
PutEnvelope(p) ==
    LET e == plan[p].envelope
    IN /\ call[p] = "approve"
       /\ envelope[e] \in {NoContent, plan[p].payload}
       /\ RecordEvent(p)
       /\ envelope' = [envelope EXCEPT ![e] = plan[p].payload]
       /\ IF plan[p].marks THEN Continue(p, "mark_approved") /\ UNCHANGED plan ELSE ReturnPlan(p)
       /\ UNCHANGED <<columns, proposal>>

(* A second transaction of the same call; a crash in between leaves an     *)
(* approved Envelope whose proposal is still PROPOSED.                     *)
MarkProposalApproved(p) ==
    LET e == plan[p].envelope
    IN /\ call[p] = "mark_approved"
       /\ proposal[e].state = "PROPOSED"
       /\ RecordEvent(p)
       /\ proposal' = [proposal EXCEPT ![e].state = "APPROVED"]
       /\ ReturnPlan(p)
       /\ UNCHANGED <<columns, envelope>>

(* create_run reads the Envelope before it inserts.                        *)
CallCreateRunUnder(p, r) ==
    /\ envelope[EnvelopeOf[r]] # NoContent
    /\ CallCreateRun(p, r)
    /\ UNCHANGED <<envelopeVars, plan>>

-----------------------------------------------------------------------------
Propose(p) ==
    \/ \E e \in Envelope, c \in Content : CallProposeEnvelope(p, e, c)
    \/ ProposeEnvelope(p)

Approve(p) ==
    \/ \E e \in Envelope, c \in Content : CallApproveGiven(p, e, c)
    \/ \E e \in Envelope : CallApproveProposed(p, e)
    \/ PutEnvelope(p)
    \/ MarkProposalApproved(p)

CreateUnder(p) ==
    \/ \E r \in Run : CallCreateRunUnder(p, r)
    \/ /\ CreateRun(p) \/ CreateWorkstream(p) \/ \E w \in Workstream : CallCreateWorkstream(p, w)
       /\ UNCHANGED <<envelopeVars, plan>>

EnvelopeNext ==
    \E p \in Process :
        \/ IncarnationDropsPlan(p) /\ UNCHANGED envelopeVars
        \/ Propose(p)
        \/ Approve(p)
        \/ CreateUnder(p)

EnvelopeSpec == EnvelopeInit /\ [][EnvelopeNext]_approvalVars

-----------------------------------------------------------------------------
(* A proposal that is marked APPROVED is the Envelope in force, also when  *)
(* bootstrap_run approved the same version with another payload or the     *)
(* approval was interrupted and repeated; and a Run has an Envelope.       *)
ApprovedProposalsAreInForce ==
    /\ \A e \in Envelope : proposal[e].state = "APPROVED" => envelope[e] = proposal[e].payload
    /\ \A r \in Run : db[r] # "ABSENT" => envelope[EnvelopeOf[r]] # NoContent

=============================================================================
