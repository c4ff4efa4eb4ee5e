---------------------------- MODULE MC_Services ----------------------------
(***************************************************************************)
(* What the managed runtime does around the lifecycle of an Attempt: the   *)
(* gates and the approval of Envelopes, which share the coordinator, and   *)
(* provider executions, promotions and interaction sessions, which share   *)
(* the fence; the authority under which Attempts are dispatched, and the   *)
(* transports by which all of them are called.  `part` says which of them  *)
(* a behaviour is about; each has its own small instance.                  *)
(***************************************************************************)
EXTENDS Governance, EnvelopeApproval, ProviderExecution, Promotion, InteractionSessions,
        Transport, DispatchAuthority, TLC

CONSTANTS p1, p2, w1, r1, j1, a1, a2, x1, platform, provider1, e1, c1, c2, own, other, model,
          t1, t2, y1, y2, y3, i1, i2, Part

VARIABLE part

MC_WorkstreamOf == [r \in Run |-> w1]
MC_RunOf == [j \in Job |-> r1]
MC_JobOf == [a \in Attempt |-> j1]
MC_EnvelopeOf == [r \in Run |-> e1]

(* Two providers are shipped with their roles; DeepSeek gets its own from  *)
(* the loader that qualifies it.                                           *)
MC_AuthorizedRoles ==
    [id \in ProviderId |-> IF id = "deepseek" THEN {"EXECUTION_IMPLEMENTER"} ELSE ProviderRole]

(* The first Attempt went to one provider and its retry to another one.    *)
MC_DispatchedTo == [a \in Execution |-> IF a = t1 THEN "codex" ELSE "deepseek"]
MC_DispatchedBy == [a \in Execution |-> IF a = t1 THEN y1 ELSE y2]

(* Two incarnations of the host that were given the same port.             *)
MC_PortOf == i1 :> "port" @@ i2 :> "port"

(* A user who approves, an agent whose grant runs out, a provider and a    *)
(* client; other actors are named by their identity.                       *)
Named(id, type, direct, grant) ==
    [id |-> id, type |-> type, authenticated |-> TRUE, direct |-> direct, grant |-> grant]

MC_Principal ==
    {Named("owner", "USER", {"envelope:approve"}, NoGrant),
     Named("agent", "AGENT", {},
           [delegate |-> "agent", actions |-> {"runtime:dispatch", "workspace:access"},
            expires |-> 2]),
     Named("codex", "PROVIDER", {"*"}, NoGrant),
     Named("guest", "USER", {},
           [delegate |-> "agent", actions |-> {"*"}, expires |-> Never])}

(* Envelopes for a provider with a credential that runs out, for another   *)
(* one without a deadline, for work by hand, and one nobody may approve.   *)
MC_Offer ==
    LET codex ==
          [maxAttempts |-> 1, providers |-> {"codex"}, roles |-> {"EXECUTION_IMPLEMENTER"},
           capabilities |-> {"repository_write"}, permissions |-> {"READ", "WRITE"},
           paths |-> {<<"lib">>}, deadline |-> 2, bound |-> TRUE,
           credentials |-> {[id |-> "key", provider |-> "codex", role |-> "EXECUTION_IMPLEMENTER",
                             expires |-> 2, revoked |-> FALSE]}]
    IN {codex,
        [codex EXCEPT !.maxAttempts = 2, !.providers = {"claude"}, !.deadline = Never],
        [codex EXCEPT !.maxAttempts = 2, !.providers = {}, !.roles = {}],
        [codex EXCEPT !.bound = FALSE]}

MC_Order ==
    LET order ==
          [provider |-> "codex", role |-> "EXECUTION_IMPLEMENTER", capabilities |-> {},
           permissions |-> {"WRITE"}, credentials |-> {"key"}, paths |-> {<<"lib", "core">>}]
    IN {order, [order EXCEPT !.provider = "claude", !.credentials = {}, !.paths = {}]}

coordinated == <<vars, plan, governanceVars, envelopeVars>>
executed == <<row, evidenceOf, tree, child, launches, answer, exec>>
promoted ==
    <<directory, workspace, decided, jobState, origin, published, found, receipts, errand>>
visited == <<session, acceptedNumber, basis, visit>>
dispatched == <<time, recordVars, desk>>
serviceVars ==
    <<part, coordinated, fenceVars, executed, promoted, visited, transportVars, dispatched>>

(* The Runs behind the gates are created under an Envelope that is in      *)
(* force already.                                                          *)
UnderApprovedEnvelope ==
    /\ proposal = [e \in Envelope |-> [state |-> "APPROVED", payload |-> c1]]
    /\ envelope = [e \in Envelope |-> c1]

ServicesInit ==
    /\ part \in Part
    /\ GovernedInit /\ ExecutionInit /\ PromotionInit /\ SessionInit /\ TransportInit
    /\ AuthorityInit
    /\ IF part = "gates" THEN UnderApprovedEnvelope ELSE EnvelopeInit

Gating ==
    /\ part = "gates" /\ GovernedNext
    /\ UNCHANGED <<part, envelopeVars, fenceVars, executed, promoted, visited, transportVars,
                   dispatched>>

Approving ==
    /\ part = "envelopes" /\ EnvelopeNext
    /\ UNCHANGED <<part, governanceVars, fenceVars, executed, promoted, visited, transportVars,
                   dispatched>>

Executing ==
    /\ part = "execution" /\ ExecutionNext
    /\ UNCHANGED <<part, coordinated, promoted, visited, transportVars, dispatched>>

Promoting ==
    /\ part = "promotion" /\ PromotionNext
    /\ UNCHANGED <<part, coordinated, executed, visited, transportVars, dispatched>>

Conversing ==
    /\ part = "sessions" /\ SessionNext
    /\ UNCHANGED <<part, coordinated, executed, promoted, transportVars, dispatched>>

Calling ==
    /\ part = "calls" /\ TransportNext
    /\ UNCHANGED <<part, coordinated, fenceVars, executed, promoted, visited, dispatched>>

Authorizing ==
    /\ part = "authority" /\ AuthorityNext
    /\ UNCHANGED <<part, coordinated, executed, promoted, visited, transportVars>>

ServicesNext == Gating \/ Approving \/ Executing \/ Promoting \/ Conversing \/ Calling \/ Authorizing

ServicesSpec == ServicesInit /\ [][ServicesNext]_serviceVars

(* The two members of each set may be exchanged; a behaviour is about one  *)
(* of these sets only, so that all of them are exchanged at a time.        *)
Pairs == {Attempt, RequiredGate, Workspace, Session, Caller, Try}

Exchange ==
    [x \in UNION Pairs |->
        CHOOSE y \in UNION Pairs : y # x /\ \E pair \in Pairs : {x, y} \subseteq pair]

ServiceSymmetry == Permutations(Process) \cup {Exchange}
=============================================================================
