------------------------- MODULE DispatchAuthority -------------------------
(***************************************************************************)
(* Who may do what under an Execution Envelope: actors, grants and         *)
(* credentials that expire (runtime/models.py), the approval of an         *)
(* Envelope version, the Attempts counted under it and the authorization   *)
(* to dispatch one (runtime/coordinator.py), each checked before the       *)
(* transaction of runtime/store.py that writes it.                         *)
(* One Project, one version of one Envelope, one ProjectJob; the lifecycle *)
(* of Attempts is that of ExecutionCoordinator.  A fingerprint is what it  *)
(* is taken of, a path is the sequence of its segments.                    *)
(***************************************************************************)
EXTENDS FencedWorkers, FiniteSets, Sequences

LOCAL INSTANCE SequencesExt

CONSTANTS
    Try,             \* identifiers of Attempts
    Principal,       \* actors a request may name in full
    Alias,           \* actors a request may name by their identity only
    Offer,           \* what may be offered as an Envelope
    Order,           \* what a dispatch may ask for
    MaxTime,         \* bound on the clock
    Never,           \* no expiry, no deadline
    NoGrant,
    NoTerms,
    Unauthorized

(* What _execution_envelope reads from a request, as far as it authorizes. *)
EnvelopeFields ==
    {"maxAttempts", "providers", "roles", "capabilities", "permissions", "paths", "deadline",
     "bound", "credentials"}

ASSUME AuthorityAssumption ==
    /\ \A o \in Offer : DOMAIN o = EnvelopeFields /\ o.maxAttempts \in Nat
    /\ NoTerms \notin Offer
    /\ IsFiniteSet(Try)
    /\ MaxTime \in Nat

VARIABLES
    time,            \* the clock
    terms,           \* the Envelope in force
    running,         \* whether the Run exists
    tries,           \* attempts: state and ordinal
    authorization,   \* dispatch_authorizations
    desk             \* the request each worker is at

recordVars == <<terms, running, tries, authorization>>

authorityVars == <<fenceVars, time, recordVars, desk>>

Free == [step |-> "free"]

AuthorityInit ==
    /\ FencedInit
    /\ time = 1
    /\ terms = NoTerms
    /\ running = FALSE
    /\ tries = [t \in Try |-> [state |-> "ABSENT", ordinal |-> 0]]
    /\ authorization = [t \in Try |-> Unauthorized]
    /\ desk = [w \in Worker |-> Free]

-----------------------------------------------------------------------------
(* Actors.                                                                 *)
ActorType ==
    {"USER", "ARTIFEX_SERVICE", "INTERACTION_CLIENT", "PROVIDER", "AGENT",
     "AUTOMATION_SYSTEM_ACTOR"}

Before(now, limit) == limit # Never => now < limit

(* DelegationGrant.permits; the time of issue is not looked at.            *)
GrantPermits(grant, id, action, now) ==
    /\ grant # NoGrant
    /\ grant.delegate = id
    /\ Before(now, grant.expires)
    /\ {action, "*"} \cap grant.actions # {}

(* What _required_actor makes of a request, and ActorPrincipal refuses.    *)
IsPrincipal(x) ==
    /\ x.type \in ActorType
    /\ x.grant # NoGrant => x.grant.delegate = x.id

(* actor_principal: an identity alone is trusted inside the process.       *)
Adapted(id) ==
    [id |-> id, grant |-> NoGrant,
     type |-> IF id = "anonymous" THEN "INTERACTION_CLIENT"
              ELSE IF id = "managed-service-local-client" THEN "USER" ELSE "ARTIFEX_SERVICE",
     authenticated |-> id # "anonymous",
     direct |-> IF id \in {"anonymous", "managed-service-local-client"} THEN {} ELSE {"*"}]

Principals == {x \in Principal : IsPrincipal(x)} \cup {Adapted(id) : id \in Alias}

Authenticated(x) == x.authenticated /\ x.id # "anonymous"

(* ActorPrincipal.require                                                  *)
MayDo(x, action, now) ==
    /\ Authenticated(x)
    /\ {action, "*"} \cap x.direct # {} \/ GrantPermits(x.grant, x.id, action, now)

-----------------------------------------------------------------------------
(* Envelopes.                                                              *)
IsEnvelope(o) ==
    /\ o.maxAttempts > 0 /\ o.paths # {}
    /\ o.providers # {} <=> o.roles # {}
    /\ "provider:codex" \in o.capabilities => "codex" \in o.providers
    /\ o.providers # {} => o.bound

(* A proposed Envelope spells out all of its fields, the deadline too.     *)
IsFullyGoverned(o) == o.deadline # Never

CredentialPermits(c, provider, role, now) ==
    ~c.revoked /\ c.provider = provider /\ c.role = role /\ Before(now, c.expires)

AuthorizesPath(o, path, permission) ==
    permission \in o.permissions /\ \E owner \in o.paths : IsPrefix(owner, path)

(* What authorize_attempt_dispatch asks of an order under an Envelope.     *)
OrderWithin(d, o, now) ==
    /\ d.provider \in o.providers /\ d.role \in o.roles
    /\ d.capabilities \subseteq o.capabilities
    /\ d.permissions \subseteq o.permissions
    /\ Before(now, o.deadline)
    /\ \A id \in d.credentials : \E c \in o.credentials :
          c.id = id /\ CredentialPermits(c, d.provider, d.role, now)

MayDispatch(x, now) ==
    /\ MayDo(x, "runtime:dispatch", now)
    /\ x.type \in {"ARTIFEX_SERVICE", "AGENT", "AUTOMATION_SYSTEM_ACTOR"}

(* The three actors of a provider execution.                               *)
ExecutionActors(x, provider, witness) ==
    /\ provider.type = "PROVIDER" /\ witness.type = "ARTIFEX_SERVICE"
    /\ Cardinality({x.id, provider.id, witness.id}) = 3

-----------------------------------------------------------------------------
(* A request is prepared from what is read and checked ...                 *)
Prepare(w, request) ==
    /\ desk' = [desk EXCEPT ![w] = request]
    /\ UNCHANGED <<fenceVars, time, recordVars>>

(* ... and written in a transaction that asserts the fence.                *)
Commit(w, step) ==
    /\ desk[w].step = step
    /\ fence = w
    /\ desk' = [desk EXCEPT ![w] = Free]
    /\ UNCHANGED <<fenceVars, time>>

(* bootstrap_run approves what it is given, envelope.approve what was      *)
(* proposed.                                                               *)
BeginApproval(w, x, o, proposed) ==
    /\ IsEnvelope(o)
    /\ proposed => IsFullyGoverned(o)
    /\ x.type \notin {"PROVIDER", "AUTOMATION_SYSTEM_ACTOR", "INTERACTION_CLIENT"}
    /\ MayDo(x, "envelope:approve", time)
    /\ Prepare(w, [step |-> "approve", offer |-> o])

PutTermsAgain(w) ==
    /\ Commit(w, "approve")
    /\ terms' = desk[w].offer
    /\ UNCHANGED <<running, tries, authorization>>

(* put_envelope: an approved version is immutable.                         *)
PutTerms(w) ==
    /\ Commit(w, "approve")
    /\ terms \in {NoTerms, desk[w].offer}
    /\ terms' = desk[w].offer
    /\ UNCHANGED <<running, tries, authorization>>

BeginRun(w, x) ==
    /\ terms # NoTerms
    /\ Before(time, terms.deadline)
    /\ Authenticated(x)
    /\ Prepare(w, [step |-> "run"])

InsertRun(w) ==
    /\ Commit(w, "run")
    /\ ~running
    /\ running' = TRUE
    /\ UNCHANGED <<terms, tries, authorization>>

Counted == {t \in Try : tries[t].state # "ABSENT"}

(* create_attempt counts before the transaction ...                        *)
BeginTry(w, x, t) ==
    /\ running /\ Authenticated(x)
    /\ Cardinality(Counted) + 1 <= terms.maxAttempts
    /\ Prepare(w, [step |-> "try", try |-> t, ordinal |-> Cardinality(Counted) + 1])

(* ... in which the identity and the ordinal must be free.                 *)
InsertTry(w) ==
    /\ Commit(w, "try")
    /\ tries[desk[w].try].state = "ABSENT"
    /\ \A t \in Counted : tries[t].ordinal # desk[w].ordinal
    /\ tries' = [tries EXCEPT ![desk[w].try] =
                    [state |-> "PENDING", ordinal |-> desk[w].ordinal]]
    /\ UNCHANGED <<terms, running, authorization>>

(* The execution of a provider names the paths it will own and the actors  *)
(* that report and witness it; a bare authorization names neither.         *)
BeginDispatch(w, x, t, d) ==
    /\ tries[t].state = "PENDING" /\ terms.providers # {}
    /\ d.paths # {} =>
          /\ \E provider, witness \in Principals : ExecutionActors(x, provider, witness)
          /\ MayDo(x, "workspace:access", time)
          /\ \A path \in d.paths : AuthorizesPath(terms, path, "WRITE")
    /\ Prepare(w, [step |-> "dispatch", who |-> x, try |-> t, order |-> d])

(* authorize_attempt_dispatch: the time it goes by is read once.           *)
Authorize(w) ==
    /\ desk[w].step = "dispatch" /\ fence = w
    /\ tries[desk[w].try].state = "PENDING"
    /\ MayDispatch(desk[w].who, time)
    /\ OrderWithin(desk[w].order, terms, time)
    /\ desk' = [desk EXCEPT ![w] =
          [step |-> "record", try |-> desk[w].try,
           authorization |-> [order |-> desk[w].order, who |-> desk[w].who,
                              terms |-> terms, at |-> time]]]
    /\ UNCHANGED <<fenceVars, time, recordVars>>

(* An Attempt is authorized once.                                          *)
RecordAuthorization(w) ==
    /\ Commit(w, "record")
    /\ authorization[desk[w].try] = Unauthorized
    /\ authorization' = [authorization EXCEPT ![desk[w].try] = desk[w].authorization]
    /\ UNCHANGED <<terms, running, tries>>

(* start_attempt looks for an authorization, not at the time or the grant. *)
BeginStart(w, x, t) ==
    /\ tries[t].state = "PENDING" /\ Authenticated(x)
    /\ terms.providers # {} => authorization[t] # Unauthorized
    /\ Prepare(w, [step |-> "start", try |-> t])

StartTry(w) ==
    /\ Commit(w, "start")
    /\ tries[desk[w].try].state = "PENDING"
    /\ tries' = [tries EXCEPT ![desk[w].try].state = "RUNNING"]
    /\ UNCHANGED <<terms, running, authorization>>

(* A check or a constraint raises, or the process dies.                    *)
Withdraw(w) ==
    /\ desk[w] # Free
    /\ desk' = [desk EXCEPT ![w] = Free]
    /\ UNCHANGED <<fenceVars, time, recordVars>>

ReplaceClerk(w) ==
    /\ TakeFence(w)
    /\ desk' = [desk EXCEPT ![w] = Free]
    /\ UNCHANGED <<time, recordVars>>

Tick ==
    /\ time < MaxTime
    /\ time' = time + 1
    /\ UNCHANGED <<fenceVars, recordVars, desk>>

-----------------------------------------------------------------------------
(* What a worker that has lost the fence prepares is never written and     *)
(* left out.                                                               *)
AuthorityNext ==
    \/ Tick
    \/ \E w \in Worker :
        \/ /\ desk[w] = Free /\ fence = w
           /\ \E x \in Principals :
                 \/ \E o \in Offer, proposed \in BOOLEAN : BeginApproval(w, x, o, proposed)
                 \/ BeginRun(w, x)
                 \/ \E t \in Try :
                       \/ BeginTry(w, x, t)
                       \/ BeginStart(w, x, t)
                       \/ \E d \in Order : BeginDispatch(w, x, t, d)
        \/ PutTerms(w)
        \/ InsertRun(w)
        \/ InsertTry(w)
        \/ Authorize(w)
        \/ RecordAuthorization(w)
        \/ StartTry(w)
        \/ Withdraw(w)
        \/ ReplaceClerk(w)

AuthoritySpec == AuthorityInit /\ [][AuthorityNext]_authorityVars

-----------------------------------------------------------------------------
(* What runs, runs within the authority in force: there are no more        *)
(* Attempts than the Envelope allows, an Attempt of a provider was         *)
(* authorized by somebody who could, for no more than the Envelope as it   *)
(* stands grants - although everything is checked before the transaction   *)
(* that writes it, and an incarnation may be replaced in between           *)
(* (put_envelope, create_attempt, authorize_attempt_dispatch).             *)
DispatchedWithinAuthority ==
    /\ Counted # {} => terms # NoTerms /\ Cardinality(Counted) <= terms.maxAttempts
    /\ \A t \in Try : tries[t].state = "RUNNING" /\ terms.providers # {} =>
          /\ authorization[t] # Unauthorized /\ authorization[t].terms = terms
          /\ MayDispatch(authorization[t].who, authorization[t].at)
          /\ OrderWithin(authorization[t].order, terms, authorization[t].at)
=============================================================================
