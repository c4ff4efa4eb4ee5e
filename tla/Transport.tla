----------------------------- MODULE Transport -----------------------------
(***************************************************************************)
(* How an operation of the Application (application/api.py) is called: by  *)
(* a command of the command line, by a line to the MCP server (mcp.py),    *)
(* both of which run it in their own process, or over the loopback socket  *)
(* of the managed service (LocalServiceClient, ManagedServiceHost).        *)
(*                                                                         *)
(* A Caller makes one call.  A HostRun is one incarnation of the host.  An *)
(* operation is what its handler touches; ServiceHost has the details of   *)
(* how a host comes and goes.                                              *)
(***************************************************************************)
EXTENDS Naturals

CONSTANTS
    Caller,
    HostRun, PortOf, NoHostRun,
    Reached          \* footprints the callers of an instance ask for

VARIABLES
    up,              \* the incarnation that listens
    opening,         \* the incarnation that starts
    advert,          \* service-state.json
    credential,      \* the transport token file
    opened,          \* who holds the newest fence of the host's RunStore
    past,            \* incarnations that were started
    inbox,           \* requests the listening host has not handled
    conv,            \* conv[c]: the call of c
    effect           \* effect[c]: how often it ran, where, and fenced or not

transportVars == <<up, opening, advert, credential, opened, past, inbox, conv, effect>>

-----------------------------------------------------------------------------
(* What each handler touches: nothing that lasts, files it only reads, a   *)
(* Project, the machine's installation, or the managed runtime, which the  *)
(* handlers that only look into it open as well.                           *)
SystemOperations ==
    [version |-> "nothing", health |-> "nothing", operations |-> "nothing", doctor |-> "reads"]

IntegrationOperations ==
    [list |-> "nothing", health |-> "nothing", select |-> "nothing", conformance |-> "nothing"]

ProviderOperations ==
    [graph |-> "reads", readiness |-> "reads", resolve |-> "reads", interact |-> "project",
     certifications |-> "reads"]

ProjectOperations ==
    [status |-> "reads", create |-> "project", adopt |-> "project", continue |-> "project",
     propose |-> "project", accept |-> "project", observe |-> "project"]

MigrationOperations ==
    [inspect |-> "reads", plan |-> "machine", apply |-> "project", validate |-> "reads",
     rollback_plan |-> "machine", rollback |-> "project"]

KnowledgeOperations ==
    [promote |-> "project", lesson_record |-> "project", search |-> "reads",
     recommend |-> "project", adopt |-> "project", migration_inspect |-> "reads",
     migration_quarantine |-> "project"]

DocumentationOperations ==
    [reality_state |-> "reads", status |-> "reads", regenerate |-> "project",
     dashboard_project |-> "reads", dashboard_platform |-> "reads"]

InteractionOperations ==
    [open |-> "runtime", disconnect |-> "runtime", reconnect |-> "runtime", close |-> "runtime",
     list |-> "inspects", semantic_submit |-> "runtime", lifecycle_advance |-> "runtime"]

GovernanceOperations ==
    [decision_request |-> "runtime", decision_resolve |-> "runtime",
     envelope_propose |-> "runtime", envelope_approve |-> "runtime",
     control_set |-> "runtime", control_status |-> "inspects"]

RuntimeOperations ==
    [bootstrap |-> "runtime", authorize |-> "runtime", status |-> "inspects",
     finish |-> "runtime", cancel |-> "runtime", unknown |-> "runtime", reconcile |-> "runtime",
     retry |-> "runtime", accept |-> "runtime", workspace_create |-> "runtime",
     workspace_promote |-> "runtime", provider_execute |-> "runtime"]

ManualOperations == [packet_create |-> "nothing", result_submit |-> "nothing"]

ResearchOperations ==
    [request_validate |-> "nothing", bundle_validate |-> "nothing", readiness |-> "reads",
     request |-> "machine", import |-> "reads", adoption_propose |-> "project"]

SetupOperations ==
    [discover |-> "reads", presentation |-> "nothing", plan |-> "machine", apply |-> "project",
     doctor |-> "reads", bootstrap |-> "reads", start |-> "project"]

DistributionOperations ==
    [install_plan |-> "machine", install |-> "machine", upgrade |-> "machine",
     upgrade_plan |-> "machine", uninstall_plan |-> "machine", uninstall |-> "machine"]

FootprintsOf(table) == {table[name] : name \in DOMAIN table}

Registered ==
    UNION {FootprintsOf(SystemOperations), FootprintsOf(IntegrationOperations),
           FootprintsOf(ProviderOperations), FootprintsOf(ProjectOperations),
           FootprintsOf(MigrationOperations), FootprintsOf(KnowledgeOperations),
           FootprintsOf(DocumentationOperations), FootprintsOf(InteractionOperations),
           FootprintsOf(GovernanceOperations), FootprintsOf(RuntimeOperations),
           FootprintsOf(ManualOperations), FootprintsOf(ResearchOperations),
           FootprintsOf(SetupOperations), FootprintsOf(DistributionOperations)}

(* The commands, by the operations they emit.  None of them names one of   *)
(* the runtime, but `call` takes the name of any operation.                *)
SystemCommands == {SystemOperations[n] : n \in {"health", "version", "operations"}}
                  \cup {SetupOperations[n] : n \in {"doctor", "bootstrap"}}

MigrationCommands == FootprintsOf(MigrationOperations)

LifecycleCommands == FootprintsOf(DistributionOperations)
                     \cup {SetupOperations[n] : n \in DOMAIN SetupOperations}

CallCommand == Registered \cup {"unregistered"}

IntegrationCommands == FootprintsOf(IntegrationOperations)

ProjectCommands == FootprintsOf(ProjectOperations)

ViewCommands == FootprintsOf(DocumentationOperations)

ExchangeCommands == FootprintsOf(ManualOperations) \cup FootprintsOf(ResearchOperations)

Commands == UNION {SystemCommands, MigrationCommands, LifecycleCommands, CallCommand,
                   IntegrationCommands, ProjectCommands, ViewCommands, ExchangeCommands}

(* service status and service stop are answered by the transport itself.   *)
ServiceCommands == CallCommand \cup {"service.status", "service.shutdown"}

-----------------------------------------------------------------------------
(* A call names a RunStore (store_path): none, the host's, or another one. *)
NoCall == [via |-> "none", step |-> "idle", what |-> "none", store |-> "none", at |-> NoHostRun,
           key |-> NoHostRun, reply |-> "none", told |-> "none"]

Down == [lifecycle |-> "STOPPED", at |-> NoHostRun]

ASSUME TransportAssumption ==
    /\ NoHostRun \notin HostRun \cup Caller
    /\ Reached \subseteq Commands \cup ServiceCommands

TransportInit ==
    /\ up = NoHostRun /\ opening = NoHostRun
    /\ advert = Down
    /\ credential = NoHostRun /\ opened = NoHostRun
    /\ past = {} /\ inbox = {}
    /\ conv = [c \in Caller |-> NoCall]
    /\ effect = [c \in Caller |-> [times |-> 0, where |-> "none", fenced |-> TRUE]]

hostVars == <<up, opening, advert, credential, past>>

Step(c, step) == conv' = [conv EXCEPT ![c].step = step]

Tell(c, told) ==
    conv' = [conv EXCEPT ![c] = [NoCall EXCEPT !.step = "done", !.what = conv[c].what,
                                               !.store = conv[c].store, !.told = told]]

OpensRuntime(what) == what \in {"runtime", "inspects"}

(* store_path matters to the handlers that open the runtime.               *)
StoreArgument(what) == IF OpensRuntime(what) THEN {"none", "host", "other"} ELSE {"none"}

Ran(c, where, fenced) ==
    effect' = [effect EXCEPT ![c] = [times |-> @.times + 1, where |-> where, fenced |-> fenced]]

-----------------------------------------------------------------------------
(* The host, as callers see it.                                            *)
HostOpens(i) ==
    /\ up = NoHostRun /\ opening = NoHostRun /\ i \notin past
    /\ opening' = i /\ past' = past \cup {i}
    /\ opened' = i /\ credential' = i
    /\ UNCHANGED <<up, advert, inbox, conv, effect>>

HostListens ==
    /\ opening # NoHostRun
    /\ up' = opening /\ opening' = NoHostRun
    /\ advert' = [lifecycle |-> "RUNNING", at |-> opening]
    /\ UNCHANGED <<credential, opened, past, inbox, conv, effect>>

(* stop: the socket closes, then the state is written and the token goes.  *)
HostStops ==
    /\ up # NoHostRun
    /\ up' = NoHostRun /\ opening' = NoHostRun /\ inbox' = {}
    /\ advert' = [advert EXCEPT !.lifecycle = "STOPPED"]
    /\ credential' = NoHostRun
    /\ UNCHANGED <<opened, past, conv, effect>>

HostCrashes ==
    /\ up # NoHostRun \/ opening # NoHostRun
    /\ up' = NoHostRun /\ opening' = NoHostRun /\ inbox' = {}
    /\ UNCHANGED <<advert, credential, opened, past, conv, effect>>

-----------------------------------------------------------------------------
(* LocalServiceClient.call: the state file ... An error says which of the  *)
(* three steps failed.                                                     *)
ReadServiceState(c, what, store) ==
    /\ conv[c].step = "idle" /\ what \in ServiceCommands
    /\ conv' = [conv EXCEPT ![c] =
           IF advert.lifecycle = "RUNNING"
           THEN [NoCall EXCEPT !.via = "service", !.step = "found", !.what = what,
                               !.store = store, !.at = advert.at]
           ELSE [NoCall EXCEPT !.step = "done", !.told = "absent"]]
    /\ UNCHANGED <<hostVars, opened, inbox, effect>>

(* ... then the token ...                                                  *)
ReadCredential(c) ==
    /\ conv[c].step = "found"
    /\ IF credential = NoHostRun THEN Tell(c, "absent")
       ELSE conv' = [conv EXCEPT ![c] = [@ EXCEPT !.step = "armed", !.key = credential]]
    /\ UNCHANGED <<hostVars, opened, inbox, effect>>

(* ... then the line is sent to whoever listens on that port by now.       *)
Answers(i, at) == i # NoHostRun /\ PortOf[i] = PortOf[at]

SendRequest(c) ==
    /\ conv[c].step = "armed"
    /\ IF Answers(up, conv[c].at)
       THEN Step(c, "sent") /\ inbox' = inbox \cup {c}
       ELSE Tell(c, "unavailable") /\ UNCHANGED inbox
    /\ UNCHANGED <<hostVars, opened, effect>>

(* _runtime_service in a host: an argument may repeat the host's store but *)
(* not name another one.                                                   *)
HostedIgnoresStore(store) == TRUE

HostedAccepts(store) == store # "other"

(* _dispatch_transport.  Anything that opens the runtime runs under the    *)
(* host's authority; a host that lost the fence changes nothing.           *)
HostRefuses(c) ==
    /\ c \in inbox /\ conv[c].key # up
    /\ inbox' = inbox \ {c}
    /\ conv' = [conv EXCEPT ![c].reply = "unauthorized"]
    /\ UNCHANGED <<hostVars, opened, effect>>

HostSucceeds(c) ==
    /\ c \in inbox /\ conv[c].key = up
    /\ conv[c].what # "unregistered"
    /\ OpensRuntime(conv[c].what) => HostedAccepts(conv[c].store)
    /\ conv[c].what = "runtime" => opened = up
    /\ Ran(c, IF OpensRuntime(conv[c].what) THEN "host" ELSE "none", opened = up)
    /\ inbox' = inbox \ {c}
    /\ conv' = [conv EXCEPT ![c].reply = "ok"]
    /\ UNCHANGED <<hostVars, opened>>

HostFails(c) ==
    /\ c \in inbox /\ conv[c].key = up
    /\ conv[c].what \notin {"service.status", "service.shutdown"}
    /\ inbox' = inbox \ {c}
    /\ conv' = [conv EXCEPT ![c].reply = "failed"]
    /\ UNCHANGED <<hostVars, opened, effect>>

(* The answer arrives and is for this request.                             *)
Receive(c) ==
    /\ conv[c].step = "sent" /\ conv[c].reply # "none"
    /\ Tell(c, IF conv[c].reply = "unauthorized" THEN "refused" ELSE conv[c].reply)
    /\ UNCHANGED <<hostVars, opened, inbox, effect>>

(* A timeout, a host that went away or an answer that is no frame: the     *)
(* request itself may still be waiting for the host, and run.  The caller  *)
(* is told what it is told when nobody listens on the port.                *)
GiveUp(c) ==
    /\ conv[c].step = "sent"
    /\ conv' = [conv EXCEPT ![c] = [@ EXCEPT !.step = "done", !.told = "unavailable"]]
    /\ UNCHANGED <<hostVars, opened, inbox, effect>>

-----------------------------------------------------------------------------
(* In-process: dispatch finds the handler; one that needs the runtime      *)
(* opens the store it is given and takes its fence, the host's included.   *)
RunsInProcess(via, what, store) ==
    [NoCall EXCEPT !.via = via, !.step = "running", !.what = what, !.store = store]

DispatchFails(what, store) == what = "unregistered" \/ (OpensRuntime(what) /\ store = "none")

DispatchInProcess(c, via, what, store) ==
    /\ conv' = [conv EXCEPT ![c] =
           IF DispatchFails(what, store)
           THEN [RunsInProcess(via, what, store) EXCEPT !.step = "handled", !.reply = "failed"]
           ELSE RunsInProcess(via, what, store)]
    /\ opened' = IF ~DispatchFails(what, store) /\ OpensRuntime(what) /\ store = "host"
                 THEN c ELSE opened
    /\ UNCHANGED <<hostVars, inbox, effect>>

Emit(c, what, store) ==
    /\ conv[c].step = "idle" /\ what \in Commands
    /\ DispatchInProcess(c, "cli", what, store)

(* handle_message: what is not a request object is answered with an error, *)
(* and so is a method the server does not have.                            *)
McpRejects(c) ==
    /\ conv[c].step = "idle"
    /\ Tell(c, "refused")
    /\ UNCHANGED <<hostVars, opened, inbox, effect>>

(* initialize, ping and tools/list.                                        *)
McpDescribes(c) ==
    /\ conv[c].step = "idle"
    /\ Tell(c, "described")
    /\ UNCHANGED <<hostVars, opened, inbox, effect>>

McpCalls(c, what, store) ==
    /\ conv[c].step = "idle" /\ what \in CallCommand
    /\ DispatchInProcess(c, "mcp", what, store)

HandlerSucceeds(c) ==
    /\ conv[c].step = "running"
    /\ conv[c].what = "runtime" /\ conv[c].store = "host" => opened = c
    /\ Ran(c, IF OpensRuntime(conv[c].what) THEN conv[c].store ELSE "none",
           conv[c].store = "host" => opened = c)
    /\ conv' = [conv EXCEPT ![c] = [@ EXCEPT !.step = "handled", !.reply = "ok"]]
    /\ UNCHANGED <<hostVars, opened, inbox>>

HandlerFails(c) ==
    /\ conv[c].step = "running"
    /\ conv' = [conv EXCEPT ![c] = [@ EXCEPT !.step = "handled", !.reply = "failed"]]
    /\ UNCHANGED <<hostVars, opened, inbox, effect>>

(* The command prints and exits, zero only for ok.                         *)
Exits(c) ==
    /\ conv[c].step = "handled" /\ conv[c].via = "cli"
    /\ Tell(c, conv[c].reply)
    /\ UNCHANGED <<hostVars, opened, inbox, effect>>

(* The server writes a line; a notification gets none.                     *)
McpAnswers(c) ==
    /\ conv[c].step = "handled" /\ conv[c].via = "mcp"
    /\ \E told \in {conv[c].reply, "silence"} : Tell(c, told)
    /\ UNCHANGED <<hostVars, opened, inbox, effect>>

CallerDies(c) ==
    /\ conv[c].step \in {"running", "handled"}
    /\ Tell(c, "silence")
    /\ UNCHANGED <<hostVars, opened, inbox, effect>>

TransportNext ==
    \/ \E i \in HostRun : HostOpens(i)
    \/ HostListens \/ HostStops \/ HostCrashes
    \/ \E c \in Caller, what \in Reached : \E store \in StoreArgument(what) :
          ReadServiceState(c, what, store) \/ Emit(c, what, store) \/ McpCalls(c, what, store)
    \/ \E c \in Caller :
          \/ ReadCredential(c) \/ SendRequest(c) \/ Receive(c) \/ GiveUp(c)
          \/ HostRefuses(c) \/ HostSucceeds(c) \/ HostFails(c)
          \/ McpRejects(c) \/ McpDescribes(c)
          \/ HandlerSucceeds(c) \/ HandlerFails(c)
          \/ Exits(c) \/ McpAnswers(c) \/ CallerDies(c)

TransportSpec == TransportInit /\ [][TransportNext]_transportVars

-----------------------------------------------------------------------------
(* Hosts come and go between the reading of the state, of the token and    *)
(* the answer, callers give up while their request waits, and command line *)
(* processes take the fence.  Whatever a caller is told, its operation     *)
(* runs at most once, also when it runs after the caller gave up, and then *)
(* on the RunStore it named and, if it changes the runtime, under the      *)
(* newest fence; one that is reported done ran; one that was refused, or   *)
(* for which no host or no token was found, does not run, not even later.  *)
(* Of a transport that is unavailable nothing follows: the operation may   *)
(* have run, or may still (LocalServiceClient.call, _dispatch_transport,   *)
(* _runtime_service, Application.dispatch).                                *)
AnswersAreTrue ==
    \A c \in Caller :
        /\ effect[c].times <= 1
        /\ effect[c].times = 1 =>
              /\ conv[c].what = "runtime" => effect[c].fenced
              /\ OpensRuntime(conv[c].what) =>
                    effect[c].where = IF conv[c].store = "none" THEN "host" ELSE conv[c].store
        /\ conv[c].told = "ok" => effect[c].times = 1
        /\ conv[c].told \in {"refused", "absent", "described"} => effect[c].times = 0
=============================================================================
