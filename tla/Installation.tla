---------------------------- MODULE Installation ----------------------------
(***************************************************************************)
(* Install, upgrade and uninstall of ARTIFEX and of its managed service:   *)
(* distribution/lifecycle.py over the files of the install root, and       *)
(* ServiceRegistrationManager (distribution/service_registration.py) over  *)
(* the task of the operating system and the record beside the bundle.      *)
(*                                                                         *)
(* Every file, the key, the manifest, the task, the record and the running *)
(* service change one at a time.  A step may raise, which leads into the   *)
(* compensation written for it, a compensation may raise again, and the    *)
(* process may die anywhere.  Where the program itself is installed, the   *)
(* work is deferred to a helper that starts from a signed request.         *)
(*                                                                         *)
(* A version stands for a verified bundle and for the registration whose   *)
(* digest names its executable.                                            *)
(***************************************************************************)
EXTENDS Approvals, FiniteSets

CONSTANTS
    Process,             \* commands and helpers that may be active
    Version, NoVersion,
    File, Executable,    \* paths of bundles, and that of the program
    FilesOf,             \* FilesOf[v]: the paths of a bundle
    Root, Transaction,   \* places: the install root and backups under it
    NotInstalled, NoOp

(* What a manifest says: the bundle, whether it runs a service, and the    *)
(* backups it remembers.                                                   *)
InstallManifest ==
    [version : Version, service : BOOLEAN, backups : SUBSET [place : Transaction, version : Version]]

ASSUME InstallationAssumption ==
    /\ FilesOf \in [Version -> SUBSET File]
    /\ \A v \in Version : Executable \in FilesOf[v]
    /\ NoVersion \notin Version
    /\ Root \notin Transaction
    /\ NotInstalled \notin InstallManifest

Place == {Root} \cup Transaction

VARIABLES
    disk,        \* disk[d][f]: the version whose content is in that place
    hidden,      \* the last one that was renamed to .artifex-remove-*, from that place
    manifest,    \* artifex-install-manifest.json: version, service, backups
    key,         \* the installation security key is in its place
    task,        \* what the operating system has registered
    record,      \* artifex-service-registration.json
    running,     \* the version the running service was started from
    request,     \* a deferred request, or NoOp
    step, op,    \* step and data of a command
    mishap       \* a process died or a compensation raised

bundle == <<disk, hidden, manifest, key>>
service == <<task, record, running>>
installationVars == <<bundle, service, request, step, op, mishap, token>>

NoFiles == [d \in Place |-> [f \in File |-> NoVersion]]

InstallationInit ==
    /\ ApprovalInit
    /\ disk = NoFiles /\ hidden = NoFiles
    /\ manifest = NotInstalled /\ key = FALSE
    /\ task = NoVersion /\ record = NoVersion /\ running = NoVersion
    /\ request = NoOp
    /\ step = [p \in Process |-> "idle"]
    /\ op = [p \in Process |-> NoOp]
    /\ mishap = FALSE

-----------------------------------------------------------------------------
(* What is there.                                                          *)

Entries(d, v) == {d} \X FilesOf[v]

(* Files a manifest owns: the bundle and every backup it remembers.        *)
Owned(m) == Entries(Root, m.version) \cup UNION {Entries(b.place, b.version) : b \in m.backups}

Intact(d, v) == \A f \in FilesOf[v] : disk[d][f] = v

Loadable == manifest # NotInstalled /\ key

ChecksumsMatch ==
    /\ Intact(Root, manifest.version)
    /\ \A b \in manifest.backups : Intact(b.place, b.version)

(* The XML of a task is made from one registration and read back from it,  *)
(* with every element checked: it stands for that registration.            *)
TaskIs(v) == task = v

(* _current of the registration manager: record and task agree on v.       *)
Registered(v) == record = v /\ TaskIs(v)

(* Windows keeps the program of a running service from being replaced.     *)
Locked(e) == e = <<Root, Executable>> /\ running # NoVersion

-----------------------------------------------------------------------------
(* Control of a command.                                                   *)

(* The files a phase works through, one at a time.                         *)
Todo(s, o) ==
    CASE s \in {"copy", "replace", "clean", "undo_remove", "back_remove"} -> Entries(Root, o.new)
      [] s \in {"backup", "undo_restore", "back_restore"} -> Entries(Root, o.old.version)
      [] s = "prune" -> {Root} \X (FilesOf[o.old.version] \ FilesOf[o.new])
      [] s = "quarantine" -> Owned(o.old)
      [] s \in {"unquarantine", "purge"} -> o.moved
      [] OTHER -> {}

GoTo(p, s) ==
    /\ step' = [step EXCEPT ![p] = s]
    /\ op' = [op EXCEPT ![p] = IF s = "idle" THEN NoOp ELSE [op[p] EXCEPT !.todo = Todo(s, op[p])]]

Did(p, e) ==
    /\ op' = [op EXCEPT ![p] = [op[p] EXCEPT !.todo = op[p].todo \ {e}]]
    /\ UNCHANGED step

(* Where an exception leads; a step that is not listed ends the command.   *)
RestartForgotten(o, s) == s

RestartOr(o, s) == IF o.service THEN "restart" ELSE s

InstallRecovery(s) ==
    CASE s \in {"key", "copy", "manifest", "plan", "noop_start", "drop_task", "drop_record"} ->
              "clean_manifest"
      [] s \in {"register", "record", "start"} -> "drop_task"
      [] OTHER -> "idle"

UpgradeRecovery(o, s) ==
    CASE s = "backup" -> "undo_drop"
      [] s \in {"replace", "prune", "commit"} -> "undo_remove"
      [] s \in {"undo_remove", "undo_restore", "undo_manifest"} -> RestartOr(o, "idle")
      [] s \in {"plan", "noop_start", "re_register", "re_record", "re_start"} -> "stop_again"
      [] s = "register" -> "re_start"
      [] s \in {"record", "start"} -> "re_register"
      [] s = "stop_again" -> "back_remove"
      [] OTHER -> "idle"

UninstallRecovery(o, s) ==
    CASE s \in {"unregister", "unrecord"} -> "re_register"
      [] s \in {"quarantine", "key", "commit"} -> "unkey"
      [] s \in {"unkey", "unquarantine", "purge"} -> IF o.service THEN "plan" ELSE "idle"
      [] s \in {"register", "record", "start"} -> "drop_task"
      [] OTHER -> "idle"

Recovery(o, s) ==
    CASE o.kind = "install" -> InstallRecovery(s)
      [] o.kind = "upgrade" -> UpgradeRecovery(o, s)
      [] o.kind = "uninstall" -> UninstallRecovery(o, s)

(* Steps that undo something, which nothing undoes in turn.                *)
Compensating(o, s) ==
    \/ s \in {"clean_manifest", "clean", "clean_key", "drop_task", "drop_record", "undo_remove",
              "undo_restore", "undo_manifest", "restart", "re_register", "re_record", "re_start", "back_remove",
              "back_restore", "back_manifest", "unkey", "unquarantine"}
    \/ o.kind = "uninstall" /\ s \in {"plan", "noop_start", "register", "record", "start"}

Raise(p) ==
    /\ GoTo(p, Recovery(op[p], step[p]))
    /\ mishap' = (mishap \/ Compensating(op[p], step[p]))

(* An exception before the step had its effect.                            *)
Fail(p) ==
    /\ step[p] \notin {"idle", "undo_drop", "back_drop"}
    /\ Raise(p)
    /\ UNCHANGED <<bundle, service, request, token>>

Crash(p) ==
    /\ step[p] # "idle"
    /\ GoTo(p, "idle")
    /\ mishap' = TRUE
    /\ UNCHANGED <<bundle, service, request, token>>

-----------------------------------------------------------------------------
(* Plans and commands.  A plan binds what the command will find.           *)
PlanOf(kind, v, base, managed) == [kind |-> kind, new |-> v, base |-> base, service |-> managed]

PlanInstall(t, v, managed) == Issue(t, PlanOf("install", v, NotInstalled, managed))

PlanUpgrade(t, v) == Loadable /\ Issue(t, PlanOf("upgrade", v, manifest, manifest.service))

PlanUninstall(t) ==
    Loadable /\ Issue(t, PlanOf("uninstall", NoVersion, manifest, manifest.service))

Begin(p, s, kind, v, old, place, managed) ==
    LET o == [kind |-> kind, new |-> v, old |-> old, place |-> place, service |-> managed,
              prior |-> record, made |-> FALSE, moved |-> {}, todo |-> {}]
    IN /\ step[p] = "idle"
       /\ step' = [step EXCEPT ![p] = s]
       /\ op' = [op EXCEPT ![p] = [o EXCEPT !.todo = Todo(s, o)]]

(* install: neither the manifest nor a file of the bundle is there yet.    *)
Install(p, t, v, managed) ==
    /\ manifest = NotInstalled
    /\ \A f \in FilesOf[v] : disk[Root][f] = NoVersion
    /\ Consume(t, PlanOf("install", v, NotInstalled, managed))
    /\ Begin(p, "key", "install", v, NotInstalled, Root, managed)
    /\ UNCHANGED <<bundle, service, request, mishap>>

(* A transaction directory under a new name; they differ in nothing else.  *)
FreshBackup(b) ==
    LET fresh == {c \in Transaction : /\ disk[c] = NoFiles[c]
                                      /\ \A q \in Process : op[q] # NoOp => op[q].place # c}
    IN b \in fresh /\ b = CHOOSE c \in fresh : TRUE

(* upgrade: the manifest is authentic and every file it owns unmodified.   *)
Upgrade(p, t, v, b) ==
    /\ Loadable /\ ChecksumsMatch /\ FreshBackup(b)
    /\ Consume(t, PlanOf("upgrade", v, manifest, manifest.service))
    /\ manifest.service => record # NoVersion
    /\ Begin(p, IF manifest.service THEN "stop" ELSE "read", "upgrade", v, manifest, b,
             manifest.service)
    /\ UNCHANGED <<bundle, service, request, mishap>>

Uninstall(p, t) ==
    /\ Loadable /\ ChecksumsMatch
    /\ Consume(t, PlanOf("uninstall", NoVersion, manifest, manifest.service))
    /\ manifest.service => record # NoVersion
    /\ Begin(p, IF manifest.service THEN "unplan" ELSE "quarantine", "uninstall", NoVersion,
             manifest, Root, manifest.service)
    /\ UNCHANGED <<bundle, service, request, mishap>>

(* When the program would replace itself it leaves a signed request and    *)
(* starts a helper, once.  The upgrade of a managed service refuses that.  *)
Defer(p, t, kind, v) ==
    /\ step[p] = "idle" /\ request = NoOp
    /\ Loadable /\ ChecksumsMatch
    /\ kind = "upgrade" => ~manifest.service
    /\ Consume(t, PlanOf(kind, v, manifest, manifest.service))
    /\ request' = [kind |-> kind, new |-> v, base |-> manifest]
    /\ UNCHANGED <<bundle, service, step, op, mishap>>

HelperAnyManifest(p, b) ==
    /\ request # NoOp /\ request' = NoOp
    /\ Loadable
    /\ IF request.kind = "upgrade"
       THEN FreshBackup(b) /\ Begin(p, "backup", "upgrade", request.new, request.base, b, FALSE)
       ELSE Begin(p, IF request.base.service THEN "unplan" ELSE "quarantine", "uninstall",
                  NoVersion, request.base, Root, request.base.service)
    /\ UNCHANGED <<bundle, service, mishap, token>>

(* complete_deferred_uninstall, which also completes upgrades.  It refuses *)
(* a request for another manifest than the one that is there.              *)
Helper(p, b) ==
    /\ request # NoOp /\ request' = NoOp
    /\ Loadable /\ manifest = request.base /\ ChecksumsMatch
    /\ manifest.service => record = manifest.version
    /\ IF request.kind = "upgrade"
       THEN FreshBackup(b) /\ Begin(p, "backup", "upgrade", request.new, manifest, b, FALSE)
       ELSE Begin(p, IF manifest.service THEN "unplan" ELSE "quarantine", "uninstall", NoVersion,
                  manifest, Root, manifest.service)
    /\ UNCHANGED <<bundle, service, mishap, token>>

(* The helper expired, found the request stale or never came up.           *)
RequestLapses ==
    /\ request # NoOp /\ request' = NoOp
    /\ UNCHANGED <<bundle, service, step, op, mishap, token>>

-----------------------------------------------------------------------------
(* Files.  A file that is in the way is unlinked before its successor is   *)
(* renamed into place.                                                     *)
PutFile(p, e, v) ==
    /\ ~Locked(e)
    /\ IF disk[e[1]][e[2]] # NoVersion
       THEN disk' = [disk EXCEPT ![e[1]][e[2]] = NoVersion] /\ UNCHANGED <<step, op>>
       ELSE disk' = [disk EXCEPT ![e[1]][e[2]] = v] /\ Did(p, e)
    /\ UNCHANGED <<hidden, manifest, key, service, request, mishap, token>>

WorksOn(p, phases) == step[p] \in phases /\ op[p].todo # {}

Finished(p, phase) == step[p] = phase /\ op[p].todo = {}

(* _copy_verified_bundle, which compares everything once more at its end.  *)
CopyFile(p) ==
    /\ WorksOn(p, {"copy", "replace"})
    /\ \E e \in op[p].todo : PutFile(p, e, op[p].new)

CopyFinished(p) ==
    /\ Finished(p, "copy") \/ Finished(p, "replace")
    /\ Intact(Root, op[p].new)
    /\ GoTo(p, IF step[p] = "copy" THEN "manifest" ELSE "prune")
    /\ UNCHANGED <<bundle, service, request, mishap, token>>

BackupFile(p) ==
    /\ WorksOn(p, {"backup"})
    /\ \E e \in op[p].todo :
          /\ disk[Root][e[2]] = op[p].old.version
          /\ disk' = [disk EXCEPT ![op[p].place][e[2]] = op[p].old.version]
          /\ Did(p, e)
    /\ UNCHANGED <<hidden, manifest, key, service, request, mishap, token>>

BackupFinished(p) ==
    /\ Finished(p, "backup")
    /\ Intact(op[p].place, op[p].old.version)
    /\ GoTo(p, "replace")
    /\ UNCHANGED <<bundle, service, request, mishap, token>>

RemoveFile(p) ==
    /\ WorksOn(p, {"prune", "clean", "undo_remove", "back_remove"})
    /\ \E e \in op[p].todo :
          /\ ~Locked(e)
          /\ disk' = [disk EXCEPT ![e[1]][e[2]] = NoVersion]
          /\ Did(p, e)
    /\ UNCHANGED <<hidden, manifest, key, service, request, mishap, token>>

RemoveFinishedWithoutRestore(p) ==
    /\ \/ Finished(p, "prune") /\ GoTo(p, "commit")
       \/ Finished(p, "clean") /\ GoTo(p, "clean_key")
       \/ Finished(p, "undo_remove") /\ GoTo(p, "undo_drop")
       \/ Finished(p, "back_remove") /\ GoTo(p, "back_restore")
    /\ UNCHANGED <<bundle, service, request, mishap, token>>

RemoveFinished(p) ==
    /\ \/ Finished(p, "prune") /\ GoTo(p, "commit")
       \/ Finished(p, "clean") /\ GoTo(p, "clean_key")
       \/ Finished(p, "undo_remove") /\ GoTo(p, "undo_restore")
       \/ Finished(p, "back_remove") /\ GoTo(p, "back_restore")
    /\ UNCHANGED <<bundle, service, request, mishap, token>>

RestoreFile(p) ==
    /\ WorksOn(p, {"undo_restore", "back_restore"})
    /\ \E e \in op[p].todo :
          /\ disk[op[p].place][e[2]] = op[p].old.version
          /\ PutFile(p, e, op[p].old.version)

RestoreFinished(p) ==
    /\ Finished(p, "undo_restore") \/ Finished(p, "back_restore")
    /\ Intact(Root, op[p].old.version)
    /\ GoTo(p, IF step[p] = "undo_restore" THEN "undo_drop" ELSE "back_manifest")
    /\ UNCHANGED <<bundle, service, request, mishap, token>>

(* Uninstall renames everything it owns, then the key, and only then       *)
(* removes the manifest; what was renamed is unlinked afterwards.  The     *)
(* names are new in each uninstall, which undoes only its own renaming.    *)
QuarantineFile(p) ==
    /\ WorksOn(p, {"quarantine"})
    /\ \E e \in op[p].todo :
          /\ disk[e[1]][e[2]] # NoVersion
          /\ hidden' = [hidden EXCEPT ![e[1]][e[2]] = disk[e[1]][e[2]]]
          /\ disk' = [disk EXCEPT ![e[1]][e[2]] = NoVersion]
          /\ op' = [op EXCEPT ![p] = [op[p] EXCEPT !.todo = op[p].todo \ {e},
                                                 !.moved = op[p].moved \cup {e}]]
    /\ UNCHANGED <<step, manifest, key, service, request, mishap, token>>

UnquarantineFile(p) ==
    /\ WorksOn(p, {"unquarantine"})
    /\ \E e \in op[p].todo :
          /\ disk' = [disk EXCEPT ![e[1]][e[2]] = hidden[e[1]][e[2]]]
          /\ hidden' = [hidden EXCEPT ![e[1]][e[2]] = NoVersion]
          /\ Did(p, e)
    /\ UNCHANGED <<manifest, key, service, request, mishap, token>>

PurgeFile(p) ==
    /\ WorksOn(p, {"purge"})
    /\ \E e \in op[p].todo : hidden' = [hidden EXCEPT ![e[1]][e[2]] = NoVersion] /\ Did(p, e)
    /\ UNCHANGED <<disk, manifest, key, service, request, mishap, token>>

QuarantineFinished(p) ==
    /\ \/ Finished(p, "quarantine") /\ GoTo(p, "key")
       \/ Finished(p, "unquarantine") /\ GoTo(p, IF op[p].service THEN "plan" ELSE "idle")
       \/ Finished(p, "purge") /\ GoTo(p, "idle")
    /\ UNCHANGED <<bundle, service, request, mishap, token>>

-----------------------------------------------------------------------------
(* Key and manifest.                                                       *)
Made(p, s) ==
    /\ step' = [step EXCEPT ![p] = s]
    /\ op' = [op EXCEPT ![p] = [op[p] EXCEPT !.made = TRUE, !.todo = Todo(s, op[p])]]

(* O_EXCL: a key that is there belongs to somebody else.                   *)
CreateInstallKey(p) ==
    /\ step[p] = "key" /\ op[p].kind = "install"
    /\ ~key /\ key' = TRUE
    /\ Made(p, "copy")
    /\ UNCHANGED <<disk, hidden, manifest, service, request, mishap, token>>

QuarantineKey(p) ==
    /\ step[p] = "key" /\ op[p].kind = "uninstall"
    /\ key /\ key' = FALSE
    /\ Made(p, "commit")
    /\ UNCHANGED <<disk, hidden, manifest, service, request, mishap, token>>

UndoKey(p) ==
    /\ \/ step[p] = "unkey" /\ key' = (key \/ op[p].made) /\ GoTo(p, "unquarantine")
       \/ step[p] = "clean_key" /\ key' = (key /\ ~op[p].made) /\ GoTo(p, "idle")
    /\ UNCHANGED <<disk, hidden, manifest, service, request, mishap, token>>

WriteManifest(p) ==
    LET o == op[p]
    IN /\ step[p] \in {"manifest", "commit"} /\ o.kind # "uninstall"
       /\ manifest' = [version |-> o.new, service |-> o.service,
                       backups |-> IF o.kind = "install" THEN {}
                                   ELSE o.old.backups \cup {[place |-> o.place, version |-> o.old.version]}]
       /\ GoTo(p, IF o.service THEN "plan" ELSE "idle")
       /\ UNCHANGED <<disk, hidden, key, service, request, mishap, token>>

RemoveManifest(p) ==
    /\ \/ step[p] = "commit" /\ op[p].kind = "uninstall" /\ GoTo(p, "purge")
       \/ step[p] = "clean_manifest" /\ GoTo(p, "clean")
    /\ manifest' = NotInstalled
    /\ UNCHANGED <<disk, hidden, key, service, request, mishap, token>>

(* What a rollback will write back is read before anything is guarded: an  *)
(* upgrade that fails here does not start the service it stopped.          *)
ReadManifest(p) ==
    /\ step[p] = "read"
    /\ GoTo(p, "backup")
    /\ UNCHANGED <<bundle, service, request, mishap, token>>

(* The end of _perform_upgrade when it raised, and that of                 *)
(* _rollback_completed_upgrade, which do this in opposite orders.          *)
RestoreManifest(p) ==
    /\ step[p] \in {"undo_manifest", "back_manifest"}
    /\ manifest' = op[p].old
    /\ GoTo(p, IF step[p] = "back_manifest" THEN "back_drop" ELSE RestartOr(op[p], "idle"))
    /\ UNCHANGED <<disk, hidden, key, service, request, mishap, token>>

(* rmtree(ignore_errors=True): a backup that stays behind is no error.     *)
DropBackup(p) ==
    /\ step[p] \in {"undo_drop", "back_drop"}
    /\ \/ disk' = [disk EXCEPT ![op[p].place] = NoFiles[op[p].place]] /\ UNCHANGED mishap
       \/ UNCHANGED disk /\ mishap' = TRUE
    /\ GoTo(p, IF step[p] = "undo_drop" THEN "undo_manifest" ELSE "restart")
    /\ UNCHANGED <<hidden, manifest, key, service, request, token>>

-----------------------------------------------------------------------------
(* Service registration.                                                   *)

(* The version a command registers.                                        *)
Target(o) == IF o.kind = "uninstall" THEN o.prior ELSE o.new

(* schtasks /Run leaves a running service alone and otherwise runs what is *)
(* in the place of the program.                                            *)
Image == IF running # NoVersion THEN running ELSE disk[Root][Executable]

(* plan_install and plan_upgrade with the checks that install and upgrade  *)
(* repeat: the program is the one to be registered, record and task agree, *)
(* and there is something to replace exactly in an upgrade.                *)
PlanRegistration(p) ==
    LET o == op[p]
    IN /\ step[p] = "plan"
       /\ disk[Root][Executable] = Target(o)
       /\ Registered(record)
       /\ record \in {Target(o)} \cup IF o.kind = "upgrade" THEN Version ELSE {NoVersion}
       /\ GoTo(p, IF record = Target(o) THEN "noop_start" ELSE "register")
       /\ UNCHANGED <<bundle, service, request, mishap, token>>

CreateTask(v) == task' = v

(* register refuses to overwrite, replace insists on what it replaces.     *)
MayRegister(o) ==
    IF o.kind = "upgrade" THEN TaskIs(o.prior) ELSE TaskIs(NoVersion) \/ TaskIs(Target(o))

RegisterTask(p) ==
    /\ step[p] = "register" /\ MayRegister(op[p])
    /\ CreateTask(Target(op[p]))
    /\ GoTo(p, "record")
    /\ UNCHANGED <<bundle, record, running, request, mishap, token>>

(* The task is there but could neither be verified nor taken back.         *)
RegisterUnverified(p) ==
    /\ step[p] = "register" /\ MayRegister(op[p])
    /\ CreateTask(Target(op[p]))
    /\ Raise(p)
    /\ UNCHANGED <<bundle, record, running, request, token>>

WriteRecord(p) ==
    /\ step[p] = "record"
    /\ record' = Target(op[p])
    /\ GoTo(p, "start")
    /\ UNCHANGED <<bundle, task, running, request, mishap, token>>

(* start_and_wait of the new registration, or of the prior one.            *)
Starts(s, o) ==
    \/ s \in {"start", "noop_start"} /\ TaskIs(Target(o))
    \/ s \in {"re_start", "restart"} /\ TaskIs(o.prior)

StartService(p) ==
    /\ Starts(step[p], op[p]) /\ Image # NoVersion
    /\ running' = Image
    /\ GoTo(p, IF step[p] = "re_start" /\ op[p].kind = "upgrade" THEN "stop_again" ELSE "idle")
    /\ UNCHANGED <<bundle, task, record, request, mishap, token>>

(* It came up, but not in time, and could not be ended.                    *)
StartTimesOut(p) ==
    /\ Starts(step[p], op[p]) /\ Image # NoVersion
    /\ running' = Image
    /\ Raise(p)
    /\ UNCHANGED <<bundle, task, record, request, token>>

PlanUnregistration(p) ==
    /\ step[p] = "unplan"
    /\ Registered(op[p].prior) /\ disk[Root][Executable] = op[p].prior
    /\ GoTo(p, "stop")
    /\ UNCHANGED <<bundle, service, request, mishap, token>>

StopService(p) ==
    /\ step[p] \in {"stop", "stop_again"} /\ TaskIs(op[p].prior)
    /\ running' = NoVersion
    /\ GoTo(p, CASE step[p] = "stop_again" -> "back_remove"
                 [] step[p] = "stop" /\ op[p].kind = "upgrade" -> "read"
                 [] OTHER -> "unregister")
    /\ UNCHANGED <<bundle, task, record, request, mishap, token>>

(* The service was asked to stop and does, after the wait was given up.    *)
StopTimesOut(p) ==
    /\ step[p] \in {"stop", "stop_again"} /\ TaskIs(op[p].prior)
    /\ running' = NoVersion
    /\ Raise(p)
    /\ UNCHANGED <<bundle, task, record, request, token>>

(* unregister: a task of another registration is refused, and so is one    *)
(* whose program runs.                                                     *)
UnregisterTask(p) ==
    /\ step[p] = "unregister"
    /\ task \in {NoVersion, op[p].prior} /\ running = NoVersion
    /\ task' = NoVersion
    /\ GoTo(p, "unrecord")
    /\ UNCHANGED <<bundle, record, running, request, mishap, token>>

RemoveRecord(p) ==
    /\ step[p] = "unrecord"
    /\ record' = NoVersion
    /\ GoTo(p, "quarantine")
    /\ UNCHANGED <<bundle, task, running, request, mishap, token>>

(* An install that failed takes the task and then its record back.         *)
DropTask(p) ==
    /\ step[p] = "drop_task"
    /\ task \in {NoVersion, Target(op[p])} /\ (task = NoVersion \/ running = NoVersion)
    /\ task' = NoVersion
    /\ GoTo(p, "drop_record")
    /\ UNCHANGED <<bundle, record, running, request, mishap, token>>

DropRecord(p) ==
    /\ step[p] = "drop_record"
    /\ record' = NoVersion
    /\ GoTo(p, IF op[p].kind = "install" THEN "clean_manifest" ELSE "idle")
    /\ UNCHANGED <<bundle, task, running, request, mishap, token>>

(* An upgrade or an unregistration that failed puts the prior one back.    *)
RestoreTask(p) ==
    /\ step[p] = "re_register"
    /\ IF op[p].kind = "upgrade" THEN TaskIs(op[p].new) ELSE TaskIs(NoVersion) \/ TaskIs(op[p].prior)
    /\ CreateTask(op[p].prior)
    /\ GoTo(p, "re_record")
    /\ UNCHANGED <<bundle, record, running, request, mishap, token>>

RestoreRecord(p) ==
    /\ step[p] = "re_record"
    /\ record' = op[p].prior
    /\ GoTo(p, "re_start")
    /\ UNCHANGED <<bundle, task, running, request, mishap, token>>

-----------------------------------------------------------------------------
Plans(t) ==
    /\ \/ \E v \in Version, managed \in BOOLEAN : PlanInstall(t, v, managed)
       \/ \E v \in Version : PlanUpgrade(t, v)
       \/ PlanUninstall(t)
       \/ ConsumeInVain(t)
    /\ UNCHANGED <<bundle, service, request, step, op, mishap>>

Commands(p) ==
    \/ \E t \in Token, v \in Version, managed \in BOOLEAN : Install(p, t, v, managed)
    \/ \E t \in Token, v \in Version, b \in Transaction : Upgrade(p, t, v, b)
    \/ \E t \in Token : Uninstall(p, t)
    \/ \E t \in Token, v \in Version : Defer(p, t, "upgrade", v)
    \/ \E t \in Token : Defer(p, t, "uninstall", NoVersion)
    \/ \E b \in Transaction : Helper(p, b)

Files(p) ==
    \/ CopyFile(p) \/ CopyFinished(p)
    \/ BackupFile(p) \/ BackupFinished(p)
    \/ RemoveFile(p) \/ RemoveFinished(p)
    \/ RestoreFile(p) \/ RestoreFinished(p)
    \/ QuarantineFile(p) \/ UnquarantineFile(p) \/ PurgeFile(p) \/ QuarantineFinished(p)

Records(p) ==
    \/ CreateInstallKey(p) \/ QuarantineKey(p) \/ UndoKey(p)
    \/ WriteManifest(p) \/ RemoveManifest(p)
    \/ ReadManifest(p) \/ RestoreManifest(p) \/ DropBackup(p)

Registration(p) ==
    \/ PlanRegistration(p) \/ RegisterTask(p) \/ RegisterUnverified(p) \/ WriteRecord(p)
    \/ StartService(p) \/ StartTimesOut(p)
    \/ PlanUnregistration(p) \/ StopService(p) \/ StopTimesOut(p)
    \/ UnregisterTask(p) \/ RemoveRecord(p)
    \/ DropTask(p) \/ DropRecord(p)
    \/ RestoreTask(p) \/ RestoreRecord(p)

InstallationNext ==
    \/ \E t \in Token : Plans(t)
    \/ RequestLapses
    \/ \E p \in Process :
          Commands(p) \/ Files(p) \/ Records(p) \/ Registration(p) \/ Fail(p) \/ Crash(p)

InstallationSpec == InstallationInit /\ [][InstallationNext]_installationVars

-----------------------------------------------------------------------------
NothingInstalled ==
    /\ disk = NoFiles /\ ~key
    /\ {task, record, running} = {NoVersion}

WholeInstallation ==
    /\ Loadable /\ ChecksumsMatch
    /\ \A b \in Transaction : disk[b] # NoFiles[b] => \E m \in manifest.backups : m.place = b
    /\ Registered(IF manifest.service THEN manifest.version ELSE NoVersion)
    /\ running \in {NoVersion, record}

(* A command that fails without a compensation failing too leaves either   *)
(* nothing or one whole installation: manifest, key, every file of the     *)
(* bundle and of its backups, task, record and the program that runs       *)
(* belong to one version (install, upgrade, uninstall, ServiceRegistration *)
(* Manager).                                                               *)
CommandsAreTransactional ==
    ~mishap /\ (\A p \in Process : step[p] = "idle") =>
        IF manifest = NotInstalled THEN NothingInstalled ELSE WholeInstallation

(* Whatever dies and whatever fails, while there is a manifest some bundle *)
(* can be put together from the files in the root, in a backup and in      *)
(* quarantine: an upgrade destroys nothing it has no copy of               *)
(* (_perform_upgrade, _rollback_completed_upgrade, _perform_uninstall).    *)
SomeBundleSurvives ==
    manifest # NotInstalled =>
        \E v \in Version : \A f \in FilesOf[v] :
            \E d \in Place : v \in {disk[d][f], hidden[d][f]}

(* An upgrade that began to copy files does not end without starting the   *)
(* service, with the new program or, after a failure, with the old one,    *)
(* unless the compensation fails too.  Before that nothing is undone: one  *)
(* that gives up its first stop, or cannot read the manifest after it,     *)
(* leaves the service stopped (upgrade, ServiceRegistrationManager.upgrade)*)
UpgradeBringsServiceBack ==
    [][\A p \in Process :
          /\ step[p] \notin {"idle", "stop", "read"} /\ op[p].kind = "upgrade" /\ op[p].service
          /\ step'[p] = "idle" /\ ~mishap'
          => running' \in {op[p].prior, op[p].new} /\ Registered(running)']_installationVars
=============================================================================
