----------------------------- MODULE Migration -----------------------------
(***************************************************************************)
(* Migration of a version 1 Project (migration/service.py): apply backs    *)
(* .artifex up, adopts the Project into the new authority, catalog and     *)
(* RunStore, records and validates the result, and restores the backup     *)
(* when anything raises.  rollback restores it later, if nothing changed.  *)
(* Users of the Project go on working, also while a command is active:     *)
(* they accept revisions of the Model and run Runs, which are the work     *)
(* that must not get lost.                                                 *)
(***************************************************************************)
EXTENDS Approvals, FiniteSets

CONSTANTS
    MigrationId,         \* identities of migrations, never reused
    Legacy,              \* files of the version 1 Project
    Edit, Run,           \* work: edits of the Model, Runs
    Absent,              \* a database, backup or record that is not there
    NoMigration

Bootstrap == {"revision", "documents", "dashboard"}

(* Files of this version, each with the migration that wrote it: they hold *)
(* identifiers and times, so no two migrations write equal ones.           *)
TargetFiles == Bootstrap \X MigrationId

ProjectFile == Legacy \cup Edit \cup TargetFiles

(* What a backup holds: the files and databases of the Project.            *)
Snapshot == [tree : SUBSET ProjectFile, catalog : (SUBSET MigrationId) \cup {Absent},
             runstore : (SUBSET Run) \cup {Absent}]

(* A record: the files that were inspected, and the Project as migrated.   *)
MigrationReport ==
    [state : {"ACTIVE_PENDING_FIRST_NEW_RUN", "ROLLED_BACK"}, source : SUBSET ProjectFile,
     tree : SUBSET ProjectFile, catalog : (SUBSET MigrationId) \cup {Absent},
     runstore : (SUBSET Run) \cup {Absent}]

ASSUME MigrationAssumption ==
    /\ (Legacy \cup Edit) \cap TargetFiles = {}
    /\ \A s \in (SUBSET MigrationId) \cup (SUBSET Run) : s # Absent
    /\ Absent \notin Snapshot /\ Absent \notin MigrationReport

VARIABLES
    tree,            \* the files under .artifex
    catalog,         \* Projects registered in the catalog, or Absent
    runstore,        \* Runs in the RunStore, or Absent
    backup,          \* backup[m]: backup.zip of a migration
    migrationRecord, \* migrationRecord[m]: its record.json
    phase,           \* step of the active command
    current,         \* [id, source, rollback] of the active command
    spoiled,         \* a command died or a restoration raised
    raced            \* history: work that was done while a command was active

stores == <<tree, catalog, runstore>>
files == <<backup, migrationRecord>>
migrationVars == <<stores, files, phase, current, spoiled, raced, token>>

MigrationInit ==
    /\ ApprovalInit
    /\ tree = Legacy /\ catalog = Absent /\ runstore = Absent
    /\ backup = [m \in MigrationId |-> Absent]
    /\ migrationRecord = [m \in MigrationId |-> Absent]
    /\ phase = "idle" /\ current = NoMigration
    /\ spoiled = FALSE /\ raced = {}

-----------------------------------------------------------------------------
(* _require_applicable, on what inspect finds.                             *)
Applicable ==
    /\ Legacy \subseteq tree
    /\ tree \cap TargetFiles = {}
    /\ catalog = Absent /\ runstore = Absent

(* Plans name the Model and the Git head, or the migration and its backup. *)
ApplyPlan == <<"apply", tree>>

RollbackPlan(m) == <<"rollback", m>>

PlanMigration(t) ==
    /\ Applicable /\ Issue(t, ApplyPlan)
    /\ UNCHANGED <<stores, files, phase, current, spoiled>>

PlanRollback(t, m) ==
    /\ migrationRecord[m] # Absent /\ Issue(t, RollbackPlan(m))
    /\ UNCHANGED <<stores, files, phase, current, spoiled>>

Go(s) == phase' = s /\ IF s = "idle" THEN current' = NoMigration ELSE UNCHANGED current

(* The identity is a new one, and any stands for them all.                 *)
Apply(t, m) ==
    /\ phase = "idle" /\ backup[m] = Absent /\ m = CHOOSE u \in MigrationId : backup[u] = Absent
    /\ Applicable /\ Consume(t, ApplyPlan)
    /\ phase' = "backup"
    /\ current' = [id |-> m, source |-> tree, rollback |-> FALSE]
    /\ UNCHANGED <<stores, files, spoiled>>

(* The archive takes what is there now, not what inspect saw.              *)
Backup ==
    /\ phase = "backup"
    /\ backup' = [backup EXCEPT ![current.id] =
                    [tree |-> tree, catalog |-> catalog, runstore |-> runstore]]
    /\ Go("revision")
    /\ UNCHANGED <<stores, migrationRecord, spoiled, token>>

(* adopt: the first revision, the catalog, documents and dashboard.        *)
WriteBootstrap ==
    /\ phase \in Bootstrap
    /\ phase = "revision" => {"revision"} \X MigrationId \cap tree = {}
    /\ tree' = tree \cup {<<phase, current.id>>}
    /\ Go(CASE phase = "revision" -> "register"
            [] phase = "documents" -> "dashboard"
            [] phase = "dashboard" -> "runstore")
    /\ UNCHANGED <<catalog, runstore, files, spoiled, token>>

Register ==
    /\ phase = "register"
    /\ catalog' = {current.id} \cup IF catalog = Absent THEN {} ELSE catalog
    /\ Go("documents")
    /\ UNCHANGED <<tree, runstore, files, spoiled, token>>

(* SQLiteRunStore creates its tables; Runs that are there are an error.    *)
CreateRunStore ==
    /\ phase = "runstore" /\ runstore \in {Absent, {}}
    /\ runstore' = {}
    /\ Go("record")
    /\ UNCHANGED <<tree, catalog, files, spoiled, token>>

WriteMigrationRecord ==
    /\ phase = "record"
    /\ migrationRecord' = [migrationRecord EXCEPT ![current.id] =
                             [state |-> "ACTIVE_PENDING_FIRST_NEW_RUN", source |-> current.source,
                              tree |-> tree, catalog |-> catalog, runstore |-> runstore]]
    /\ Go("validate")
    /\ UNCHANGED <<stores, backup, spoiled, token>>

(* The checks of validate that depend on what happened since.              *)
MigrationIsValid(m) ==
    /\ migrationRecord[m].source \subseteq tree
    /\ Bootstrap \X {m} \subseteq tree
    /\ catalog # Absent /\ m \in catalog
    /\ backup[m] # Absent

(* validate, and the record with its outcome.                              *)
Validate ==
    /\ phase = "validate" /\ MigrationIsValid(current.id)
    /\ Go("idle")
    /\ UNCHANGED <<stores, files, spoiled, token>>

-----------------------------------------------------------------------------
(* _restore_backup, after a failure and in a rollback.                     *)

Archive == backup[current.id]

RemoveProjectFile ==
    /\ phase = "clear"
    /\ \E a \in tree : tree' = tree \ {a}
    /\ UNCHANGED <<catalog, runstore, files, phase, current, spoiled, token>>

ProjectCleared ==
    /\ phase = "clear" /\ tree = {}
    /\ Go("extract")
    /\ UNCHANGED <<stores, files, spoiled, token>>

ExtractFile ==
    /\ phase = "extract"
    /\ \E a \in Archive.tree \ tree : tree' = tree \cup {a}
    /\ UNCHANGED <<catalog, runstore, files, phase, current, spoiled, token>>

RestoreCatalog ==
    /\ phase = "extract" /\ Archive.tree \subseteq tree
    /\ catalog' = Archive.catalog
    /\ Go("restore_runstore")
    /\ UNCHANGED <<tree, runstore, files, spoiled, token>>

RestoreRunStore ==
    /\ phase = "restore_runstore"
    /\ runstore' = Archive.runstore
    /\ Go("verify")
    /\ UNCHANGED <<tree, catalog, files, spoiled, token>>

(* The snapshot has to be the one that was inspected.                      *)
VerifyRestored ==
    /\ phase = "verify" /\ tree = current.source
    /\ Go(IF current.rollback THEN "rolled_back" ELSE "idle")
    /\ UNCHANGED <<stores, files, spoiled, token>>

Rollback(t, m) ==
    /\ phase = "idle" /\ migrationRecord[m] # Absent
    /\ Consume(t, RollbackPlan(m))
    /\ phase' = "compare"
    /\ current' = [id |-> m, source |-> migrationRecord[m].source, rollback |-> TRUE]
    /\ UNCHANGED <<stores, files, spoiled>>

ComparePostIgnoringStores ==
    /\ phase = "compare"
    /\ tree = migrationRecord[current.id].tree
    /\ Go("clear")
    /\ UNCHANGED <<stores, files, spoiled, token>>

(* Rollback goes on only from the very state the migration recorded.       *)
ComparePost ==
    LET post == migrationRecord[current.id]
    IN /\ phase = "compare"
       /\ tree = post.tree /\ catalog = post.catalog /\ runstore = post.runstore
       /\ Go("clear")
       /\ UNCHANGED <<stores, files, spoiled, token>>

RecordRollback ==
    /\ phase = "rolled_back"
    /\ migrationRecord' = [migrationRecord EXCEPT ![current.id].state = "ROLLED_BACK"]
    /\ Go("idle")
    /\ UNCHANGED <<stores, backup, spoiled, token>>

-----------------------------------------------------------------------------
(* Steps that run inside the try block of apply.                           *)
Adopting == Bootstrap \cup {"register", "runstore", "record", "validate"}

RaiseWithoutRestore ==
    /\ phase # "idle"
    /\ Go("idle")
    /\ spoiled' = (spoiled \/ phase \notin Adopting \cup {"backup", "compare"})
    /\ UNCHANGED <<stores, files, token>>

(* An exception: the steps in the try block of apply restore the backup,   *)
(* and nothing catches what a restoration raises.                          *)
RaiseInMigration ==
    /\ phase # "idle"
    /\ Go(IF phase \in Adopting THEN "clear" ELSE "idle")
    /\ spoiled' = (spoiled \/ phase \notin Adopting \cup {"backup", "compare"})
    /\ UNCHANGED <<stores, files, token>>

MigrationDies ==
    /\ phase # "idle"
    /\ Go("idle")
    /\ spoiled' = TRUE
    /\ UNCHANGED <<stores, files, token>>

(* Nothing in the code keeps users from working while a command runs.      *)
Does(w) == raced' = IF phase = "idle" THEN raced ELSE raced \cup {w}

EditModel(e) ==
    /\ e \notin tree /\ Legacy \subseteq tree
    /\ tree' = tree \cup {e} /\ Does(e)
    /\ UNCHANGED <<catalog, runstore, files, phase, current, spoiled, token>>

NewRun(r) ==
    /\ runstore # Absent /\ r \notin runstore
    /\ runstore' = runstore \cup {r} /\ Does(r)
    /\ UNCHANGED <<tree, catalog, files, phase, current, spoiled, token>>

-----------------------------------------------------------------------------
Migrates ==
    \/ Backup \/ WriteBootstrap \/ Register \/ CreateRunStore \/ WriteMigrationRecord \/ Validate

Restores ==
    \/ RemoveProjectFile \/ ProjectCleared \/ ExtractFile \/ RestoreCatalog \/ RestoreRunStore
    \/ VerifyRestored \/ ComparePost \/ RecordRollback

MigrationCommands ==
    \/ \E t \in Token : PlanMigration(t)
    \/ \E t \in Token, m \in MigrationId : PlanRollback(t, m) \/ Apply(t, m) \/ Rollback(t, m)
    \/ Migrates \/ Restores
    \/ RaiseInMigration \/ MigrationDies

MigrationNext ==
    \/ MigrationCommands /\ UNCHANGED raced
    \/ \E e \in Edit : EditModel(e)
    \/ \E r \in Run : NewRun(r)

MigrationSpec == MigrationInit /\ [][MigrationNext]_migrationVars

-----------------------------------------------------------------------------
(* A command that ends without dying and without failing to restore leaves *)
(* a Project that is migrated as a whole, with its record and backup, or   *)
(* one that is not migrated at all (apply, rollback, _restore_backup).     *)
MigratedOrOriginal ==
    phase = "idle" /\ ~spoiled =>
        /\ Legacy \subseteq tree
        /\ \/ tree \cap TargetFiles = {} /\ catalog = Absent /\ runstore = Absent
           \/ \E m \in MigrationId :
                 /\ migrationRecord[m] # Absent /\ migrationRecord[m].state # "ROLLED_BACK"
                 /\ MigrationIsValid(m) /\ tree \cap TargetFiles = Bootstrap \X {m}
                 /\ catalog = {m} /\ runstore # Absent

Kept(a) == a \in tree \/ \E m \in MigrationId : backup[m] # Absent /\ a \in backup[m].tree

Recorded(r) == runstore # Absent /\ r \in runstore

(* Work that was done while no command was active is not discarded,        *)
(* whatever fails or dies and whatever users do meanwhile: files of the    *)
(* Project and edits of its Model are in .artifex or in a backup, and a    *)
(* Run stays in the RunStore, for a rollback refuses what it would discard *)
(* (_restore_backup, rollback).  Work done while a command is active may   *)
(* be overwritten by what the command restores.                            *)
NoWorkIsDiscarded ==
    [][/\ \A a \in (Legacy \cup Edit) \ raced : Kept(a) => Kept(a)'
       /\ \A r \in Run \ raced : Recorded(r) => Recorded(r)']_migrationVars
=============================================================================
