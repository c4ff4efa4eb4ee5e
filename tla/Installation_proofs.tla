------------------------ MODULE Installation_proofs ------------------------
(***************************************************************************)
(* Proofs about install, upgrade and uninstall, for any bundles, any       *)
(* number of versions, files, backups and tokens and any sequence of       *)
(* commands and helpers that may fail or die anywhere.  Nothing in the     *)
(* code keeps two commands off one install root: the theorems are about    *)
(* commands that run one after the other.                                  *)
(***************************************************************************)
EXTENDS Installation, TLAPS

(* At most one command is active.                                          *)
OneCommand == \A p, q \in Process : p = q

(* Where a command of each kind can be.                                    *)
InstallStep ==
    {"key", "copy", "manifest", "plan", "noop_start", "register", "record", "start",
     "drop_task", "drop_record", "clean_manifest", "clean", "clean_key"}

UpgradeStep ==
    {"stop", "read", "backup", "replace", "prune", "commit", "undo_remove", "undo_restore",
     "undo_drop", "undo_manifest", "restart", "plan", "noop_start", "register", "record", "start",
     "re_register", "re_record", "re_start", "stop_again", "back_remove", "back_restore",
     "back_manifest", "back_drop"}

UninstallStep ==
    {"unplan", "stop", "unregister", "unrecord", "quarantine", "key", "commit", "unkey",
     "unquarantine", "purge", "plan", "noop_start", "register", "record", "start", "drop_task",
     "drop_record", "re_register", "re_record", "re_start"}

AnyVersion == Version \cup {NoVersion}

DiskType == [Place -> [File -> AnyVersion]]

OpType ==
    [kind : {"install", "upgrade", "uninstall"}, new : AnyVersion,
     old : InstallManifest \cup {NotInstalled}, place : Place, service : BOOLEAN, prior : AnyVersion,
     made : BOOLEAN, moved : SUBSET (Place \X File), todo : SUBSET (Place \X File)]

StepsOf(kind) ==
    IF kind = "install" THEN InstallStep ELSE IF kind = "upgrade" THEN UpgradeStep ELSE UninstallStep

OpOK(s, o) ==
    /\ o \in OpType /\ s \in StepsOf(o.kind)
    /\ o.kind # "uninstall" => o.new \in Version
    /\ o.kind # "install" => o.old \in InstallManifest
    /\ o.kind = "upgrade" => o.place \in Transaction
    /\ o.kind = "uninstall" => o.moved \subseteq Owned(o.old)
    /\ o.todo \subseteq Todo(s, o)

ProcessesOK(st, ops) ==
    /\ st = [q \in Process |-> st[q]] /\ ops = [q \in Process |-> ops[q]]
    /\ \A p \in Process : st[p] # "idle" => OpOK(st[p], ops[p])

RequestOK(r) ==
    r # NoOp =>
        /\ r.base \in InstallManifest /\ r.kind \in {"upgrade", "uninstall"}
        /\ r.kind = "upgrade" => r.new \in Version /\ r.base.service = FALSE

InstallationTypeOK ==
    /\ OneCommand
    /\ disk \in DiskType /\ hidden \in DiskType
    /\ manifest \in InstallManifest \cup {NotInstalled}
    /\ key \in BOOLEAN /\ mishap \in BOOLEAN
    /\ task \in AnyVersion /\ record \in AnyVersion /\ running \in AnyVersion
    /\ RequestOK(request)
    /\ ProcessesOK(step, op)

-----------------------------------------------------------------------------
(* A bundle survives.                                                      *)

IntactIn(dk, d, v) == \A f \in FilesOf[v] : dk[d][f] = v

StowedIn(dk, hd, d, v, moved) ==
    \A f \in FilesOf[v] :
        IF <<d, f>> \in moved THEN dk[d][f] = NoVersion /\ hd[d][f] = v ELSE dk[d][f] = v

(* Where an upgrade has the old bundle in the root, and where in its       *)
(* backup.                                                                 *)
OldInRoot == {"stop", "read", "backup", "undo_drop", "undo_manifest", "back_manifest", "back_drop"}

OldInBackup ==
    {"replace", "prune", "commit", "undo_remove", "undo_restore", "plan", "noop_start", "register",
     "record", "start", "re_register", "re_record", "re_start", "stop_again", "back_remove",
     "back_restore"}

OldStowed ==
    {"unplan", "stop", "unregister", "unrecord", "quarantine", "key", "commit", "unkey"}

KeepsABundle(s, o, dk, hd, mf) ==
    /\ o.kind = "install" /\ s \in {"key", "copy", "clean"} => mf = NotInstalled
    /\ o.kind = "install" /\ s = "manifest" => IntactIn(dk, Root, o.new)
    /\ o.kind = "upgrade" /\ s \in OldInRoot => IntactIn(dk, Root, o.old.version)
    /\ o.kind = "upgrade" /\ s \in OldInBackup => IntactIn(dk, o.place, o.old.version)
    /\ o.kind = "uninstall" /\ s \in OldStowed => StowedIn(dk, hd, Root, o.old.version, o.moved)
    /\ o.kind = "uninstall" /\ s = "unquarantine" =>
          StowedIn(dk, hd, Root, o.old.version, o.todo)
    /\ o.kind = "uninstall" /\ s = "purge" => mf = NotInstalled

Survives(dk, hd, mf) ==
    mf # NotInstalled =>
        \E v \in Version : \A f \in FilesOf[v] : \E d \in Place : v \in {dk[d][f], hd[d][f]}

SurvivalInv ==
    /\ InstallationTypeOK
    /\ Survives(disk, hidden, manifest)
    /\ \A p \in Process : step[p] # "idle" => KeepsABundle(step[p], op[p], disk, hidden, manifest)

-----------------------------------------------------------------------------
(* All or nothing, unless a process died or a compensation failed.         *)

Vacant(dk, d) == \A f \in File : dk[d][f] = NoVersion

HasIn(dk, d, v) == \A f \in File : dk[d][f] = IF f \in FilesOf[v] THEN v ELSE NoVersion

Outside(dk, files) == \A f \in File \ files : dk[Root][f] = NoVersion

Removed(dk, files, todo) == \A f \in files : <<Root, f>> \in todo \/ dk[Root][f] = NoVersion

PlacesOf(m) == {b.place : b \in m.backups}

BackupsIn(dk, m) == \A b \in m.backups : HasIn(dk, b.place, b.version)

OthersVacant(dk, m, places) == \A c \in Transaction \ (PlacesOf(m) \cup places) : Vacant(dk, c)

FilesWhole(dk, m) == HasIn(dk, Root, m.version) /\ BackupsIn(dk, m) /\ OthersVacant(dk, m, {})

AllVacant(dk) == \A d \in Place : Vacant(dk, d)

ServiceOf(m) == IF m.service THEN m.version ELSE NoVersion

Unserved(tk, rc, rn) == tk = NoVersion /\ rc = NoVersion /\ rn = NoVersion

NothingThere(dk, mf, ky) == mf = NotInstalled /\ ky = FALSE /\ AllVacant(dk)

WholeFiles(m, dk, mf, ky) == mf = m /\ ky = TRUE /\ FilesWhole(dk, m)

AtRest(dk, mf, ky, tk, rc, rn) ==
    \/ NothingThere(dk, mf, ky) /\ Unserved(tk, rc, rn)
    \/ /\ mf # NotInstalled /\ WholeFiles(mf, dk, mf, ky)
       /\ tk = ServiceOf(mf) /\ rc = ServiceOf(mf) /\ rn \in {NoVersion, ServiceOf(mf)}

InstallWhole(s, o, dk, mf, ky, tk, rc, rn) ==
    /\ s # "noop_start"
    /\ \A d \in Transaction : Vacant(dk, d)
    /\ Outside(dk, FilesOf[o.new])
    /\ ky = o.made
    /\ s = "key" => Vacant(dk, Root) /\ ky = FALSE
    /\ s \in {"key", "copy", "manifest", "clean", "clean_key"} => mf = NotInstalled
    /\ s \in {"copy", "manifest", "plan", "register", "record", "start"} => ky = TRUE
    /\ s \in {"manifest", "plan", "register", "record", "start"} => IntactIn(dk, Root, o.new)
    /\ s \in {"plan", "register", "record", "start"} =>
          o.service = TRUE /\ mf = [version |-> o.new, service |-> TRUE, backups |-> {}]
    /\ s \in {"key", "copy", "manifest", "plan", "register", "clean_manifest", "clean", "clean_key"} =>
          Unserved(tk, rc, rn)
    /\ s = "record" => tk = o.new /\ rc = NoVersion /\ rn = NoVersion
    /\ s = "start" => tk = o.new /\ rc = o.new /\ rn = NoVersion
    /\ s = "drop_task" => (rn # NoVersion => tk # NoVersion)
    /\ s = "drop_record" => tk = NoVersion /\ rn = NoVersion
    /\ s = "clean" => Removed(dk, FilesOf[o.new], o.todo)
    /\ s = "clean_key" => Vacant(dk, Root)

NewManifest(o) ==
    [version |-> o.new, service |-> o.service,
     backups |-> o.old.backups \cup {[place |-> o.place, version |-> o.old.version]}]

UpgradeFiles(s, o, dk) ==
    /\ o.place \notin PlacesOf(o.old)
    /\ BackupsIn(dk, o.old) /\ OthersVacant(dk, o.old, {o.place})
    /\ s \in {"stop", "read", "undo_manifest", "restart"} => Vacant(dk, o.place)
    /\ s = "backup" => \A f \in File \ FilesOf[o.old.version] : dk[o.place][f] = NoVersion
    /\ s \in OldInBackup => HasIn(dk, o.place, o.old.version)
    /\ s \in OldInRoot \cup {"restart"} => HasIn(dk, Root, o.old.version)
    /\ s \in {"commit", "plan", "noop_start", "register", "record", "start", "re_register",
              "re_record", "re_start", "stop_again"} => HasIn(dk, Root, o.new)
    /\ s \in {"replace", "prune", "undo_remove"} =>
          Outside(dk, FilesOf[o.old.version] \cup FilesOf[o.new])
    /\ s = "prune" =>
          /\ IntactIn(dk, Root, o.new)
          /\ Removed(dk, FilesOf[o.old.version] \ FilesOf[o.new], o.todo)
    /\ s = "undo_remove" => Removed(dk, FilesOf[o.new], o.todo)
    /\ s = "back_remove" => Removed(dk, File, o.todo)
    /\ s \in {"undo_restore", "back_restore"} => Outside(dk, FilesOf[o.old.version])

UpgradeService(s, o, tk, rc, rn) ==
    /\ s = "stop" => tk = o.prior /\ rc = o.prior /\ rn \in {NoVersion, o.prior}
    /\ s \in {"read", "backup", "replace", "prune", "commit", "undo_remove", "undo_restore",
              "undo_drop", "undo_manifest", "restart", "plan", "register", "noop_start",
              "back_restore", "back_manifest", "back_drop"} => tk = o.prior /\ rc = o.prior /\ rn = NoVersion
    /\ s = "noop_start" => o.prior = o.new
    /\ s \in {"stop_again", "back_remove"} =>
          tk = o.prior /\ rc = o.prior /\ rn \in {NoVersion, o.new}
    /\ s = "back_remove" /\ rn # NoVersion => <<Root, Executable>> \in o.todo
    /\ s = "record" => tk = o.new /\ rc = o.prior /\ rn = NoVersion
    /\ s = "start" => tk = o.new /\ rc = o.new /\ rn = NoVersion
    /\ s \in {"re_register", "re_record", "re_start"} => rn \in {NoVersion, o.new}
    /\ s = "re_record" => tk = o.prior
    /\ s = "re_start" => rc = o.prior

UpgradeWhole(s, o, dk, mf, ky, tk, rc, rn) ==
    /\ ky = TRUE
    /\ o.service = o.old.service /\ o.prior = ServiceOf(o.old)
    /\ s \notin {"read", "backup", "replace", "prune", "commit", "undo_remove", "undo_restore",
                 "undo_drop", "undo_manifest"} => o.service = TRUE
    /\ s \in {"stop", "read", "back_drop", "restart"} => mf = o.old
    /\ s \in {"plan", "noop_start", "register", "record", "start"} => mf = NewManifest(o)
    /\ UpgradeFiles(s, o, dk)
    /\ UpgradeService(s, o, tk, rc, rn)

(* Everything a manifest owns, in its place or renamed.                    *)
HasOrStowed(dk, hd, d, v, moved) ==
    \A f \in File :
        /\ dk[d][f] = IF f \in FilesOf[v] /\ <<d, f>> \notin moved THEN v ELSE NoVersion
        /\ f \in FilesOf[v] /\ <<d, f>> \in moved => hd[d][f] = v

FilesStowed(dk, hd, m, moved) ==
    /\ HasOrStowed(dk, hd, Root, m.version, moved)
    /\ \A b \in m.backups : HasOrStowed(dk, hd, b.place, b.version, moved)
    /\ OthersVacant(dk, m, {})

UninstallService(s, o, tk, rc, rn) ==
    /\ s \in {"unplan", "stop"} => tk = o.prior /\ rc = o.prior /\ rn \in {NoVersion, o.prior}
    /\ s = "unregister" => tk = o.prior /\ rc = o.prior /\ rn = NoVersion
    /\ s = "unrecord" => tk = NoVersion /\ rc = o.prior /\ rn = NoVersion
    /\ s \in {"quarantine", "key", "commit", "unkey", "unquarantine", "purge", "plan", "register"} =>
          Unserved(tk, rc, rn)
    /\ s = "record" => tk = o.prior /\ rc = NoVersion /\ rn = NoVersion
    /\ s = "start" => tk = o.prior /\ rc = o.prior /\ rn = NoVersion
    /\ s \in {"re_register", "re_record", "re_start"} => rn = NoVersion
    /\ s \in {"re_record", "re_start"} => tk = o.prior
    /\ s = "re_start" => rc = o.prior

UninstallWhole(s, o, dk, hd, mf, ky, tk, rc, rn) ==
    /\ s \notin {"noop_start", "drop_task", "drop_record"}
    /\ o.service = o.old.service /\ o.prior = ServiceOf(o.old)
    /\ s \notin {"quarantine", "key", "commit", "unkey", "unquarantine", "purge"} => o.service = TRUE
    /\ UninstallService(s, o, tk, rc, rn)
    /\ s \in {"unplan", "stop", "unregister", "unrecord", "re_register", "re_record", "re_start",
              "register", "record", "start"} => WholeFiles(o.old, dk, mf, ky)
    /\ s \in {"unplan", "stop", "unregister", "unrecord"} => o.moved = {} /\ o.made = FALSE
    /\ s \in {"quarantine", "key", "commit", "unkey"} =>
          mf = o.old /\ FilesStowed(dk, hd, o.old, o.moved)
    /\ s = "quarantine" => Owned(o.old) \subseteq o.moved \cup o.todo
    /\ s \in {"quarantine", "key"} => ky = TRUE /\ o.made = FALSE
    /\ s \in {"key", "commit"} => Owned(o.old) \subseteq o.moved
    /\ s = "commit" => ky = FALSE /\ o.made = TRUE
    /\ s = "unkey" => ky = TRUE \/ o.made = TRUE
    /\ s = "unquarantine" => mf = o.old /\ ky = TRUE /\ FilesStowed(dk, hd, o.old, o.todo)
    /\ s = "purge" => NothingThere(dk, mf, ky)
    /\ s = "plan" => NothingThere(dk, mf, ky) \/ WholeFiles(o.old, dk, mf, ky)

UnderWay(s, o, dk, hd, mf, ky, tk, rc, rn) ==
    /\ o.kind = "install" => InstallWhole(s, o, dk, mf, ky, tk, rc, rn)
    /\ o.kind = "upgrade" => UpgradeWhole(s, o, dk, mf, ky, tk, rc, rn)
    /\ o.kind = "uninstall" => UninstallWhole(s, o, dk, hd, mf, ky, tk, rc, rn)

Steady ==
    ~mishap =>
        IF \A p \in Process : step[p] = "idle"
        THEN AtRest(disk, manifest, key, task, record, running)
        ELSE \A p \in Process :
                UnderWay(step[p], op[p], disk, hidden, manifest, key, task, record, running)

(* What every step is shown to keep.                                       *)
InstallationInv == SurvivalInv /\ Steady

-----------------------------------------------------------------------------
(* Files, entries and the data of a command.                               *)

LEMMA DiskPut ==
    ASSUME NEW dk \in DiskType, NEW d \in Place, NEW f \in File, NEW v \in AnyVersion
    PROVE  /\ [dk EXCEPT ![d][f] = v] \in DiskType
           /\ [dk EXCEPT ![d][f] = v][d][f] = v
           /\ \A c \in Place, g \in File : c # d \/ g # f =>
                 [dk EXCEPT ![d][f] = v][c][g] = dk[c][g]
BY DEF DiskType

LEMMA EntryType ==
    ASSUME NEW e \in Place \X File
    PROVE  e[1] \in Place /\ e[2] \in File /\ e = <<e[1], e[2]>>
OBVIOUS

LEMMA EntriesType ==
    ASSUME NEW d \in Place, NEW v \in Version
    PROVE  FilesOf[v] \subseteq File /\ Entries(d, v) \subseteq Place \X File
BY InstallationAssumption DEF Entries

LEMMA OwnedType ==
    ASSUME NEW m \in InstallManifest
    PROVE  Owned(m) \subseteq Place \X File
<1>1. \A b \in m.backups : b.place \in Place /\ b.version \in Version
  BY DEF InstallManifest, Place
<1>2. m.version \in Version /\ Root \in Place
  BY DEF InstallManifest, Place
<1> QED
  BY <1>1, <1>2, EntriesType DEF Owned

WithTodo(o, t) == [o EXCEPT !.todo = t]

LEMMA WithTodoFacts ==
    ASSUME NEW o \in OpType, NEW t \in SUBSET (Place \X File)
    PROVE  /\ WithTodo(o, t) \in OpType /\ WithTodo(o, t).todo = t
           /\ WithTodo(o, t).kind = o.kind /\ WithTodo(o, t).new = o.new
           /\ WithTodo(o, t).old = o.old /\ WithTodo(o, t).place = o.place
           /\ WithTodo(o, t).service = o.service /\ WithTodo(o, t).prior = o.prior
           /\ WithTodo(o, t).made = o.made /\ WithTodo(o, t).moved = o.moved
BY DEF WithTodo, OpType

(* A command knows the files of each phase.                                *)
LEMMA TodoType ==
    ASSUME NEW o, NEW s, NEW r, OpOK(r, o), s \in StepsOf(o.kind)
    PROVE  Todo(s, o) \subseteq Place \X File
<1>1. Root \in Place
  BY DEF Place
<1>2. CASE o.kind = "install"
  BY <1>1, <1>2, EntriesType DEF OpOK, StepsOf, InstallStep, Todo
<1>3. CASE o.kind = "upgrade"
  <2>1. o.old.version \in Version
    BY <1>3 DEF OpOK, InstallManifest
  <2> QED
    BY <1>1, <1>3, <2>1, EntriesType DEF OpOK, StepsOf, UpgradeStep, Todo
<1>4. CASE o.kind = "uninstall"
  BY <1>4, OwnedType DEF OpOK, StepsOf, UninstallStep, Todo, OpType
<1> QED
  BY <1>2, <1>3, <1>4 DEF OpOK, OpType

-----------------------------------------------------------------------------
(* What the moves of a command do to its data.                             *)

SameOp(o, n) ==
    /\ n.kind = o.kind /\ n.new = o.new /\ n.old = o.old
    /\ n.place = o.place /\ n.service = o.service /\ n.prior = o.prior

(* A command that goes on at s with o.                                     *)
MovesTo(p, s, o) ==
    /\ step'[p] = s /\ (s # "idle" => op'[p] = o)
    /\ ProcessesOK(step', op')

LEMMA TodoSame ==
    ASSUME NEW s, NEW o, NEW n, SameOp(o, n), n.moved = o.moved
    PROVE  Todo(s, n) = Todo(s, o)
BY DEF Todo, SameOp

LEMMA OpMoves ==
    ASSUME InstallationTypeOK, NEW p \in Process, NEW s, NEW o, NEW x,
           step' = [step EXCEPT ![p] = s], op' = [op EXCEPT ![p] = x],
           s # "idle" => x = o /\ OpOK(s, o)
    PROVE  MovesTo(p, s, o)
<1>1. DOMAIN step = Process /\ DOMAIN op = Process /\ \A q \in Process : q = p
  BY DEF InstallationTypeOK, ProcessesOK, OneCommand
<1>2. /\ step' = [q \in Process |-> step'[q]] /\ op' = [q \in Process |-> op'[q]]
      /\ step'[p] = s /\ op'[p] = x
  BY <1>1
<1> QED
  BY <1>1, <1>2 DEF MovesTo, ProcessesOK

LEMMA GoToMoves ==
    ASSUME InstallationTypeOK, NEW p \in Process, step[p] # "idle", NEW s, GoTo(p, s),
           s = "idle" \/ s \in StepsOf(op[p].kind)
    PROVE  /\ MovesTo(p, s, op'[p])
           /\ s # "idle" => /\ SameOp(op[p], op'[p]) /\ op'[p].todo = Todo(s, op[p])
                            /\ op'[p].made = op[p].made /\ op'[p].moved = op[p].moved
<1> DEFINE o == op[p]
           n == WithTodo(o, Todo(s, o))
<1>1. OpOK(step[p], o)
  BY DEF InstallationTypeOK, ProcessesOK
<1>2. s # "idle" => Todo(s, o) \subseteq Place \X File
  BY <1>1, TodoType
<1>3. s # "idle" => /\ SameOp(o, n) /\ n.todo = Todo(s, o) /\ n.made = o.made
                    /\ n.moved = o.moved /\ n \in OpType
  BY <1>1, <1>2, WithTodoFacts DEF OpOK, SameOp
<1>4. s # "idle" => Todo(s, n) = Todo(s, o)
  BY <1>3, TodoSame
<1>5. s # "idle" => OpOK(s, n)
  <2> HIDE DEF n
  <2> QED
    BY <1>1, <1>3, <1>4 DEF OpOK, SameOp
<1>6. MovesTo(p, s, n)
  <2>1. step' = [step EXCEPT ![p] = s]
        /\ op' = [op EXCEPT ![p] = IF s = "idle" THEN NoOp ELSE n]
    BY DEF GoTo, WithTodo
  <2> HIDE DEF n, o
  <2> QED
    BY <2>1, <1>5, OpMoves
<1> QED
  BY <1>3, <1>6 DEF MovesTo

LEMMA DidMoves ==
    ASSUME InstallationTypeOK, NEW p \in Process, step[p] # "idle", NEW e, Did(p, e)
    PROVE  /\ MovesTo(p, step[p], op'[p]) /\ step' = step
           /\ SameOp(op[p], op'[p]) /\ op'[p].todo = op[p].todo \ {e}
           /\ op'[p].made = op[p].made /\ op'[p].moved = op[p].moved
<1> DEFINE o == op[p]
           n == WithTodo(o, o.todo \ {e})
<1>1. OpOK(step[p], o) /\ step = [q \in Process |-> step[q]]
  BY DEF InstallationTypeOK, ProcessesOK
<1>2. o.todo \ {e} \subseteq Place \X File /\ o \in OpType
  BY <1>1 DEF OpOK, OpType
<1>3. SameOp(o, n) /\ n.todo = o.todo \ {e} /\ n.made = o.made /\ n.moved = o.moved /\ n \in OpType
  BY <1>2, WithTodoFacts DEF SameOp
<1>4. Todo(step[p], n) = Todo(step[p], o)
  BY <1>3, TodoSame
<1>5. OpOK(step[p], n)
  <2> HIDE DEF n
  <2> QED
    BY <1>1, <1>3, <1>4 DEF OpOK, SameOp
<1>6. op' = [op EXCEPT ![p] = n] /\ step' = [step EXCEPT ![p] = step[p]] /\ step' = step
  BY <1>1 DEF Did, WithTodo
<1>7. MovesTo(p, step[p], n)
  <2> HIDE DEF n
  <2> QED
    BY <1>5, <1>6, OpMoves
<1> QED
  BY <1>3, <1>6, <1>7 DEF MovesTo

MadeOp(o, t) == [o EXCEPT !.made = TRUE, !.todo = t]

LEMMA MadeMoves ==
    ASSUME InstallationTypeOK, NEW p \in Process, step[p] # "idle", NEW s, Made(p, s),
           s # "idle", s \in StepsOf(op[p].kind)
    PROVE  /\ MovesTo(p, s, op'[p])
           /\ SameOp(op[p], op'[p]) /\ op'[p].todo = Todo(s, op[p])
           /\ op'[p].made = TRUE /\ op'[p].moved = op[p].moved
<1> DEFINE o == op[p]
           n == MadeOp(o, Todo(s, o))
<1>1. OpOK(step[p], o) /\ step = [q \in Process |-> step[q]]
  BY DEF InstallationTypeOK, ProcessesOK
<1>2. Todo(s, o) \subseteq Place \X File /\ o \in OpType
  BY <1>1, TodoType DEF OpOK
<1>3. SameOp(o, n) /\ n.todo = Todo(s, o) /\ n.made = TRUE /\ n.moved = o.moved /\ n \in OpType
  <2> DEFINE t == Todo(s, o)
  <2>1. t \subseteq Place \X File
    BY <1>2
  <2> HIDE DEF t, o
  <2>2. SameOp(o, MadeOp(o, t)) /\ MadeOp(o, t).todo = t /\ MadeOp(o, t).made = TRUE
        /\ MadeOp(o, t).moved = o.moved /\ MadeOp(o, t) \in OpType
    BY <2>1, <1>2 DEF MadeOp, OpType, SameOp
  <2> QED
    BY <2>2 DEF t
<1>4. Todo(s, n) = Todo(s, o)
  BY <1>3, TodoSame
<1>5. OpOK(s, n)
  <2> HIDE DEF n
  <2> QED
    BY <1>1, <1>3, <1>4 DEF OpOK, SameOp
<1>6. op' = [op EXCEPT ![p] = n] /\ step' = [step EXCEPT ![p] = s]
  BY DEF Made, MadeOp
<1>7. MovesTo(p, s, n)
  <2> HIDE DEF n
  <2> QED
    BY <1>5, <1>6, OpMoves
<1> QED
  BY <1>3, <1>7 DEF MovesTo

(* The data a command starts with.                                         *)
FirstOp(kind, v, old, place, managed, prior, t) ==
    [kind |-> kind, new |-> v, old |-> old, place |-> place, service |-> managed,
     prior |-> prior, made |-> FALSE, moved |-> {}, todo |-> t]

Started(p, s, kind, v, old, place, managed) ==
    /\ MovesTo(p, s, op'[p])
    /\ op'[p].kind = kind /\ op'[p].new = v /\ op'[p].old = old /\ op'[p].place = place
    /\ op'[p].service = managed /\ op'[p].prior = record /\ op'[p].made = FALSE
    /\ op'[p].moved = {} /\ op'[p].todo = Todo(s, op'[p])

LEMMA BeginMoves ==
    ASSUME InstallationTypeOK, NEW p \in Process,
           NEW s, NEW kind \in {"install", "upgrade", "uninstall"}, NEW v \in AnyVersion,
           NEW old \in InstallManifest \cup {NotInstalled}, NEW place \in Place,
           NEW managed \in BOOLEAN, Begin(p, s, kind, v, old, place, managed),
           s # "idle", s \in StepsOf(kind),
           kind # "uninstall" => v \in Version,
           kind # "install" => old \in InstallManifest,
           kind = "upgrade" => place \in Transaction
    PROVE  Started(p, s, kind, v, old, place, managed)
<1> DEFINE z == FirstOp(kind, v, old, place, managed, record, {})
           t == Todo(s, z)
           n == WithTodo(z, t)
<1>1. record \in AnyVersion
  BY DEF InstallationTypeOK
<1>2. z \in OpType /\ z.kind = kind /\ z.new = v /\ z.old = old /\ z.place = place
      /\ z.moved = {} /\ z.todo = {} /\ z.service = managed /\ z.prior = record /\ z.made = FALSE
  BY <1>1 DEF FirstOp, OpType
<1>3. OpOK(s, z)
  BY <1>2 DEF OpOK
<1>4. t \subseteq Place \X File
  BY <1>2, <1>3, TodoType
<1>6. /\ n.kind = kind /\ n.new = v /\ n.old = old /\ n.place = place /\ n.service = managed
      /\ n.prior = record /\ n.made = FALSE /\ n.moved = {} /\ n.todo = t
  BY <1>2, <1>4, WithTodoFacts
<1>7. n \in OpType /\ SameOp(z, n) /\ n.moved = z.moved
  BY <1>2, <1>4, WithTodoFacts DEF SameOp
<1>8. Todo(s, n) = t
  BY <1>7, TodoSame
<1>9. OpOK(s, n)
  <2> HIDE DEF n, t
  <2> QED
    BY <1>6, <1>7, <1>8 DEF OpOK
<1>10. op' = [op EXCEPT ![p] = n] /\ step' = [step EXCEPT ![p] = s]
  BY DEF Begin, FirstOp, WithTodo
<1>11. MovesTo(p, s, n)
  <2> HIDE DEF n
  <2> QED
    BY <1>9, <1>10, OpMoves
<1>12. op'[p] = n
  BY <1>11 DEF MovesTo
<1> HIDE DEF n, t, z
<1> QED
  BY <1>6, <1>8, <1>11, <1>12 DEF Started

(* The invariants as one command sees them.                                *)
LEMMA Sees ==
    ASSUME InstallationInv, NEW p \in Process
    PROVE  /\ InstallationTypeOK /\ Survives(disk, hidden, manifest)
           /\ step[p] # "idle" =>
                 /\ OpOK(step[p], op[p])
                 /\ KeepsABundle(step[p], op[p], disk, hidden, manifest)
                 /\ ~mishap => UnderWay(step[p], op[p], disk, hidden, manifest, key, task, record, running)
           /\ step[p] = "idle" /\ ~mishap => AtRest(disk, manifest, key, task, record, running)
<1>1. InstallationTypeOK /\ \A q \in Process : q = p
  BY DEF InstallationInv, SurvivalInv, InstallationTypeOK, OneCommand
<1> QED
  BY <1>1 DEF InstallationInv, SurvivalInv, Steady, InstallationTypeOK, ProcessesOK

StoresOK ==
    /\ disk \in DiskType /\ hidden \in DiskType
    /\ manifest \in InstallManifest \cup {NotInstalled}
    /\ key \in BOOLEAN /\ mishap \in BOOLEAN
    /\ task \in AnyVersion /\ record \in AnyVersion /\ running \in AnyVersion

LEMMA Concludes ==
    ASSUME InstallationTypeOK, NEW p \in Process, NEW s, MovesTo(p, s, op'[p]), StoresOK',
           RequestOK(request'), Survives(disk', hidden', manifest'),
           s # "idle" => KeepsABundle(s, op'[p], disk', hidden', manifest'),
           ~mishap' =>
              IF s = "idle" THEN AtRest(disk', manifest', key', task', record', running')
              ELSE UnderWay(s, op'[p], disk', hidden', manifest', key', task', record', running')
    PROVE  InstallationInv'
<1>1. OneCommand /\ \A q \in Process : q = p
  BY DEF InstallationTypeOK, OneCommand
<1>2. step'[p] = s /\ ProcessesOK(step', op')
  BY DEF MovesTo
<1>3. OneCommand'
  BY <1>1 DEF OneCommand
<1>4. InstallationTypeOK'
  BY <1>2, <1>3 DEF InstallationTypeOK, StoresOK
<1>5. SurvivalInv'
  BY <1>1, <1>2, <1>4 DEF SurvivalInv
<1>6. Steady'
  BY <1>1, <1>2 DEF Steady
<1> QED
  BY <1>5, <1>6 DEF InstallationInv

LEMMA HasExecutable ==
    ASSUME NEW v \in Version, NEW d \in Place, NEW dk, HasIn(dk, d, v) \/ IntactIn(dk, d, v)
    PROVE  dk[d][Executable] = v /\ IntactIn(dk, d, v)
BY InstallationAssumption DEF HasIn, IntactIn

(* A step that leaves the files, the manifest and the key alone.           *)
LEMMA Advances ==
    ASSUME InstallationInv, NEW p \in Process, NEW s, MovesTo(p, s, op'[p]),
           UNCHANGED <<disk, hidden, manifest, key, request>>,
           task' \in AnyVersion, record' \in AnyVersion, running' \in AnyVersion,
           mishap' \in BOOLEAN,
           s # "idle" => KeepsABundle(s, op'[p], disk, hidden, manifest),
           ~mishap' =>
              IF s = "idle" THEN AtRest(disk, manifest, key, task', record', running')
              ELSE UnderWay(s, op'[p], disk, hidden, manifest, key, task', record', running')
    PROVE  InstallationInv'
<1>1. InstallationTypeOK /\ Survives(disk, hidden, manifest)
  BY Sees
<1>2. StoresOK'
  BY <1>1 DEF InstallationTypeOK, StoresOK
<1>3. RequestOK(request')
  BY <1>1 DEF InstallationTypeOK
<1> QED
  BY <1>1, <1>2, <1>3, Concludes

LEMMA OpFacts ==
    ASSUME NEW s, NEW o, OpOK(s, o)
    PROVE  /\ o \in OpType /\ o.kind \in {"install", "upgrade", "uninstall"}
           /\ o.prior \in AnyVersion /\ o.new \in AnyVersion
           /\ o.kind # "uninstall" => o.new \in Version /\ o.new # NoVersion
           /\ o.kind # "install" =>
                 /\ o.old \in InstallManifest /\ o.old.version \in Version
                 /\ o.old.version # NoVersion /\ o.old.service \in BOOLEAN
           /\ o.kind = "upgrade" => o.place \in Transaction /\ o.place \in Place /\ o.place # Root
           /\ o.service \in BOOLEAN /\ o.made \in BOOLEAN
           /\ Root \in Place
BY InstallationAssumption DEF OpOK, OpType, InstallManifest, Place

LEMMA TargetType ==
    ASSUME NEW s, NEW o, OpOK(s, o)
    PROVE  Target(o) \in AnyVersion
BY OpFacts DEF Target

LEMMA RecoveryGoes ==
    ASSUME NEW s, NEW o, OpOK(s, o)
    PROVE  Recovery(o, s) = "idle" \/ Recovery(o, s) \in StepsOf(o.kind)
<1>1. CASE o.kind = "install"
  BY <1>1 DEF OpOK, StepsOf, Recovery, InstallStep, InstallRecovery
<1>2. CASE o.kind = "upgrade"
  BY <1>2 DEF OpOK, StepsOf, Recovery, UpgradeStep, UpgradeRecovery, RestartOr
<1>3. CASE o.kind = "uninstall"
  BY <1>3 DEF OpOK, StepsOf, Recovery, UninstallStep, UninstallRecovery
<1> QED
  BY <1>1, <1>2, <1>3, OpFacts

(* An exception finds what it needs.                                       *)
LEMMA RecoveryKeeps ==
    ASSUME NEW r, NEW o, NEW n, NEW dk, NEW hd, NEW mf, OpOK(r, o),
           KeepsABundle(r, o, dk, hd, mf), SameOp(o, n), n.moved = o.moved
    PROVE  KeepsABundle(Recovery(o, r), n, dk, hd, mf)
<1> DEFINE s == Recovery(o, r)
<1> SUFFICES KeepsABundle(s, n, dk, hd, mf)
  OBVIOUS
<1>1. CASE o.kind = "install"
  <2>1. s \in {"clean_manifest", "drop_task", "idle"}
    BY <1>1 DEF Recovery, InstallRecovery
  <2> HIDE DEF s
  <2> QED
    BY <1>1, <2>1 DEF KeepsABundle, SameOp
<1>2. CASE o.kind = "upgrade"
  <2>1. (s \in OldInRoot => r \in OldInRoot) /\ (s \in OldInBackup => r \in OldInBackup)
    BY <1>2 DEF Recovery, UpgradeRecovery, RestartOr, OldInRoot, OldInBackup
  <2> HIDE DEF s
  <2> QED
    BY <1>2, <2>1 DEF KeepsABundle, SameOp
<1>3. CASE o.kind = "uninstall"
  <2>1. (s \in OldStowed => r \in OldStowed) /\ s # "unquarantine" /\ s # "purge"
    BY <1>3 DEF Recovery, UninstallRecovery, OldStowed
  <2> HIDE DEF s
  <2> QED
    BY <1>3, <2>1 DEF KeepsABundle, SameOp
<1> QED
  BY <1>1, <1>2, <1>3, OpFacts

LEMMA ImageType == InstallationTypeOK /\ Version # {} => Image \in AnyVersion
BY InstallationAssumption DEF InstallationTypeOK, Image, DiskType, Place

LEMMA NoVersionIsNone == NoVersion \notin Version
BY InstallationAssumption

(* An installation is whole where a command ends.                          *)
LEMMA InstallIsWhole ==
    ASSUME NEW dk, NEW v \in Version, NEW m, m.version = v, m.backups = {},
           \A d \in Transaction : Vacant(dk, d), Outside(dk, FilesOf[v]), IntactIn(dk, Root, v)
    PROVE  FilesWhole(dk, m)
BY DEF FilesWhole, HasIn, Outside, IntactIn, BackupsIn, OthersVacant, PlacesOf

LEMMA NewManifestFacts ==
    ASSUME NEW s, NEW o, OpOK(s, o), o.kind = "upgrade"
    PROVE  /\ NewManifest(o) \in InstallManifest /\ NewManifest(o) # NotInstalled
           /\ NewManifest(o).version = o.new /\ NewManifest(o).service = o.service
           /\ NewManifest(o).backups = o.old.backups \cup {[place |-> o.place, version |-> o.old.version]}
<1>1. o.old \in InstallManifest /\ o.place \in Transaction /\ o.new \in Version
      /\ o.service \in BOOLEAN /\ o.old.version \in Version
  BY OpFacts
<1>2. o.old.backups \cup {[place |-> o.place, version |-> o.old.version]}
        \subseteq [place : Transaction, version : Version]
  BY <1>1 DEF InstallManifest
<1> QED
  BY <1>1, <1>2, InstallationAssumption DEF NewManifest, InstallManifest

LEMMA UpgradeIsWhole ==
    ASSUME NEW s, NEW o, OpOK(s, o), o.kind = "upgrade", NEW dk,
           HasIn(dk, Root, o.new), HasIn(dk, o.place, o.old.version),
           BackupsIn(dk, o.old), OthersVacant(dk, o.old, {o.place})
    PROVE  FilesWhole(dk, NewManifest(o))
<1> DEFINE m == NewManifest(o)
           b == [place |-> o.place, version |-> o.old.version]
<1>1. m.version = o.new /\ m.backups = o.old.backups \cup {b}
  BY NewManifestFacts
<1>2. b.place = o.place /\ b.version = o.old.version
  OBVIOUS
<1> HIDE DEF m, b
<1>3. BackupsIn(dk, m)
  BY <1>1, <1>2 DEF BackupsIn
<1>4. PlacesOf(m) = PlacesOf(o.old) \cup {o.place}
  BY <1>1, <1>2 DEF PlacesOf
<1>5. OthersVacant(dk, m, {})
  BY <1>4 DEF OthersVacant
<1>6. FilesWhole(dk, m)
  BY <1>1, <1>3, <1>5 DEF FilesWhole
<1> QED
  BY <1>6 DEF m

LEMMA RollbackIsWhole ==
    ASSUME NEW o, NEW dk, HasIn(dk, Root, o.old.version), Vacant(dk, o.place),
           BackupsIn(dk, o.old), OthersVacant(dk, o.old, {o.place})
    PROVE  FilesWhole(dk, o.old)
<1>1. OthersVacant(dk, o.old, {})
  BY DEF OthersVacant
<1> QED
  BY <1>1 DEF FilesWhole

LEMMA ManifestIsThere == \A m \in InstallManifest : m # NotInstalled
BY InstallationAssumption

(* Nothing is renamed yet, or everything is back.                          *)
LEMMA StowedNothing ==
    ASSUME NEW dk, NEW hd, NEW m
    PROVE  FilesStowed(dk, hd, m, {}) <=> FilesWhole(dk, m)
BY DEF FilesStowed, FilesWhole, BackupsIn, HasOrStowed, HasIn

(* Registration of the service.                                            *)
LEMMA RegisterTaskOK ==
    ASSUME InstallationInv, NEW p \in Process, RegisterTask(p)
    PROVE  InstallationInv'
<1> DEFINE o == op[p]
           r == step[p]
           s == "record"
<1>1. r \in {"register"} /\ GoTo(p, s)
      /\ UNCHANGED <<disk, hidden, manifest, key, request, record, running, mishap>>
      /\ task' = Target(o)
  BY DEF RegisterTask, bundle, service, CreateTask
<1>2. InstallationTypeOK /\ OpOK(r, o) /\ KeepsABundle(r, o, disk, hidden, manifest)
      /\ (~mishap => UnderWay(r, o, disk, hidden, manifest, key, task, record, running))
  BY <1>1, Sees
<1>3. (s = "idle" \/ s \in StepsOf(o.kind))
      /\ (s = "record")
  BY <1>1, <1>2 DEF StepsOf, InstallStep, UpgradeStep, UninstallStep, OpOK
<1>4. MovesTo(p, s, op'[p])
      /\ (s # "idle" => /\ SameOp(o, op'[p]) /\ op'[p].todo = Todo(s, o)
                        /\ op'[p].made = o.made /\ op'[p].moved = o.moved)
  BY <1>1, <1>2, <1>3, GoToMoves
<1>5. task' \in AnyVersion /\ record' \in AnyVersion /\ running' \in AnyVersion
      /\ mishap' \in BOOLEAN
  BY <1>1, <1>2, TargetType DEF InstallationTypeOK
<1> HIDE DEF s
<1>6. s # "idle" => KeepsABundle(s, op'[p], disk, hidden, manifest)
  BY <1>1, <1>2, <1>3, <1>4
  DEF KeepsABundle, SameOp, OldInRoot, OldInBackup, OldStowed, StepsOf, InstallStep, UpgradeStep,
      UninstallStep, OpOK
<1>7. ASSUME ~mishap'
      PROVE  IF s = "idle" THEN AtRest(disk, manifest, key, task', record', running')
             ELSE UnderWay(s, op'[p], disk, hidden, manifest, key, task', record', running')
  <2>1. UnderWay(r, o, disk, hidden, manifest, key, task, record, running)
    BY <1>1, <1>2, <1>7
  <2>2. CASE o.kind = "install"
    BY <1>1, <1>2, <1>3, <1>4, <2>1, <2>2, OpFacts
    DEF UnderWay, InstallWhole, SameOp, Unserved, Target
  <2>3. CASE o.kind = "upgrade"
    <3>1. UpgradeWhole(r, o, disk, manifest, key, task, record, running)
      BY <2>1, <2>3 DEF UnderWay
    <3>2. s = "record"
      BY <1>1, <1>3, <2>3
    <3>3. SameOp(o, op'[p])
      BY <1>4, <3>2
    <3>4. UpgradeFiles(s, op'[p], disk)
      BY <1>1, <3>1, <3>2, <3>3 DEF UpgradeWhole, UpgradeFiles, SameOp, OldInBackup, OldInRoot
    <3>5. UpgradeService(s, op'[p], task', record', running')
      BY <1>1, <1>7, <2>3, <3>1, <3>2, <3>3 DEF UpgradeWhole, UpgradeService, SameOp, Target
    <3>6. UpgradeWhole(s, op'[p], disk, manifest, key, task', record', running')
      BY <1>1, <3>1, <3>2, <3>3, <3>4, <3>5 DEF UpgradeWhole, SameOp, NewManifest
    <3> QED
      BY <3>2, <3>3, <3>6, <2>3 DEF UnderWay, SameOp
  <2>4. CASE o.kind = "uninstall"
    BY <1>1, <1>2, <1>3, <1>4, <2>1, <2>4, OpFacts
    DEF UnderWay, UninstallWhole, UninstallService, SameOp, Unserved, Target
  <2> QED
    BY <2>2, <2>3, <2>4, <1>2, OpFacts
<1> QED
  BY <1>1, <1>4, <1>5, <1>6, <1>7, Advances

LEMMA WriteRecordOK ==
    ASSUME InstallationInv, NEW p \in Process, WriteRecord(p)
    PROVE  InstallationInv'
<1> DEFINE o == op[p]
           r == step[p]
           s == "start"
<1>1. r \in {"record"} /\ GoTo(p, s)
      /\ UNCHANGED <<disk, hidden, manifest, key, request, task, running, mishap>>
      /\ record' = Target(o)
  BY DEF WriteRecord, bundle, service
<1>2. InstallationTypeOK /\ OpOK(r, o) /\ KeepsABundle(r, o, disk, hidden, manifest)
      /\ (~mishap => UnderWay(r, o, disk, hidden, manifest, key, task, record, running))
  BY <1>1, Sees
<1>3. (s = "idle" \/ s \in StepsOf(o.kind))
      /\ (s = "start")
  BY <1>1, <1>2 DEF StepsOf, InstallStep, UpgradeStep, UninstallStep, OpOK
<1>4. MovesTo(p, s, op'[p])
      /\ (s # "idle" => /\ SameOp(o, op'[p]) /\ op'[p].todo = Todo(s, o)
                        /\ op'[p].made = o.made /\ op'[p].moved = o.moved)
  BY <1>1, <1>2, <1>3, GoToMoves
<1>5. task' \in AnyVersion /\ record' \in AnyVersion /\ running' \in AnyVersion
      /\ mishap' \in BOOLEAN
  BY <1>1, <1>2, TargetType DEF InstallationTypeOK
<1> HIDE DEF s
<1>6. s # "idle" => KeepsABundle(s, op'[p], disk, hidden, manifest)
  BY <1>1, <1>2, <1>3, <1>4
  DEF KeepsABundle, SameOp, OldInRoot, OldInBackup, OldStowed, StepsOf, InstallStep, UpgradeStep,
      UninstallStep, OpOK
<1>7. ASSUME ~mishap'
      PROVE  IF s = "idle" THEN AtRest(disk, manifest, key, task', record', running')
             ELSE UnderWay(s, op'[p], disk, hidden, manifest, key, task', record', running')
  <2>1. UnderWay(r, o, disk, hidden, manifest, key, task, record, running)
    BY <1>1, <1>2, <1>7
  <2>2. CASE o.kind = "install"
    BY <1>1, <1>2, <1>3, <1>4, <2>1, <2>2, OpFacts
    DEF UnderWay, InstallWhole, SameOp, Unserved, Target
  <2>3. CASE o.kind = "upgrade"
    <3>1. UpgradeWhole(r, o, disk, manifest, key, task, record, running)
      BY <2>1, <2>3 DEF UnderWay
    <3>2. s = "start"
      BY <1>1, <1>3, <2>3
    <3>3. SameOp(o, op'[p])
      BY <1>4, <3>2
    <3>4. UpgradeFiles(s, op'[p], disk)
      BY <1>1, <3>1, <3>2, <3>3 DEF UpgradeWhole, UpgradeFiles, SameOp, OldInBackup, OldInRoot
    <3>5. UpgradeService(s, op'[p], task', record', running')
      BY <1>1, <1>7, <2>3, <3>1, <3>2, <3>3 DEF UpgradeWhole, UpgradeService, SameOp, Target
    <3>6. UpgradeWhole(s, op'[p], disk, manifest, key, task', record', running')
      BY <1>1, <3>1, <3>2, <3>3, <3>4, <3>5 DEF UpgradeWhole, SameOp, NewManifest
    <3> QED
      BY <3>2, <3>3, <3>6, <2>3 DEF UnderWay, SameOp
  <2>4. CASE o.kind = "uninstall"
    BY <1>1, <1>2, <1>3, <1>4, <2>1, <2>4, OpFacts
    DEF UnderWay, UninstallWhole, UninstallService, SameOp, Unserved, Target
  <2> QED
    BY <2>2, <2>3, <2>4, <1>2, OpFacts
<1> QED
  BY <1>1, <1>4, <1>5, <1>6, <1>7, Advances

LEMMA StartServiceOK ==
    ASSUME InstallationInv, NEW p \in Process, StartService(p)
    PROVE  InstallationInv'
<1> DEFINE o == op[p]
           r == step[p]
           s == IF step[p] = "re_start" /\ op[p].kind = "upgrade" THEN "stop_again" ELSE "idle"
<1>1. r \in {"start", "noop_start", "re_start", "restart"} /\ GoTo(p, s)
      /\ UNCHANGED <<disk, hidden, manifest, key, request, task, record, mishap>>
      /\ running' = Image
      /\ (r \in {"start", "noop_start"} => task = Target(o))
      /\ (r \in {"re_start", "restart"} => task = o.prior)
  BY DEF StartService, bundle, service, Starts, TaskIs
<1>2. InstallationTypeOK /\ OpOK(r, o) /\ KeepsABundle(r, o, disk, hidden, manifest)
      /\ (~mishap => UnderWay(r, o, disk, hidden, manifest, key, task, record, running))
  BY <1>1, Sees
<1>3. (s = "idle" \/ s \in StepsOf(o.kind))
      /\ (s = IF r = "re_start" /\ o.kind = "upgrade" THEN "stop_again" ELSE "idle")
  BY <1>1, <1>2 DEF StepsOf, InstallStep, UpgradeStep, UninstallStep, OpOK
<1>4. MovesTo(p, s, op'[p])
      /\ (s # "idle" => /\ SameOp(o, op'[p]) /\ op'[p].todo = Todo(s, o)
                        /\ op'[p].made = o.made /\ op'[p].moved = o.moved)
  BY <1>1, <1>2, <1>3, GoToMoves
<1>5. task' \in AnyVersion /\ record' \in AnyVersion /\ running' \in AnyVersion
      /\ mishap' \in BOOLEAN
  <2>1. Version # {}
    BY <1>2, OpFacts
  <2> QED
    BY <1>1, <1>2, <2>1, ImageType DEF InstallationTypeOK
<1> HIDE DEF s
<1>6. s # "idle" => KeepsABundle(s, op'[p], disk, hidden, manifest)
  BY <1>1, <1>2, <1>3, <1>4
  DEF KeepsABundle, SameOp, OldInRoot, OldInBackup, OldStowed, StepsOf, InstallStep, UpgradeStep,
      UninstallStep, OpOK
<1>7. ASSUME ~mishap'
      PROVE  IF s = "idle" THEN AtRest(disk, manifest, key, task', record', running')
             ELSE UnderWay(s, op'[p], disk, hidden, manifest, key, task', record', running')
  <2>1. UnderWay(r, o, disk, hidden, manifest, key, task, record, running)
    BY <1>1, <1>2, <1>7
  <2>2. CASE o.kind = "install"
    <3>1. InstallWhole(r, o, disk, manifest, key, task, record, running) /\ r = "start" /\ s = "idle"
      BY <1>1, <1>2, <1>3, <2>1, <2>2 DEF UnderWay, InstallWhole, OpOK, StepsOf, InstallStep
    <3>2. /\ manifest = [version |-> o.new, service |-> TRUE, backups |-> {}]
          /\ key = TRUE /\ IntactIn(disk, Root, o.new) /\ Outside(disk, FilesOf[o.new])
          /\ \A d \in Transaction : Vacant(disk, d)
          /\ task = o.new /\ record = o.new /\ running = NoVersion
      BY <3>1 DEF InstallWhole
    <3>3. o.new \in Version
      BY <1>2, <2>2, OpFacts
    <3>4. manifest # NotInstalled
      BY <3>2, <3>3, ManifestIsThere DEF InstallManifest
    <3>5. manifest.version = o.new /\ manifest.backups = {} /\ manifest.service = TRUE
      BY <3>2
    <3>6. FilesWhole(disk, manifest)
      BY <3>2, <3>3, <3>5, InstallIsWhole
    <3>7. Image = o.new
      BY <3>2, <3>3, HasExecutable, OpFacts, <1>2 DEF Image
    <3>8. running' = o.new
      BY <1>1, <3>7
    <3> QED
      BY <1>1, <3>1, <3>2, <3>4, <3>5, <3>6, <3>8 DEF AtRest, WholeFiles, ServiceOf
  <2>3. CASE o.kind = "upgrade"
    <3>1. UpgradeWhole(r, o, disk, manifest, key, task, record, running)
      BY <2>1, <2>3 DEF UnderWay
    <3>2. o.new \in Version /\ o.old.version \in Version /\ Root \in Place
          /\ o.old \in InstallManifest /\ o.old # NotInstalled
      BY <1>2, <2>3, OpFacts, ManifestIsThere
    <3>3. o.service = TRUE /\ o.old.service = TRUE /\ o.prior = o.old.version /\ key = TRUE
      BY <1>1, <3>1 DEF UpgradeWhole, ServiceOf
    <3>4. CASE r = "re_start"
      <4>1. s = "stop_again" /\ SameOp(o, op'[p])
        BY <1>3, <1>4, <2>3, <3>4
      <4>2. HasIn(disk, Root, o.new) /\ running \in {NoVersion, o.new} /\ record = o.prior
        BY <3>1, <3>4 DEF UpgradeWhole, UpgradeFiles, UpgradeService
      <4>3. running' = o.new /\ task = o.prior
        BY <1>1, <3>2, <3>4, <4>2, HasExecutable DEF Image
      <4>4. UpgradeFiles(s, op'[p], disk)
        BY <3>1, <3>4, <4>1 DEF UpgradeWhole, UpgradeFiles, SameOp, OldInBackup, OldInRoot
      <4>5. UpgradeService(s, op'[p], task', record', running')
        BY <1>1, <4>1, <4>2, <4>3 DEF UpgradeService, SameOp
      <4>6. UpgradeWhole(s, op'[p], disk, manifest, key, task', record', running')
        BY <3>1, <3>3, <4>1, <4>4, <4>5 DEF UpgradeWhole, SameOp
      <4> QED
        BY <2>3, <4>1, <4>6 DEF UnderWay, SameOp
    <3>5. CASE r = "restart"
      <4>1. /\ s = "idle" /\ manifest = o.old /\ HasIn(disk, Root, o.old.version)
            /\ Vacant(disk, o.place) /\ BackupsIn(disk, o.old) /\ OthersVacant(disk, o.old, {o.place})
            /\ task = o.prior /\ record = o.prior /\ running = NoVersion
        BY <1>3, <3>1, <3>5 DEF UpgradeWhole, UpgradeFiles, UpgradeService
      <4>2. running' = o.old.version
        BY <1>1, <3>2, <4>1, HasExecutable DEF Image
      <4>3. FilesWhole(disk, o.old)
        BY <4>1, RollbackIsWhole
      <4> QED
        BY <1>1, <3>2, <3>3, <4>1, <4>2, <4>3 DEF AtRest, WholeFiles, ServiceOf
    <3>6. CASE r \in {"start", "noop_start"}
      <4>1. /\ s = "idle" /\ manifest = NewManifest(o) /\ HasIn(disk, Root, o.new)
            /\ HasIn(disk, o.place, o.old.version) /\ BackupsIn(disk, o.old)
            /\ OthersVacant(disk, o.old, {o.place})
            /\ task = o.new /\ record = o.new /\ running = NoVersion
        BY <1>3, <3>1, <3>6 DEF UpgradeWhole, UpgradeFiles, UpgradeService, OldInBackup
      <4>2. running' = o.new
        BY <1>1, <3>2, <4>1, HasExecutable DEF Image
      <4>3. FilesWhole(disk, manifest)
        BY <1>2, <2>3, <4>1, UpgradeIsWhole
      <4>4. manifest.version = o.new /\ manifest.service = TRUE /\ manifest # NotInstalled
        BY <1>2, <2>3, <3>3, <4>1, NewManifestFacts
      <4> QED
        BY <1>1, <3>3, <4>1, <4>2, <4>3, <4>4 DEF AtRest, WholeFiles, ServiceOf
    <3> QED
      BY <1>1, <3>4, <3>5, <3>6
  <2>4. CASE o.kind = "uninstall"
    <3>1. UninstallWhole(r, o, disk, hidden, manifest, key, task, record, running)
          /\ r \in {"start", "re_start"} /\ s = "idle"
      BY <1>1, <1>2, <1>3, <2>1, <2>4 DEF UnderWay, UninstallWhole, OpOK, StepsOf, UninstallStep
    <3>2. o.old.version \in Version /\ Root \in Place /\ o.old # NotInstalled
      BY <1>2, <2>4, OpFacts, ManifestIsThere
    <3>3. /\ o.old.service = TRUE /\ o.prior = o.old.version /\ WholeFiles(o.old, disk, manifest, key)
          /\ task = o.prior /\ record = o.prior /\ running = NoVersion
      BY <3>1 DEF UninstallWhole, UninstallService, ServiceOf
    <3>4. running' = o.old.version
      BY <1>1, <3>2, <3>3, HasExecutable DEF Image, WholeFiles, FilesWhole
    <3> QED
      BY <1>1, <3>1, <3>2, <3>3, <3>4 DEF AtRest, WholeFiles, ServiceOf
  <2> QED
    BY <2>2, <2>3, <2>4, <1>2, OpFacts
<1> QED
  BY <1>1, <1>4, <1>5, <1>6, <1>7, Advances

LEMMA StartTimesOutOK ==
    ASSUME InstallationInv, NEW p \in Process, StartTimesOut(p)
    PROVE  InstallationInv'
<1> DEFINE o == op[p]
           r == step[p]
           s == Recovery(o, r)
<1>1. r \in {"start", "noop_start", "re_start", "restart"} /\ GoTo(p, s)
      /\ UNCHANGED <<disk, hidden, manifest, key, request, task, record>>
      /\ running' = Image /\ mishap' = (mishap \/ Compensating(o, r))
      /\ (r \in {"start", "noop_start"} => task = Target(o))
      /\ (r \in {"re_start", "restart"} => task = o.prior)
  BY DEF StartTimesOut, bundle, service, Starts, TaskIs, Raise
<1>2. InstallationTypeOK /\ OpOK(r, o) /\ KeepsABundle(r, o, disk, hidden, manifest)
      /\ (~mishap => UnderWay(r, o, disk, hidden, manifest, key, task, record, running))
  BY <1>1, Sees
<1>3. (s = "idle" \/ s \in StepsOf(o.kind))
      /\ (s = Recovery(o, r))
  BY <1>1, <1>2, RecoveryGoes DEF StepsOf, InstallStep, UpgradeStep, UninstallStep, OpOK
<1>4. MovesTo(p, s, op'[p])
      /\ (s # "idle" => /\ SameOp(o, op'[p]) /\ op'[p].todo = Todo(s, o)
                        /\ op'[p].made = o.made /\ op'[p].moved = o.moved)
  BY <1>1, <1>2, <1>3, GoToMoves
<1>5. task' \in AnyVersion /\ record' \in AnyVersion /\ running' \in AnyVersion
      /\ mishap' \in BOOLEAN
  <2>1. Version # {}
    BY <1>2, OpFacts
  <2> QED
    BY <1>1, <1>2, <2>1, ImageType DEF InstallationTypeOK
<1> HIDE DEF s
<1>6. s # "idle" => KeepsABundle(s, op'[p], disk, hidden, manifest)
  BY <1>1, <1>2, <1>3, <1>4, RecoveryKeeps
<1>7. ASSUME ~mishap'
      PROVE  IF s = "idle" THEN AtRest(disk, manifest, key, task', record', running')
             ELSE UnderWay(s, op'[p], disk, hidden, manifest, key, task', record', running')
  <2>1. UnderWay(r, o, disk, hidden, manifest, key, task, record, running) /\ ~Compensating(o, r)
    BY <1>1, <1>2, <1>7
  <2>2. CASE o.kind = "install"
    <3>1. InstallWhole(r, o, disk, manifest, key, task, record, running) /\ r = "start" /\ s = "drop_task"
      BY <1>1, <1>2, <1>3, <2>1, <2>2
      DEF UnderWay, InstallWhole, OpOK, StepsOf, InstallStep, Recovery, InstallRecovery
    <3>2. SameOp(o, op'[p]) /\ op'[p].made = o.made
      BY <1>4, <3>1
    <3>3. o.new # NoVersion
      BY <1>2, <2>2, OpFacts
    <3>4. InstallWhole(s, op'[p], disk, manifest, key, task', record', running')
      BY <1>1, <3>1, <3>2, <3>3 DEF InstallWhole, SameOp
    <3> QED
      BY <2>2, <3>1, <3>2, <3>4 DEF UnderWay, SameOp
  <2>3. CASE o.kind = "upgrade"
    <3>1. UpgradeWhole(r, o, disk, manifest, key, task, record, running)
      BY <2>1, <2>3 DEF UnderWay
    <3>2. \/ r = "start" /\ s = "re_register"
          \/ r = "noop_start" /\ s = "stop_again"
      BY <1>1, <1>3, <2>1, <2>3 DEF Recovery, UpgradeRecovery, Compensating
    <3>3. SameOp(o, op'[p])
      BY <1>4, <3>2
    <3>4. o.new \in Version /\ Root \in Place /\ HasIn(disk, Root, o.new) /\ running = NoVersion
      BY <1>2, <2>3, <3>1, <3>2, OpFacts DEF UpgradeWhole, UpgradeFiles, UpgradeService
    <3>5. running' = o.new
      BY <1>1, <3>4, HasExecutable DEF Image
    <3>6. UpgradeFiles(s, op'[p], disk)
      BY <3>1, <3>2, <3>3 DEF UpgradeWhole, UpgradeFiles, SameOp, OldInBackup, OldInRoot
    <3>7. UpgradeService(s, op'[p], task', record', running')
      BY <1>1, <3>1, <3>2, <3>3, <3>5 DEF UpgradeWhole, UpgradeService, SameOp
    <3>8. UpgradeWhole(s, op'[p], disk, manifest, key, task', record', running')
      BY <3>1, <3>2, <3>3, <3>6, <3>7 DEF UpgradeWhole, SameOp
    <3> QED
      BY <2>3, <3>2, <3>3, <3>8 DEF UnderWay, SameOp
  <2>4. CASE o.kind = "uninstall"
    <3>1. r \in {"start", "noop_start", "re_start"}
      BY <1>1, <1>2, <2>4 DEF OpOK, StepsOf, UninstallStep
    <3> QED
      BY <2>1, <2>4, <3>1 DEF Compensating
  <2> QED
    BY <2>2, <2>3, <2>4, <1>2, OpFacts
<1> QED
  BY <1>1, <1>4, <1>5, <1>6, <1>7, Advances

LEMMA PlanRegistrationOK ==
    ASSUME InstallationInv, NEW p \in Process, PlanRegistration(p)
    PROVE  InstallationInv'
<1> DEFINE o == op[p]
           r == step[p]
           s == IF record = Target(o) THEN "noop_start" ELSE "register"
<1>1. r \in {"plan"} /\ GoTo(p, s)
      /\ UNCHANGED <<disk, hidden, manifest, key, request, task, record, running, mishap>>
      /\ disk[Root][Executable] = Target(o) /\ record = task
      /\ record \in {Target(o)} \cup IF o.kind = "upgrade" THEN Version ELSE {NoVersion}
  BY DEF PlanRegistration, bundle, service, Registered, TaskIs
<1>2. InstallationTypeOK /\ OpOK(r, o) /\ KeepsABundle(r, o, disk, hidden, manifest)
      /\ (~mishap => UnderWay(r, o, disk, hidden, manifest, key, task, record, running))
  BY <1>1, Sees
<1>3. (s = "idle" \/ s \in StepsOf(o.kind))
      /\ ((s = "noop_start" /\ record = Target(o)) \/ (s = "register" /\ record # Target(o)))
  BY <1>1, <1>2 DEF StepsOf, InstallStep, UpgradeStep, UninstallStep, OpOK
<1>4. MovesTo(p, s, op'[p])
      /\ (s # "idle" => /\ SameOp(o, op'[p]) /\ op'[p].todo = Todo(s, o)
                        /\ op'[p].made = o.made /\ op'[p].moved = o.moved)
  BY <1>1, <1>2, <1>3, GoToMoves
<1>5. task' \in AnyVersion /\ record' \in AnyVersion /\ running' \in AnyVersion
      /\ mishap' \in BOOLEAN
  BY <1>1, <1>2 DEF InstallationTypeOK
<1> HIDE DEF s
<1>6. s # "idle" => KeepsABundle(s, op'[p], disk, hidden, manifest)
  BY <1>1, <1>2, <1>3, <1>4
  DEF KeepsABundle, SameOp, OldInRoot, OldInBackup, OldStowed, StepsOf, InstallStep, UpgradeStep,
      UninstallStep, OpOK
<1>7. ASSUME ~mishap'
      PROVE  IF s = "idle" THEN AtRest(disk, manifest, key, task', record', running')
             ELSE UnderWay(s, op'[p], disk, hidden, manifest, key, task', record', running')
  <2>1. UnderWay(r, o, disk, hidden, manifest, key, task, record, running)
    BY <1>1, <1>2, <1>7
  <2>2. CASE o.kind = "install"
    BY <1>1, <1>2, <1>3, <1>4, <2>1, <2>2, OpFacts
    DEF UnderWay, InstallWhole, SameOp, Unserved, Target
  <2>3. CASE o.kind = "upgrade"
    <3>1. UpgradeWhole(r, o, disk, manifest, key, task, record, running)
      BY <2>1, <2>3 DEF UnderWay
    <3>2. (s = "noop_start" /\ record = Target(o)) \/ (s = "register" /\ record # Target(o))
      BY <1>1, <1>3, <2>3
    <3>3. SameOp(o, op'[p])
      BY <1>4, <3>2
    <3>4. UpgradeFiles(s, op'[p], disk)
      BY <1>1, <3>1, <3>2, <3>3 DEF UpgradeWhole, UpgradeFiles, SameOp, OldInBackup, OldInRoot
    <3>5. UpgradeService(s, op'[p], task', record', running')
      BY <1>1, <1>7, <2>3, <3>1, <3>2, <3>3 DEF UpgradeWhole, UpgradeService, SameOp, Target
    <3>6. UpgradeWhole(s, op'[p], disk, manifest, key, task', record', running')
      BY <1>1, <3>1, <3>2, <3>3, <3>4, <3>5 DEF UpgradeWhole, SameOp, NewManifest
    <3> QED
      BY <3>2, <3>3, <3>6, <2>3 DEF UnderWay, SameOp
  <2>4. CASE o.kind = "uninstall"
    <3>1. o.old.version \in Version /\ o.old.version # NoVersion /\ Executable \in File /\ Root \in Place
      BY <1>2, <2>4, OpFacts, InstallationAssumption
    <3>2. o.service = TRUE /\ o.prior = o.old.version /\ Unserved(task, record, running)
      BY <1>1, <2>1, <2>4 DEF UnderWay, UninstallWhole, UninstallService, ServiceOf
    <3>3. ~NothingThere(disk, manifest, key)
      BY <1>1, <3>1, <3>2, <2>4 DEF NothingThere, AllVacant, Vacant, Target
    <3> QED
      BY <1>1, <1>3, <1>4, <2>1, <2>4, <3>1, <3>2, <3>3
      DEF UnderWay, UninstallWhole, UninstallService, SameOp, Target, Unserved
  <2> QED
    BY <2>2, <2>3, <2>4, <1>2, OpFacts
<1> QED
  BY <1>1, <1>4, <1>5, <1>6, <1>7, Advances

LEMMA RegisterUnverifiedOK ==
    ASSUME InstallationInv, NEW p \in Process, RegisterUnverified(p)
    PROVE  InstallationInv'
<1> DEFINE o == op[p]
           r == step[p]
           s == Recovery(o, r)
<1>1. r \in {"register"} /\ GoTo(p, s)
      /\ UNCHANGED <<disk, hidden, manifest, key, request, record, running>>
      /\ task' = Target(o) /\ mishap' = (mishap \/ Compensating(o, r))
  BY DEF RegisterUnverified, bundle, service, CreateTask, Raise
<1>2. InstallationTypeOK /\ OpOK(r, o) /\ KeepsABundle(r, o, disk, hidden, manifest)
      /\ (~mishap => UnderWay(r, o, disk, hidden, manifest, key, task, record, running))
  BY <1>1, Sees
<1>3. (s = "idle" \/ s \in StepsOf(o.kind))
      /\ (s = Recovery(o, r))
  BY <1>1, <1>2, RecoveryGoes DEF StepsOf, InstallStep, UpgradeStep, UninstallStep, OpOK
<1>4. MovesTo(p, s, op'[p])
      /\ (s # "idle" => /\ SameOp(o, op'[p]) /\ op'[p].todo = Todo(s, o)
                        /\ op'[p].made = o.made /\ op'[p].moved = o.moved)
  BY <1>1, <1>2, <1>3, GoToMoves
<1>5. task' \in AnyVersion /\ record' \in AnyVersion /\ running' \in AnyVersion
      /\ mishap' \in BOOLEAN
  BY <1>1, <1>2, TargetType DEF InstallationTypeOK
<1> HIDE DEF s
<1>6. s # "idle" => KeepsABundle(s, op'[p], disk, hidden, manifest)
  BY <1>1, <1>2, <1>3, <1>4, RecoveryKeeps
<1>7. ASSUME ~mishap'
      PROVE  IF s = "idle" THEN AtRest(disk, manifest, key, task', record', running')
             ELSE UnderWay(s, op'[p], disk, hidden, manifest, key, task', record', running')
  <2>1. UnderWay(r, o, disk, hidden, manifest, key, task, record, running)
    BY <1>1, <1>2, <1>7
  <2>2. CASE o.kind = "install"
    BY <1>1, <1>2, <1>3, <1>4, <2>1, <2>2, OpFacts
    DEF UnderWay, InstallWhole, SameOp, Unserved, Target, Recovery, InstallRecovery
  <2>3. CASE o.kind = "upgrade"
    <3>1. UpgradeWhole(r, o, disk, manifest, key, task, record, running)
      BY <2>1, <2>3 DEF UnderWay
    <3>2. s = "re_start"
      BY <1>1, <1>3, <2>3 DEF Recovery, UpgradeRecovery
    <3>3. SameOp(o, op'[p])
      BY <1>4, <3>2
    <3>4. UpgradeFiles(s, op'[p], disk)
      BY <1>1, <3>1, <3>2, <3>3 DEF UpgradeWhole, UpgradeFiles, SameOp, OldInBackup, OldInRoot
    <3>5. UpgradeService(s, op'[p], task', record', running')
      BY <1>1, <1>7, <2>3, <3>1, <3>2, <3>3 DEF UpgradeWhole, UpgradeService, SameOp, Target
    <3>6. UpgradeWhole(s, op'[p], disk, manifest, key, task', record', running')
      BY <1>1, <3>1, <3>2, <3>3, <3>4, <3>5 DEF UpgradeWhole, SameOp, NewManifest
    <3> QED
      BY <3>2, <3>3, <3>6, <2>3 DEF UnderWay, SameOp
  <2>4. CASE o.kind = "uninstall"
    BY <1>1, <1>7, <2>4 DEF Compensating
  <2> QED
    BY <2>2, <2>3, <2>4, <1>2, OpFacts
<1> QED
  BY <1>1, <1>4, <1>5, <1>6, <1>7, Advances

LEMMA PlanUnregistrationOK ==
    ASSUME InstallationInv, NEW p \in Process, PlanUnregistration(p)
    PROVE  InstallationInv'
<1> DEFINE o == op[p]
           r == step[p]
           s == "stop"
<1>1. r \in {"unplan"} /\ GoTo(p, s)
      /\ UNCHANGED <<disk, hidden, manifest, key, request, task, record, running, mishap>>
      /\ TRUE
  BY DEF PlanUnregistration, bundle, service
<1>2. InstallationTypeOK /\ OpOK(r, o) /\ KeepsABundle(r, o, disk, hidden, manifest)
      /\ (~mishap => UnderWay(r, o, disk, hidden, manifest, key, task, record, running))
  BY <1>1, Sees
<1>3. (s = "idle" \/ s \in StepsOf(o.kind))
      /\ (s = "stop")
  BY <1>1, <1>2 DEF StepsOf, InstallStep, UpgradeStep, UninstallStep, OpOK
<1>4. MovesTo(p, s, op'[p])
      /\ (s # "idle" => /\ SameOp(o, op'[p]) /\ op'[p].todo = Todo(s, o)
                        /\ op'[p].made = o.made /\ op'[p].moved = o.moved)
  BY <1>1, <1>2, <1>3, GoToMoves
<1>5. task' \in AnyVersion /\ record' \in AnyVersion /\ running' \in AnyVersion
      /\ mishap' \in BOOLEAN
  BY <1>1, <1>2 DEF InstallationTypeOK
<1> HIDE DEF s
<1>6. s # "idle" => KeepsABundle(s, op'[p], disk, hidden, manifest)
  BY <1>1, <1>2, <1>3, <1>4
  DEF KeepsABundle, SameOp, OldInRoot, OldInBackup, OldStowed, StepsOf, InstallStep, UpgradeStep,
      UninstallStep, OpOK
<1>7. ASSUME ~mishap'
      PROVE  IF s = "idle" THEN AtRest(disk, manifest, key, task', record', running')
             ELSE UnderWay(s, op'[p], disk, hidden, manifest, key, task', record', running')
  <2>1. UnderWay(r, o, disk, hidden, manifest, key, task, record, running)
    BY <1>1, <1>2, <1>7
  <2>2. o.kind # "install"
    BY <1>1, <1>2 DEF StepsOf, InstallStep, UpgradeStep, UninstallStep, OpOK
  <2>3. o.kind # "upgrade"
    BY <1>1, <1>2 DEF StepsOf, InstallStep, UpgradeStep, UninstallStep, OpOK
  <2>4. CASE o.kind = "uninstall"
    BY <1>1, <1>2, <1>3, <1>4, <2>1, <2>4, OpFacts
    DEF UnderWay, UninstallWhole, UninstallService, SameOp, Unserved
  <2> QED
    BY <2>2, <2>3, <2>4, <1>2, OpFacts
<1> QED
  BY <1>1, <1>4, <1>5, <1>6, <1>7, Advances

LEMMA StopServiceOK ==
    ASSUME InstallationInv, NEW p \in Process, StopService(p)
    PROVE  InstallationInv'
<1> DEFINE o == op[p]
           r == step[p]
           s == CASE step[p] = "stop_again" -> "back_remove"
                  [] step[p] = "stop" /\ op[p].kind = "upgrade" -> "read"
                  [] OTHER -> "unregister"
<1>1. r \in {"stop", "stop_again"} /\ GoTo(p, s)
      /\ UNCHANGED <<disk, hidden, manifest, key, request, task, record, mishap>>
      /\ running' = NoVersion
  BY DEF StopService, bundle, service
<1>2. InstallationTypeOK /\ OpOK(r, o) /\ KeepsABundle(r, o, disk, hidden, manifest)
      /\ (~mishap => UnderWay(r, o, disk, hidden, manifest, key, task, record, running))
  BY <1>1, Sees
<1>3. (s = "idle" \/ s \in StepsOf(o.kind))
      /\ ((r = "stop_again" /\ s = "back_remove") \/ (r = "stop" /\ o.kind = "upgrade" /\ s = "read")
      \/ (r = "stop" /\ o.kind # "upgrade" /\ s = "unregister"))
  BY <1>1, <1>2 DEF StepsOf, InstallStep, UpgradeStep, UninstallStep, OpOK
<1>4. MovesTo(p, s, op'[p])
      /\ (s # "idle" => /\ SameOp(o, op'[p]) /\ op'[p].todo = Todo(s, o)
                        /\ op'[p].made = o.made /\ op'[p].moved = o.moved)
  BY <1>1, <1>2, <1>3, GoToMoves
<1>5. task' \in AnyVersion /\ record' \in AnyVersion /\ running' \in AnyVersion
      /\ mishap' \in BOOLEAN
  BY <1>1, <1>2 DEF InstallationTypeOK, AnyVersion
<1> HIDE DEF s
<1>6. s # "idle" => KeepsABundle(s, op'[p], disk, hidden, manifest)
  BY <1>1, <1>2, <1>3, <1>4
  DEF KeepsABundle, SameOp, OldInRoot, OldInBackup, OldStowed, StepsOf, InstallStep, UpgradeStep,
      UninstallStep, OpOK
<1>7. ASSUME ~mishap'
      PROVE  IF s = "idle" THEN AtRest(disk, manifest, key, task', record', running')
             ELSE UnderWay(s, op'[p], disk, hidden, manifest, key, task', record', running')
  <2>1. UnderWay(r, o, disk, hidden, manifest, key, task, record, running)
    BY <1>1, <1>2, <1>7
  <2>2. o.kind # "install"
    BY <1>1, <1>2 DEF StepsOf, InstallStep, OpOK
  <2>3. CASE r = "stop_again"
    <3>1. o.kind = "upgrade" /\ s = "back_remove" /\ op'[p].todo = Entries(Root, o.new)
      BY <1>1, <1>2, <1>3, <1>4, <2>2, <2>3, OpFacts DEF StepsOf, UninstallStep, OpOK, Todo
    <3>2. HasIn(disk, Root, o.new)
      BY <2>1, <2>3, <3>1 DEF UnderWay, UpgradeWhole, UpgradeFiles
    <3>3. Removed(disk, File, op'[p].todo)
      BY <3>1, <3>2 DEF HasIn, Removed, Entries
    <3> QED
      BY <1>1, <1>4, <2>1, <2>3, <3>1, <3>3
      DEF UnderWay, UpgradeWhole, UpgradeFiles, UpgradeService, SameOp, OldInBackup, OldInRoot
  <2>4. CASE r = "stop" /\ o.kind = "upgrade"
    BY <1>1, <1>3, <1>4, <2>1, <2>4
    DEF UnderWay, UpgradeWhole, UpgradeFiles, UpgradeService, SameOp, OldInBackup, OldInRoot, Vacant
  <2>5. CASE r = "stop" /\ o.kind = "uninstall"
    BY <1>1, <1>3, <1>4, <2>1, <2>5 DEF UnderWay, UninstallWhole, UninstallService, SameOp
  <2> QED
    BY <2>2, <2>3, <2>4, <2>5, <1>1, <1>2, OpFacts
<1> QED
  BY <1>1, <1>4, <1>5, <1>6, <1>7, Advances

LEMMA UnregisterTaskOK ==
    ASSUME InstallationInv, NEW p \in Process, UnregisterTask(p)
    PROVE  InstallationInv'
<1> DEFINE o == op[p]
           r == step[p]
           s == "unrecord"
<1>1. r \in {"unregister"} /\ GoTo(p, s)
      /\ UNCHANGED <<disk, hidden, manifest, key, request, record, running, mishap>>
      /\ task' = NoVersion
  BY DEF UnregisterTask, bundle, service
<1>2. InstallationTypeOK /\ OpOK(r, o) /\ KeepsABundle(r, o, disk, hidden, manifest)
      /\ (~mishap => UnderWay(r, o, disk, hidden, manifest, key, task, record, running))
  BY <1>1, Sees
<1>3. (s = "idle" \/ s \in StepsOf(o.kind))
      /\ (s = "unrecord")
  BY <1>1, <1>2 DEF StepsOf, InstallStep, UpgradeStep, UninstallStep, OpOK
<1>4. MovesTo(p, s, op'[p])
      /\ (s # "idle" => /\ SameOp(o, op'[p]) /\ op'[p].todo = Todo(s, o)
                        /\ op'[p].made = o.made /\ op'[p].moved = o.moved)
  BY <1>1, <1>2, <1>3, GoToMoves
<1>5. task' \in AnyVersion /\ record' \in AnyVersion /\ running' \in AnyVersion
      /\ mishap' \in BOOLEAN
  BY <1>1, <1>2 DEF InstallationTypeOK, AnyVersion
<1> HIDE DEF s
<1>6. s # "idle" => KeepsABundle(s, op'[p], disk, hidden, manifest)
  BY <1>1, <1>2, <1>3, <1>4
  DEF KeepsABundle, SameOp, OldInRoot, OldInBackup, OldStowed, StepsOf, InstallStep, UpgradeStep,
      UninstallStep, OpOK
<1>7. ASSUME ~mishap'
      PROVE  IF s = "idle" THEN AtRest(disk, manifest, key, task', record', running')
             ELSE UnderWay(s, op'[p], disk, hidden, manifest, key, task', record', running')
  <2>1. UnderWay(r, o, disk, hidden, manifest, key, task, record, running)
    BY <1>1, <1>2, <1>7
  <2>2. o.kind # "install"
    BY <1>1, <1>2 DEF StepsOf, InstallStep, UpgradeStep, UninstallStep, OpOK
  <2>3. o.kind # "upgrade"
    BY <1>1, <1>2 DEF StepsOf, InstallStep, UpgradeStep, UninstallStep, OpOK
  <2>4. CASE o.kind = "uninstall"
    BY <1>1, <1>2, <1>3, <1>4, <2>1, <2>4, OpFacts
    DEF UnderWay, UninstallWhole, UninstallService, SameOp, Unserved
  <2> QED
    BY <2>2, <2>3, <2>4, <1>2, OpFacts
<1> QED
  BY <1>1, <1>4, <1>5, <1>6, <1>7, Advances

LEMMA RemoveRecordOK ==
    ASSUME InstallationInv, NEW p \in Process, RemoveRecord(p)
    PROVE  InstallationInv'
<1> DEFINE o == op[p]
           r == step[p]
           s == "quarantine"
<1>1. r \in {"unrecord"} /\ GoTo(p, s)
      /\ UNCHANGED <<disk, hidden, manifest, key, request, task, running, mishap>>
      /\ record' = NoVersion
  BY DEF RemoveRecord, bundle, service
<1>2. InstallationTypeOK /\ OpOK(r, o) /\ KeepsABundle(r, o, disk, hidden, manifest)
      /\ (~mishap => UnderWay(r, o, disk, hidden, manifest, key, task, record, running))
  BY <1>1, Sees
<1>3. (s = "idle" \/ s \in StepsOf(o.kind))
      /\ (s = "quarantine")
  BY <1>1, <1>2 DEF StepsOf, InstallStep, UpgradeStep, UninstallStep, OpOK
<1>4. MovesTo(p, s, op'[p])
      /\ (s # "idle" => /\ SameOp(o, op'[p]) /\ op'[p].todo = Todo(s, o)
                        /\ op'[p].made = o.made /\ op'[p].moved = o.moved)
  BY <1>1, <1>2, <1>3, GoToMoves
<1>5. task' \in AnyVersion /\ record' \in AnyVersion /\ running' \in AnyVersion
      /\ mishap' \in BOOLEAN
  BY <1>1, <1>2 DEF InstallationTypeOK, AnyVersion
<1> HIDE DEF s
<1>6. s # "idle" => KeepsABundle(s, op'[p], disk, hidden, manifest)
  BY <1>1, <1>2, <1>3, <1>4
  DEF KeepsABundle, SameOp, OldInRoot, OldInBackup, OldStowed, StepsOf, InstallStep, UpgradeStep,
      UninstallStep, OpOK
<1>7. ASSUME ~mishap'
      PROVE  IF s = "idle" THEN AtRest(disk, manifest, key, task', record', running')
             ELSE UnderWay(s, op'[p], disk, hidden, manifest, key, task', record', running')
  <2>1. UnderWay(r, o, disk, hidden, manifest, key, task, record, running)
    BY <1>1, <1>2, <1>7
  <2>2. o.kind # "install"
    BY <1>1, <1>2 DEF StepsOf, InstallStep, UpgradeStep, UninstallStep, OpOK
  <2>3. o.kind # "upgrade"
    BY <1>1, <1>2 DEF StepsOf, InstallStep, UpgradeStep, UninstallStep, OpOK
  <2>4. CASE o.kind = "uninstall"
    <3>1. WholeFiles(o.old, disk, manifest, key) /\ o.moved = {} /\ o.made = FALSE
      BY <1>1, <2>1, <2>4 DEF UnderWay, UninstallWhole
    <3>2. manifest = o.old /\ key = TRUE /\ FilesStowed(disk, hidden, o.old, o.moved)
      BY <3>1, StowedNothing DEF WholeFiles
    <3>3. op'[p].todo = Owned(o.old)
      BY <1>3, <1>4 DEF Todo
    <3> QED
      BY <1>1, <1>3, <1>4, <2>1, <2>4, <3>1, <3>2, <3>3
      DEF UnderWay, UninstallWhole, UninstallService, SameOp, Unserved
  <2> QED
    BY <2>2, <2>3, <2>4, <1>2, OpFacts
<1> QED
  BY <1>1, <1>4, <1>5, <1>6, <1>7, Advances

LEMMA DropTaskOK ==
    ASSUME InstallationInv, NEW p \in Process, DropTask(p)
    PROVE  InstallationInv'
<1> DEFINE o == op[p]
           r == step[p]
           s == "drop_record"
<1>1. r \in {"drop_task"} /\ GoTo(p, s)
      /\ UNCHANGED <<disk, hidden, manifest, key, request, record, running, mishap>>
      /\ task' = NoVersion /\ (task = NoVersion \/ running = NoVersion)
  BY DEF DropTask, bundle, service
<1>2. InstallationTypeOK /\ OpOK(r, o) /\ KeepsABundle(r, o, disk, hidden, manifest)
      /\ (~mishap => UnderWay(r, o, disk, hidden, manifest, key, task, record, running))
  BY <1>1, Sees
<1>3. (s = "idle" \/ s \in StepsOf(o.kind))
      /\ (s = "drop_record")
  BY <1>1, <1>2 DEF StepsOf, InstallStep, UpgradeStep, UninstallStep, OpOK
<1>4. MovesTo(p, s, op'[p])
      /\ (s # "idle" => /\ SameOp(o, op'[p]) /\ op'[p].todo = Todo(s, o)
                        /\ op'[p].made = o.made /\ op'[p].moved = o.moved)
  BY <1>1, <1>2, <1>3, GoToMoves
<1>5. task' \in AnyVersion /\ record' \in AnyVersion /\ running' \in AnyVersion
      /\ mishap' \in BOOLEAN
  BY <1>1, <1>2 DEF InstallationTypeOK, AnyVersion
<1> HIDE DEF s
<1>6. s # "idle" => KeepsABundle(s, op'[p], disk, hidden, manifest)
  BY <1>1, <1>2, <1>3, <1>4
  DEF KeepsABundle, SameOp, OldInRoot, OldInBackup, OldStowed, StepsOf, InstallStep, UpgradeStep,
      UninstallStep, OpOK
<1>7. ASSUME ~mishap'
      PROVE  IF s = "idle" THEN AtRest(disk, manifest, key, task', record', running')
             ELSE UnderWay(s, op'[p], disk, hidden, manifest, key, task', record', running')
  <2>1. UnderWay(r, o, disk, hidden, manifest, key, task, record, running)
    BY <1>1, <1>2, <1>7
  <2>2. CASE o.kind = "install"
    BY <1>1, <1>2, <1>3, <1>4, <2>1, <2>2, OpFacts
    DEF UnderWay, InstallWhole, SameOp, Unserved
  <2>3. o.kind # "upgrade"
    BY <1>1, <1>2 DEF StepsOf, InstallStep, UpgradeStep, UninstallStep, OpOK
  <2>4. CASE o.kind = "uninstall"
    BY <1>1, <1>2, <1>3, <1>4, <2>1, <2>4, OpFacts
    DEF UnderWay, UninstallWhole, UninstallService, SameOp, Unserved
  <2> QED
    BY <2>2, <2>3, <2>4, <1>2, OpFacts
<1> QED
  BY <1>1, <1>4, <1>5, <1>6, <1>7, Advances

LEMMA DropRecordOK ==
    ASSUME InstallationInv, NEW p \in Process, DropRecord(p)
    PROVE  InstallationInv'
<1> DEFINE o == op[p]
           r == step[p]
           s == IF op[p].kind = "install" THEN "clean_manifest" ELSE "idle"
<1>1. r \in {"drop_record"} /\ GoTo(p, s)
      /\ UNCHANGED <<disk, hidden, manifest, key, request, task, running, mishap>>
      /\ record' = NoVersion
  BY DEF DropRecord, bundle, service
<1>2. InstallationTypeOK /\ OpOK(r, o) /\ KeepsABundle(r, o, disk, hidden, manifest)
      /\ (~mishap => UnderWay(r, o, disk, hidden, manifest, key, task, record, running))
  BY <1>1, Sees
<1>3. (s = "idle" \/ s \in StepsOf(o.kind))
      /\ (s = IF o.kind = "install" THEN "clean_manifest" ELSE "idle")
  BY <1>1, <1>2 DEF StepsOf, InstallStep, UpgradeStep, UninstallStep, OpOK
<1>4. MovesTo(p, s, op'[p])
      /\ (s # "idle" => /\ SameOp(o, op'[p]) /\ op'[p].todo = Todo(s, o)
                        /\ op'[p].made = o.made /\ op'[p].moved = o.moved)
  BY <1>1, <1>2, <1>3, GoToMoves
<1>5. task' \in AnyVersion /\ record' \in AnyVersion /\ running' \in AnyVersion
      /\ mishap' \in BOOLEAN
  BY <1>1, <1>2 DEF InstallationTypeOK, AnyVersion
<1> HIDE DEF s
<1>6. s # "idle" => KeepsABundle(s, op'[p], disk, hidden, manifest)
  BY <1>1, <1>2, <1>3, <1>4
  DEF KeepsABundle, SameOp, OldInRoot, OldInBackup, OldStowed, StepsOf, InstallStep, UpgradeStep,
      UninstallStep, OpOK
<1>7. ASSUME ~mishap'
      PROVE  IF s = "idle" THEN AtRest(disk, manifest, key, task', record', running')
             ELSE UnderWay(s, op'[p], disk, hidden, manifest, key, task', record', running')
  <2>1. UnderWay(r, o, disk, hidden, manifest, key, task, record, running)
    BY <1>1, <1>2, <1>7
  <2>2. CASE o.kind = "install"
    BY <1>1, <1>2, <1>3, <1>4, <2>1, <2>2, OpFacts
    DEF UnderWay, InstallWhole, SameOp, Unserved
  <2>3. o.kind # "upgrade"
    BY <1>1, <1>2 DEF StepsOf, InstallStep, UpgradeStep, UninstallStep, OpOK
  <2>4. CASE o.kind = "uninstall"
    BY <1>1, <1>2, <1>3, <1>4, <2>1, <2>4, OpFacts
    DEF UnderWay, UninstallWhole, UninstallService, SameOp, Unserved
  <2> QED
    BY <2>2, <2>3, <2>4, <1>2, OpFacts
<1> QED
  BY <1>1, <1>4, <1>5, <1>6, <1>7, Advances

LEMMA RestoreTaskOK ==
    ASSUME InstallationInv, NEW p \in Process, RestoreTask(p)
    PROVE  InstallationInv'
<1> DEFINE o == op[p]
           r == step[p]
           s == "re_record"
<1>1. r \in {"re_register"} /\ GoTo(p, s)
      /\ UNCHANGED <<disk, hidden, manifest, key, request, record, running, mishap>>
      /\ task' = o.prior
  BY DEF RestoreTask, bundle, service, CreateTask
<1>2. InstallationTypeOK /\ OpOK(r, o) /\ KeepsABundle(r, o, disk, hidden, manifest)
      /\ (~mishap => UnderWay(r, o, disk, hidden, manifest, key, task, record, running))
  BY <1>1, Sees
<1>3. (s = "idle" \/ s \in StepsOf(o.kind))
      /\ (s = "re_record")
  BY <1>1, <1>2 DEF StepsOf, InstallStep, UpgradeStep, UninstallStep, OpOK
<1>4. MovesTo(p, s, op'[p])
      /\ (s # "idle" => /\ SameOp(o, op'[p]) /\ op'[p].todo = Todo(s, o)
                        /\ op'[p].made = o.made /\ op'[p].moved = o.moved)
  BY <1>1, <1>2, <1>3, GoToMoves
<1>5. task' \in AnyVersion /\ record' \in AnyVersion /\ running' \in AnyVersion
      /\ mishap' \in BOOLEAN
  BY <1>1, <1>2, OpFacts DEF InstallationTypeOK
<1> HIDE DEF s
<1>6. s # "idle" => KeepsABundle(s, op'[p], disk, hidden, manifest)
  BY <1>1, <1>2, <1>3, <1>4
  DEF KeepsABundle, SameOp, OldInRoot, OldInBackup, OldStowed, StepsOf, InstallStep, UpgradeStep,
      UninstallStep, OpOK
<1>7. ASSUME ~mishap'
      PROVE  IF s = "idle" THEN AtRest(disk, manifest, key, task', record', running')
             ELSE UnderWay(s, op'[p], disk, hidden, manifest, key, task', record', running')
  <2>1. UnderWay(r, o, disk, hidden, manifest, key, task, record, running)
    BY <1>1, <1>2, <1>7
  <2>2. o.kind # "install"
    BY <1>1, <1>2 DEF StepsOf, InstallStep, UpgradeStep, UninstallStep, OpOK
  <2>3. CASE o.kind = "upgrade"
    <3>1. UpgradeWhole(r, o, disk, manifest, key, task, record, running)
      BY <2>1, <2>3 DEF UnderWay
    <3>2. s = "re_record"
      BY <1>1, <1>3, <2>3
    <3>3. SameOp(o, op'[p])
      BY <1>4, <3>2
    <3>4. UpgradeFiles(s, op'[p], disk)
      BY <1>1, <3>1, <3>2, <3>3 DEF UpgradeWhole, UpgradeFiles, SameOp, OldInBackup, OldInRoot
    <3>5. UpgradeService(s, op'[p], task', record', running')
      BY <1>1, <1>7, <2>3, <3>1, <3>2, <3>3 DEF UpgradeWhole, UpgradeService, SameOp
    <3>6. UpgradeWhole(s, op'[p], disk, manifest, key, task', record', running')
      BY <1>1, <3>1, <3>2, <3>3, <3>4, <3>5 DEF UpgradeWhole, SameOp, NewManifest
    <3> QED
      BY <3>2, <3>3, <3>6, <2>3 DEF UnderWay, SameOp
  <2>4. CASE o.kind = "uninstall"
    BY <1>1, <1>2, <1>3, <1>4, <2>1, <2>4, OpFacts
    DEF UnderWay, UninstallWhole, UninstallService, SameOp, Unserved
  <2> QED
    BY <2>2, <2>3, <2>4, <1>2, OpFacts
<1> QED
  BY <1>1, <1>4, <1>5, <1>6, <1>7, Advances

LEMMA RestoreRecordOK ==
    ASSUME InstallationInv, NEW p \in Process, RestoreRecord(p)
    PROVE  InstallationInv'
<1> DEFINE o == op[p]
           r == step[p]
           s == "re_start"
<1>1. r \in {"re_record"} /\ GoTo(p, s)
      /\ UNCHANGED <<disk, hidden, manifest, key, request, task, running, mishap>>
      /\ record' = o.prior
  BY DEF RestoreRecord, bundle, service
<1>2. InstallationTypeOK /\ OpOK(r, o) /\ KeepsABundle(r, o, disk, hidden, manifest)
      /\ (~mishap => UnderWay(r, o, disk, hidden, manifest, key, task, record, running))
  BY <1>1, Sees
<1>3. (s = "idle" \/ s \in StepsOf(o.kind))
      /\ (s = "re_start")
  BY <1>1, <1>2 DEF StepsOf, InstallStep, UpgradeStep, UninstallStep, OpOK
<1>4. MovesTo(p, s, op'[p])
      /\ (s # "idle" => /\ SameOp(o, op'[p]) /\ op'[p].todo = Todo(s, o)
                        /\ op'[p].made = o.made /\ op'[p].moved = o.moved)
  BY <1>1, <1>2, <1>3, GoToMoves
<1>5. task' \in AnyVersion /\ record' \in AnyVersion /\ running' \in AnyVersion
      /\ mishap' \in BOOLEAN
  BY <1>1, <1>2, OpFacts DEF InstallationTypeOK
<1> HIDE DEF s
<1>6. s # "idle" => KeepsABundle(s, op'[p], disk, hidden, manifest)
  BY <1>1, <1>2, <1>3, <1>4
  DEF KeepsABundle, SameOp, OldInRoot, OldInBackup, OldStowed, StepsOf, InstallStep, UpgradeStep,
      UninstallStep, OpOK
<1>7. ASSUME ~mishap'
      PROVE  IF s = "idle" THEN AtRest(disk, manifest, key, task', record', running')
             ELSE UnderWay(s, op'[p], disk, hidden, manifest, key, task', record', running')
  <2>1. UnderWay(r, o, disk, hidden, manifest, key, task, record, running)
    BY <1>1, <1>2, <1>7
  <2>2. o.kind # "install"
    BY <1>1, <1>2 DEF StepsOf, InstallStep, UpgradeStep, UninstallStep, OpOK
  <2>3. CASE o.kind = "upgrade"
    <3>1. UpgradeWhole(r, o, disk, manifest, key, task, record, running)
      BY <2>1, <2>3 DEF UnderWay
    <3>2. s = "re_start"
      BY <1>1, <1>3, <2>3
    <3>3. SameOp(o, op'[p])
      BY <1>4, <3>2
    <3>4. UpgradeFiles(s, op'[p], disk)
      BY <1>1, <3>1, <3>2, <3>3 DEF UpgradeWhole, UpgradeFiles, SameOp, OldInBackup, OldInRoot
    <3>5. UpgradeService(s, op'[p], task', record', running')
      BY <1>1, <1>7, <2>3, <3>1, <3>2, <3>3 DEF UpgradeWhole, UpgradeService, SameOp
    <3>6. UpgradeWhole(s, op'[p], disk, manifest, key, task', record', running')
      BY <1>1, <3>1, <3>2, <3>3, <3>4, <3>5 DEF UpgradeWhole, SameOp, NewManifest
    <3> QED
      BY <3>2, <3>3, <3>6, <2>3 DEF UnderWay, SameOp
  <2>4. CASE o.kind = "uninstall"
    BY <1>1, <1>2, <1>3, <1>4, <2>1, <2>4, OpFacts
    DEF UnderWay, UninstallWhole, UninstallService, SameOp, Unserved
  <2> QED
    BY <2>2, <2>3, <2>4, <1>2, OpFacts
<1> QED
  BY <1>1, <1>4, <1>5, <1>6, <1>7, Advances

LEMMA StopTimesOutOK ==
    ASSUME InstallationInv, NEW p \in Process, StopTimesOut(p)
    PROVE  InstallationInv'
<1> DEFINE o == op[p]
           r == step[p]
           s == Recovery(o, r)
<1>1. r \in {"stop", "stop_again"} /\ GoTo(p, s)
      /\ UNCHANGED <<disk, hidden, manifest, key, request, task, record>>
      /\ running' = NoVersion /\ mishap' = (mishap \/ Compensating(o, r))
  BY DEF StopTimesOut, bundle, service, Raise
<1>2. InstallationTypeOK /\ OpOK(r, o) /\ KeepsABundle(r, o, disk, hidden, manifest)
      /\ (~mishap => UnderWay(r, o, disk, hidden, manifest, key, task, record, running))
  BY <1>1, Sees
<1>3. (s = "idle" \/ s \in StepsOf(o.kind))
      /\ (s = Recovery(o, r))
  BY <1>1, <1>2, RecoveryGoes DEF StepsOf, InstallStep, UpgradeStep, UninstallStep, OpOK
<1>4. MovesTo(p, s, op'[p])
      /\ (s # "idle" => /\ SameOp(o, op'[p]) /\ op'[p].todo = Todo(s, o)
                        /\ op'[p].made = o.made /\ op'[p].moved = o.moved)
  BY <1>1, <1>2, <1>3, GoToMoves
<1>5. task' \in AnyVersion /\ record' \in AnyVersion /\ running' \in AnyVersion
      /\ mishap' \in BOOLEAN
  BY <1>1, <1>2 DEF InstallationTypeOK, AnyVersion
<1> HIDE DEF s
<1>6. s # "idle" => KeepsABundle(s, op'[p], disk, hidden, manifest)
  BY <1>1, <1>2, <1>3, <1>4, RecoveryKeeps
<1>7. ASSUME ~mishap'
      PROVE  IF s = "idle" THEN AtRest(disk, manifest, key, task', record', running')
             ELSE UnderWay(s, op'[p], disk, hidden, manifest, key, task', record', running')
  <2>1. UnderWay(r, o, disk, hidden, manifest, key, task, record, running)
    BY <1>1, <1>2, <1>7
  <2>2. o.kind # "install"
    BY <1>1, <1>2 DEF StepsOf, InstallStep, OpOK
  <2>3. CASE r = "stop_again"
    <3>1. o.kind = "upgrade"
      BY <1>2, <2>2, <2>3, OpFacts DEF StepsOf, UninstallStep, OpOK
    <3>2. s = "back_remove"
      BY <1>3, <2>3, <3>1 DEF Recovery, UpgradeRecovery
    <3>3. HasIn(disk, Root, o.new) /\ op'[p].todo = Entries(Root, o.new)
      BY <1>4, <2>1, <2>3, <3>1, <3>2 DEF UnderWay, UpgradeWhole, UpgradeFiles, Todo
    <3>4. Removed(disk, File, op'[p].todo)
      BY <3>3 DEF HasIn, Removed, Entries
    <3> QED
      BY <1>1, <1>4, <2>1, <2>3, <3>1, <3>2, <3>4
      DEF UnderWay, UpgradeWhole, UpgradeFiles, UpgradeService, SameOp, OldInBackup, OldInRoot
  <2>4. CASE r = "stop" /\ o.kind = "upgrade"
    <3>1. /\ s = "idle" /\ manifest = o.old /\ key = TRUE /\ HasIn(disk, Root, o.old.version)
          /\ Vacant(disk, o.place) /\ BackupsIn(disk, o.old) /\ OthersVacant(disk, o.old, {o.place})
          /\ task = ServiceOf(o.old) /\ record = ServiceOf(o.old)
      BY <1>3, <2>1, <2>4
      DEF UnderWay, UpgradeWhole, UpgradeFiles, UpgradeService, Recovery, UpgradeRecovery, OldInRoot
    <3>2. FilesWhole(disk, o.old) /\ o.old # NotInstalled
      BY <1>2, <2>4, <3>1, RollbackIsWhole, OpFacts, ManifestIsThere
    <3> QED
      BY <1>1, <3>1, <3>2 DEF AtRest, WholeFiles
  <2>5. CASE r = "stop" /\ o.kind = "uninstall"
    <3>1. /\ s = "idle" /\ WholeFiles(o.old, disk, manifest, key)
          /\ task = ServiceOf(o.old) /\ record = ServiceOf(o.old)
      BY <1>3, <2>1, <2>5
      DEF UnderWay, UninstallWhole, UninstallService, Recovery, UninstallRecovery
    <3>2. o.old # NotInstalled
      BY <1>2, <2>5, OpFacts, ManifestIsThere
    <3> QED
      BY <1>1, <3>1, <3>2 DEF AtRest, WholeFiles
  <2> QED
    BY <2>2, <2>3, <2>4, <2>5, <1>1, <1>2, OpFacts
<1> QED
  BY <1>1, <1>4, <1>5, <1>6, <1>7, Advances

(* Exceptions and crashes.                                                 *)
LEMMA FailOK ==
    ASSUME InstallationInv, NEW p \in Process, Fail(p)
    PROVE  InstallationInv'
<1> DEFINE o == op[p]
           r == step[p]
           s == Recovery(o, r)
<1>1. r \notin {"idle", "undo_drop", "back_drop"} /\ GoTo(p, s)
      /\ UNCHANGED <<disk, hidden, manifest, key, request, task, record, running>>
      /\ mishap' = (mishap \/ Compensating(o, r))
  BY DEF Fail, bundle, service, Raise
<1>2. InstallationTypeOK /\ OpOK(r, o) /\ KeepsABundle(r, o, disk, hidden, manifest)
      /\ (~mishap => UnderWay(r, o, disk, hidden, manifest, key, task, record, running))
  BY <1>1, Sees
<1>3. (s = "idle" \/ s \in StepsOf(o.kind))
      /\ (s = Recovery(o, r))
  BY <1>1, <1>2, RecoveryGoes DEF StepsOf, InstallStep, UpgradeStep, UninstallStep, OpOK
<1>4. MovesTo(p, s, op'[p])
      /\ (s # "idle" => /\ SameOp(o, op'[p]) /\ op'[p].todo = Todo(s, o)
                        /\ op'[p].made = o.made /\ op'[p].moved = o.moved)
  BY <1>1, <1>2, <1>3, GoToMoves
<1>5. task' \in AnyVersion /\ record' \in AnyVersion /\ running' \in AnyVersion
      /\ mishap' \in BOOLEAN
  BY <1>1, <1>2 DEF InstallationTypeOK
<1> HIDE DEF s
<1>6. s # "idle" => KeepsABundle(s, op'[p], disk, hidden, manifest)
  BY <1>1, <1>2, <1>3, <1>4, RecoveryKeeps
<1>7. ASSUME ~mishap'
      PROVE  IF s = "idle" THEN AtRest(disk, manifest, key, task', record', running')
             ELSE UnderWay(s, op'[p], disk, hidden, manifest, key, task', record', running')
  <2>1. UnderWay(r, o, disk, hidden, manifest, key, task, record, running) /\ ~Compensating(o, r)
    BY <1>1, <1>2, <1>7
  <2>2. CASE o.kind = "install"
    <3>1. InstallWhole(r, o, disk, manifest, key, task, record, running)
      BY <2>1, <2>2 DEF UnderWay
    <3>2. \/ r \in {"key", "copy", "manifest", "plan"} /\ s = "clean_manifest"
          \/ r \in {"register", "record", "start"} /\ s = "drop_task"
      BY <1>1, <1>2, <1>3, <2>1, <2>2, <3>1
      DEF InstallWhole, OpOK, StepsOf, InstallStep, Recovery, InstallRecovery, Compensating
    <3>3. SameOp(o, op'[p]) /\ op'[p].made = o.made
      BY <1>4, <3>2
    <3>4. InstallWhole(s, op'[p], disk, manifest, key, task, record, running)
      BY <3>1, <3>2, <3>3 DEF InstallWhole, SameOp, Unserved
    <3> QED
      BY <1>1, <2>2, <3>2, <3>3, <3>4 DEF UnderWay, SameOp
  <2>3. CASE o.kind = "upgrade"
    <3>1. UpgradeWhole(r, o, disk, manifest, key, task, record, running)
      BY <2>1, <2>3 DEF UnderWay
    <3>2. \/ r \in {"stop", "read"} /\ s = "idle"
          \/ r = "backup" /\ s = "undo_drop"
          \/ r \in {"replace", "prune", "commit"} /\ s = "undo_remove"
          \/ r \in {"plan", "noop_start"} /\ s = "stop_again"
          \/ r = "register" /\ s = "re_start"
          \/ r \in {"record", "start"} /\ s = "re_register"
          \/ r = "stop_again" /\ s = "back_remove"
      BY <1>1, <1>2, <1>3, <2>1, <2>3
      DEF OpOK, StepsOf, UpgradeStep, Recovery, UpgradeRecovery, Compensating
    <3>3. CASE r \in {"stop", "read"}
      <4>1. /\ s = "idle" /\ manifest = o.old /\ key = TRUE /\ HasIn(disk, Root, o.old.version)
            /\ Vacant(disk, o.place) /\ BackupsIn(disk, o.old) /\ OthersVacant(disk, o.old, {o.place})
            /\ task = ServiceOf(o.old) /\ record = ServiceOf(o.old)
            /\ running \in {NoVersion, ServiceOf(o.old)}
        BY <3>1, <3>2, <3>3 DEF UpgradeWhole, UpgradeFiles, UpgradeService, OldInRoot
      <4>2. FilesWhole(disk, o.old) /\ o.old # NotInstalled
        BY <1>2, <2>3, <4>1, RollbackIsWhole, OpFacts, ManifestIsThere
      <4> QED
        BY <1>1, <4>1, <4>2 DEF AtRest, WholeFiles
    <3>4. CASE r \notin {"stop", "read"}
      <4>1. SameOp(o, op'[p]) /\ s # "idle" /\ op'[p].todo = Todo(s, o)
        BY <1>4, <3>2, <3>4
      <4>2. s = "undo_remove" =>
              /\ Outside(disk, FilesOf[o.old.version] \cup FilesOf[o.new])
              /\ Removed(disk, FilesOf[o.new], op'[p].todo)
        <5>1. HasIn(disk, Root, o.new) => Outside(disk, FilesOf[o.old.version] \cup FilesOf[o.new])
          BY DEF HasIn, Outside
        <5>2. s = "undo_remove" => op'[p].todo = Entries(Root, o.new)
          BY <4>1 DEF Todo
        <5>3. s = "undo_remove" => Removed(disk, FilesOf[o.new], op'[p].todo)
          BY <5>2 DEF Removed, Entries
        <5> QED
          BY <3>1, <3>2, <5>1, <5>3 DEF UpgradeWhole, UpgradeFiles
      <4>3. s = "back_remove" =>
              Removed(disk, File, op'[p].todo) /\ <<Root, Executable>> \in op'[p].todo
        <5>1. s = "back_remove" => op'[p].todo = Entries(Root, o.new) /\ HasIn(disk, Root, o.new)
          BY <3>1, <3>2, <4>1 DEF Todo, UpgradeWhole, UpgradeFiles
        <5>2. <<Root, Executable>> \in Entries(Root, o.new)
          BY <1>2, <2>3, OpFacts, InstallationAssumption DEF Entries
        <5> QED
          BY <5>1, <5>2 DEF Removed, Entries, HasIn
      <4>4. UpgradeFiles(s, op'[p], disk)
        BY <3>1, <3>2, <3>4, <4>1, <4>2, <4>3
        DEF UpgradeWhole, UpgradeFiles, SameOp, OldInBackup, OldInRoot
      <4>5. UpgradeService(s, op'[p], task, record, running)
        BY <3>1, <3>2, <3>4, <4>1, <4>3 DEF UpgradeWhole, UpgradeService, SameOp
      <4>6. UpgradeWhole(s, op'[p], disk, manifest, key, task, record, running)
        BY <3>1, <3>2, <3>4, <4>1, <4>4, <4>5 DEF UpgradeWhole, SameOp
      <4> QED
        BY <1>1, <2>3, <4>1, <4>6 DEF UnderWay, SameOp
    <3> QED
      BY <3>3, <3>4
  <2>4. CASE o.kind = "uninstall"
    <3>1. UninstallWhole(r, o, disk, hidden, manifest, key, task, record, running)
      BY <2>1, <2>4 DEF UnderWay
    <3>2. \/ r \in {"unplan", "stop"} /\ s = "idle"
          \/ r \in {"unregister", "unrecord"} /\ s = "re_register"
          \/ r \in {"quarantine", "key", "commit"} /\ s = "unkey"
          \/ r = "purge" /\ (s = IF o.service THEN "plan" ELSE "idle")
      BY <1>1, <1>2, <1>3, <2>1, <2>4, <3>1
      DEF UninstallWhole, OpOK, StepsOf, UninstallStep, Recovery, UninstallRecovery, Compensating
    <3>3. CASE s = "idle"
      <4>1. CASE r = "purge"
        BY <1>1, <3>1, <3>3, <4>1 DEF UninstallWhole, UninstallService, AtRest
      <4>2. CASE r # "purge"
        <5>1. /\ WholeFiles(o.old, disk, manifest, key)
              /\ task = ServiceOf(o.old) /\ record = ServiceOf(o.old)
              /\ running \in {NoVersion, ServiceOf(o.old)}
          BY <3>1, <3>2, <3>3, <4>2 DEF UninstallWhole, UninstallService
        <5>2. o.old # NotInstalled
          BY <1>2, <2>4, OpFacts, ManifestIsThere
        <5> QED
          BY <1>1, <3>3, <5>1, <5>2 DEF AtRest, WholeFiles
      <4> QED
        BY <4>1, <4>2
    <3>4. CASE s # "idle"
      <4>1. /\ SameOp(o, op'[p]) /\ op'[p].made = o.made /\ op'[p].moved = o.moved
        BY <1>4, <3>4
      <4>2. UninstallService(s, op'[p], task, record, running)
        BY <3>1, <3>2, <3>4, <4>1 DEF UninstallWhole, UninstallService, SameOp
      <4>3. UninstallWhole(s, op'[p], disk, hidden, manifest, key, task, record, running)
        BY <3>1, <3>2, <3>4, <4>1, <4>2 DEF UninstallWhole, SameOp
      <4> QED
        BY <1>1, <2>4, <3>4, <4>1, <4>3 DEF UnderWay, SameOp
    <3> QED
      BY <3>3, <3>4
  <2> QED
    BY <2>2, <2>3, <2>4, <1>2, OpFacts
<1> QED
  BY <1>1, <1>4, <1>5, <1>6, <1>7, Advances

LEMMA CrashOK ==
    ASSUME InstallationInv, NEW p \in Process, Crash(p)
    PROVE  InstallationInv'
<1> DEFINE o == op[p]
           r == step[p]
           s == "idle"
<1>1. r # "idle" /\ GoTo(p, s)
      /\ UNCHANGED <<disk, hidden, manifest, key, request, task, record, running>>
      /\ mishap' = TRUE
  BY DEF Crash, bundle, service
<1>2. InstallationTypeOK /\ OpOK(r, o) /\ KeepsABundle(r, o, disk, hidden, manifest)
      /\ (~mishap => UnderWay(r, o, disk, hidden, manifest, key, task, record, running))
  BY <1>1, Sees
<1>3. (s = "idle" \/ s \in StepsOf(o.kind))
      /\ (s = "idle")
  BY <1>1, <1>2 DEF StepsOf, InstallStep, UpgradeStep, UninstallStep, OpOK
<1>4. MovesTo(p, s, op'[p])
      /\ (s # "idle" => /\ SameOp(o, op'[p]) /\ op'[p].todo = Todo(s, o)
                        /\ op'[p].made = o.made /\ op'[p].moved = o.moved)
  BY <1>1, <1>2, <1>3, GoToMoves
<1>5. task' \in AnyVersion /\ record' \in AnyVersion /\ running' \in AnyVersion
      /\ mishap' \in BOOLEAN
  BY <1>1, <1>2 DEF InstallationTypeOK
<1> HIDE DEF s
<1>6. s # "idle" => KeepsABundle(s, op'[p], disk, hidden, manifest)
  BY <1>1, <1>2, <1>3, <1>4
  DEF KeepsABundle, SameOp, OldInRoot, OldInBackup, OldStowed, StepsOf, InstallStep, UpgradeStep,
      UninstallStep, OpOK
<1>7. ASSUME ~mishap'
      PROVE  IF s = "idle" THEN AtRest(disk, manifest, key, task', record', running')
             ELSE UnderWay(s, op'[p], disk, hidden, manifest, key, task', record', running')
  BY <1>1, <1>7
<1> QED
  BY <1>1, <1>4, <1>5, <1>6, <1>7, Advances

(* The ends of the phases.                                                 *)
LEMMA CopyFinishedOK ==
    ASSUME InstallationInv, NEW p \in Process, CopyFinished(p)
    PROVE  InstallationInv'
<1> DEFINE o == op[p]
           r == step[p]
           s == IF step[p] = "copy" THEN "manifest" ELSE "prune"
<1>1. r \in {"copy", "replace"} /\ GoTo(p, s)
      /\ UNCHANGED <<disk, hidden, manifest, key, request, task, record, running, mishap>>
      /\ o.todo = {} /\ IntactIn(disk, Root, o.new)
  BY DEF CopyFinished, bundle, service, Finished, Intact, IntactIn
<1>2. InstallationTypeOK /\ OpOK(r, o) /\ KeepsABundle(r, o, disk, hidden, manifest)
      /\ (~mishap => UnderWay(r, o, disk, hidden, manifest, key, task, record, running))
  BY <1>1, Sees
<1>3. (s = "idle" \/ s \in StepsOf(o.kind))
      /\ ((r = "copy" /\ s = "manifest") \/ (r = "replace" /\ s = "prune"))
  BY <1>1, <1>2 DEF StepsOf, InstallStep, UpgradeStep, UninstallStep, OpOK
<1>4. MovesTo(p, s, op'[p])
      /\ (s # "idle" => /\ SameOp(o, op'[p]) /\ op'[p].todo = Todo(s, o)
                        /\ op'[p].made = o.made /\ op'[p].moved = o.moved)
  BY <1>1, <1>2, <1>3, GoToMoves
<1>5. task' \in AnyVersion /\ record' \in AnyVersion /\ running' \in AnyVersion
      /\ mishap' \in BOOLEAN
  BY <1>1, <1>2 DEF InstallationTypeOK
<1> HIDE DEF s
<1>6. s # "idle" => KeepsABundle(s, op'[p], disk, hidden, manifest)
  BY <1>1, <1>2, <1>3, <1>4
  DEF KeepsABundle, SameOp, OldInRoot, OldInBackup, OldStowed, StepsOf, InstallStep, UpgradeStep,
      UninstallStep, OpOK
<1>7. ASSUME ~mishap'
      PROVE  IF s = "idle" THEN AtRest(disk, manifest, key, task', record', running')
             ELSE UnderWay(s, op'[p], disk, hidden, manifest, key, task', record', running')
  <2>1. UnderWay(r, o, disk, hidden, manifest, key, task, record, running)
    BY <1>1, <1>2, <1>7
  <2>2. CASE o.kind = "install"
    <3>1. r = "copy" /\ s = "manifest"
      BY <1>1, <1>2, <1>3, <2>2 DEF OpOK, StepsOf, InstallStep
    <3> QED
      BY <1>1, <1>4, <2>1, <2>2, <3>1 DEF UnderWay, InstallWhole, SameOp
  <2>3. CASE o.kind = "upgrade"
    <3>1. UpgradeWhole(r, o, disk, manifest, key, task, record, running)
      BY <2>1, <2>3 DEF UnderWay
    <3>2. r = "replace" /\ s = "prune"
      BY <1>1, <1>2, <1>3, <2>3 DEF StepsOf, InstallStep, UpgradeStep, UninstallStep, OpOK
    <3>3. SameOp(o, op'[p]) /\ op'[p].todo = Todo(s, o)
      BY <1>4, <3>2
    <3>4. UpgradeFiles(r, o, disk) /\ UpgradeService(r, o, task, record, running)
      BY <3>1 DEF UpgradeWhole
    <3>5. Removed(disk, FilesOf[o.old.version] \ FilesOf[o.new], op'[p].todo)
      BY <3>2, <3>3 DEF Todo, Removed
    <3>6. UpgradeFiles(s, op'[p], disk)
      BY <1>1, <3>2, <3>3, <3>4, <3>5 DEF UpgradeFiles, SameOp, OldInBackup, OldInRoot
    <3>7. UpgradeService(s, op'[p], task, record, running)
      BY <3>2, <3>3, <3>4 DEF UpgradeService, SameOp
    <3>8. UpgradeWhole(s, op'[p], disk, manifest, key, task, record, running)
      BY <3>1, <3>2, <3>3, <3>6, <3>7 DEF UpgradeWhole, SameOp, NewManifest
    <3> QED
      BY <1>1, <2>3, <3>2, <3>3, <3>8 DEF UnderWay, SameOp
  <2>4. o.kind # "uninstall"
    BY <1>1, <1>2 DEF StepsOf, InstallStep, UpgradeStep, UninstallStep, OpOK
  <2> QED
    BY <2>2, <2>3, <2>4, <1>2, OpFacts
<1> QED
  BY <1>1, <1>4, <1>5, <1>6, <1>7, Advances

LEMMA ReadManifestOK ==
    ASSUME InstallationInv, NEW p \in Process, ReadManifest(p)
    PROVE  InstallationInv'
<1> DEFINE o == op[p]
           r == step[p]
           s == "backup"
<1>1. r = "read" /\ GoTo(p, s)
      /\ UNCHANGED <<disk, hidden, manifest, key, request, task, record, running, mishap>>
  BY DEF ReadManifest, bundle, service
<1>2. InstallationTypeOK /\ OpOK(r, o) /\ KeepsABundle(r, o, disk, hidden, manifest)
      /\ (~mishap => UnderWay(r, o, disk, hidden, manifest, key, task, record, running))
  BY <1>1, Sees
<1>3. o.kind = "upgrade" /\ s # "idle" /\ s \in StepsOf(o.kind)
  BY <1>1, <1>2 DEF StepsOf, InstallStep, UpgradeStep, UninstallStep, OpOK
<1>4. MovesTo(p, s, op'[p]) /\ SameOp(o, op'[p])
  BY <1>1, <1>2, <1>3, GoToMoves
<1>5. task' \in AnyVersion /\ record' \in AnyVersion /\ running' \in AnyVersion
      /\ mishap' \in BOOLEAN
  BY <1>1, <1>2 DEF InstallationTypeOK
<1>6. KeepsABundle(s, op'[p], disk, hidden, manifest)
  BY <1>1, <1>2, <1>3, <1>4 DEF KeepsABundle, SameOp, OldInRoot, OldInBackup
<1>7. ASSUME ~mishap'
      PROVE  UnderWay(s, op'[p], disk, hidden, manifest, key, task', record', running')
  <2>1. UpgradeWhole(r, o, disk, manifest, key, task, record, running)
    BY <1>1, <1>2, <1>3, <1>7 DEF UnderWay
  <2>2. UpgradeFiles(s, op'[p], disk)
    BY <1>1, <1>4, <2>1 DEF UpgradeWhole, UpgradeFiles, SameOp, OldInRoot, OldInBackup, Vacant
  <2>3. UpgradeService(s, op'[p], task, record, running)
    BY <1>1, <1>4, <2>1 DEF UpgradeWhole, UpgradeService, SameOp
  <2> QED
    BY <1>1, <1>3, <1>4, <2>1, <2>2, <2>3 DEF UnderWay, UpgradeWhole, SameOp
<1> QED
  BY <1>1, <1>3, <1>4, <1>5, <1>6, <1>7, Advances

LEMMA BackupFinishedOK ==
    ASSUME InstallationInv, NEW p \in Process, BackupFinished(p)
    PROVE  InstallationInv'
<1> DEFINE o == op[p]
           r == step[p]
           s == "replace"
<1>1. r \in {"backup"} /\ GoTo(p, s)
      /\ UNCHANGED <<disk, hidden, manifest, key, request, task, record, running, mishap>>
      /\ o.todo = {} /\ IntactIn(disk, o.place, o.old.version)
  BY DEF BackupFinished, bundle, service, Finished, Intact, IntactIn
<1>2. InstallationTypeOK /\ OpOK(r, o) /\ KeepsABundle(r, o, disk, hidden, manifest)
      /\ (~mishap => UnderWay(r, o, disk, hidden, manifest, key, task, record, running))
  BY <1>1, Sees
<1>3. (s = "idle" \/ s \in StepsOf(o.kind))
      /\ (s = "replace")
  BY <1>1, <1>2 DEF StepsOf, InstallStep, UpgradeStep, UninstallStep, OpOK
<1>4. MovesTo(p, s, op'[p])
      /\ (s # "idle" => /\ SameOp(o, op'[p]) /\ op'[p].todo = Todo(s, o)
                        /\ op'[p].made = o.made /\ op'[p].moved = o.moved)
  BY <1>1, <1>2, <1>3, GoToMoves
<1>5. task' \in AnyVersion /\ record' \in AnyVersion /\ running' \in AnyVersion
      /\ mishap' \in BOOLEAN
  BY <1>1, <1>2 DEF InstallationTypeOK
<1> HIDE DEF s
<1>6. s # "idle" => KeepsABundle(s, op'[p], disk, hidden, manifest)
  BY <1>1, <1>2, <1>3, <1>4
  DEF KeepsABundle, SameOp, OldInRoot, OldInBackup, OldStowed, StepsOf, InstallStep, UpgradeStep,
      UninstallStep, OpOK
<1>7. ASSUME ~mishap'
      PROVE  IF s = "idle" THEN AtRest(disk, manifest, key, task', record', running')
             ELSE UnderWay(s, op'[p], disk, hidden, manifest, key, task', record', running')
  <2>1. UnderWay(r, o, disk, hidden, manifest, key, task, record, running)
    BY <1>1, <1>2, <1>7
  <2>2. o.kind # "install"
    BY <1>1, <1>2 DEF StepsOf, InstallStep, UpgradeStep, UninstallStep, OpOK
  <2>3. CASE o.kind = "upgrade"
    <3>1. UpgradeWhole(r, o, disk, manifest, key, task, record, running)
      BY <2>1, <2>3 DEF UnderWay
    <3>2. r = "backup" /\ s = "replace"
      BY <1>1, <1>2, <1>3, <2>3 DEF StepsOf, InstallStep, UpgradeStep, UninstallStep, OpOK
    <3>3. SameOp(o, op'[p]) /\ op'[p].todo = Todo(s, o)
      BY <1>4, <3>2
    <3>4. UpgradeFiles(r, o, disk) /\ UpgradeService(r, o, task, record, running)
      BY <3>1 DEF UpgradeWhole
    <3>5. /\ HasIn(disk, o.place, o.old.version)
          /\ Outside(disk, FilesOf[o.old.version] \cup FilesOf[o.new])
      <4>1. HasIn(disk, Root, o.old.version)
            /\ \A f \in File \ FilesOf[o.old.version] : disk[o.place][f] = NoVersion
        BY <3>2, <3>4 DEF UpgradeFiles, OldInRoot
      <4> QED
        BY <1>1, <4>1 DEF HasIn, IntactIn, Outside
    <3>6. UpgradeFiles(s, op'[p], disk)
      BY <3>2, <3>3, <3>4, <3>5 DEF UpgradeFiles, SameOp, OldInBackup, OldInRoot
    <3>7. UpgradeService(s, op'[p], task, record, running)
      BY <3>2, <3>3, <3>4 DEF UpgradeService, SameOp
    <3>8. UpgradeWhole(s, op'[p], disk, manifest, key, task, record, running)
      BY <3>1, <3>2, <3>3, <3>6, <3>7 DEF UpgradeWhole, SameOp, NewManifest
    <3> QED
      BY <1>1, <2>3, <3>2, <3>3, <3>8 DEF UnderWay, SameOp
  <2>4. o.kind # "uninstall"
    BY <1>1, <1>2 DEF StepsOf, InstallStep, UpgradeStep, UninstallStep, OpOK
  <2> QED
    BY <2>2, <2>3, <2>4, <1>2, OpFacts
<1> QED
  BY <1>1, <1>4, <1>5, <1>6, <1>7, Advances

LEMMA RemoveFinishedOK ==
    ASSUME InstallationInv, NEW p \in Process, RemoveFinished(p)
    PROVE  InstallationInv'
<1> DEFINE o == op[p]
           r == step[p]
           s == CASE step[p] = "prune" -> "commit" [] step[p] = "clean" -> "clean_key"
                  [] step[p] = "undo_remove" -> "undo_restore" [] OTHER -> "back_restore"
<1>1. r \in {"prune", "clean", "undo_remove", "back_remove"} /\ GoTo(p, s)
      /\ UNCHANGED <<disk, hidden, manifest, key, request, task, record, running, mishap>>
      /\ o.todo = {}
  BY DEF RemoveFinished, bundle, service, Finished
<1>2. InstallationTypeOK /\ OpOK(r, o) /\ KeepsABundle(r, o, disk, hidden, manifest)
      /\ (~mishap => UnderWay(r, o, disk, hidden, manifest, key, task, record, running))
  BY <1>1, Sees
<1>3. (s = "idle" \/ s \in StepsOf(o.kind))
      /\ ((r = "prune" /\ s = "commit") \/ (r = "clean" /\ s = "clean_key")
      \/ (r = "undo_remove" /\ s = "undo_restore") \/ (r = "back_remove" /\ s = "back_restore"))
  BY <1>1, <1>2 DEF StepsOf, InstallStep, UpgradeStep, UninstallStep, OpOK
<1>4. MovesTo(p, s, op'[p])
      /\ (s # "idle" => /\ SameOp(o, op'[p]) /\ op'[p].todo = Todo(s, o)
                        /\ op'[p].made = o.made /\ op'[p].moved = o.moved)
  BY <1>1, <1>2, <1>3, GoToMoves
<1>5. task' \in AnyVersion /\ record' \in AnyVersion /\ running' \in AnyVersion
      /\ mishap' \in BOOLEAN
  BY <1>1, <1>2 DEF InstallationTypeOK
<1> HIDE DEF s
<1>6. s # "idle" => KeepsABundle(s, op'[p], disk, hidden, manifest)
  BY <1>1, <1>2, <1>3, <1>4
  DEF KeepsABundle, SameOp, OldInRoot, OldInBackup, OldStowed, StepsOf, InstallStep, UpgradeStep,
      UninstallStep, OpOK
<1>7. ASSUME ~mishap'
      PROVE  IF s = "idle" THEN AtRest(disk, manifest, key, task', record', running')
             ELSE UnderWay(s, op'[p], disk, hidden, manifest, key, task', record', running')
  <2>1. UnderWay(r, o, disk, hidden, manifest, key, task, record, running)
    BY <1>1, <1>2, <1>7
  <2>2. CASE o.kind = "install"
    <3>1. r = "clean" /\ s = "clean_key"
      BY <1>1, <1>2, <1>3, <2>2 DEF OpOK, StepsOf, InstallStep
    <3>2. InstallWhole(r, o, disk, manifest, key, task, record, running)
      BY <2>1, <2>2 DEF UnderWay
    <3>3. Vacant(disk, Root)
      BY <1>1, <3>1, <3>2 DEF InstallWhole, Outside, Removed, Vacant
    <3>4. InstallWhole(s, op'[p], disk, manifest, key, task, record, running)
      BY <1>4, <3>1, <3>2, <3>3 DEF InstallWhole, SameOp
    <3> QED
      BY <1>1, <1>4, <2>2, <3>1, <3>4 DEF UnderWay, SameOp
  <2>3. CASE o.kind = "upgrade"
    <3>1. UpgradeWhole(r, o, disk, manifest, key, task, record, running)
      BY <2>1, <2>3 DEF UnderWay
    <3>2. (r = "prune" /\ s = "commit") \/ (r = "undo_remove" /\ s = "undo_restore")
          \/ (r = "back_remove" /\ s = "back_restore")
      BY <1>1, <1>2, <1>3, <2>3 DEF StepsOf, InstallStep, UpgradeStep, UninstallStep, OpOK
    <3>3. SameOp(o, op'[p]) /\ op'[p].todo = Todo(s, o)
      BY <1>4, <3>2
    <3>4. UpgradeFiles(r, o, disk) /\ UpgradeService(r, o, task, record, running)
      BY <3>1 DEF UpgradeWhole
    <3>5. /\ s = "commit" => HasIn(disk, Root, o.new)
          /\ s = "undo_restore" => Outside(disk, FilesOf[o.old.version])
          /\ s = "back_restore" => Outside(disk, FilesOf[o.old.version])
      <4>1. s = "commit" => HasIn(disk, Root, o.new)
        BY <1>1, <3>2, <3>4 DEF UpgradeFiles, IntactIn, Outside, Removed, HasIn
      <4>2. s = "undo_restore" => Outside(disk, FilesOf[o.old.version])
        BY <1>1, <3>2, <3>4 DEF UpgradeFiles, Outside, Removed
      <4>3. s = "back_restore" => Outside(disk, FilesOf[o.old.version])
        BY <1>1, <3>2, <3>4 DEF UpgradeFiles, Outside, Removed
      <4> QED
        BY <4>1, <4>2, <4>3
    <3>6. UpgradeFiles(s, op'[p], disk)
      BY <3>2, <3>3, <3>4, <3>5 DEF UpgradeFiles, SameOp, OldInBackup, OldInRoot
    <3>7. UpgradeService(s, op'[p], task, record, running)
      BY <3>2, <3>3, <3>4, <1>1 DEF UpgradeService, SameOp
    <3>8. UpgradeWhole(s, op'[p], disk, manifest, key, task, record, running)
      BY <3>1, <3>2, <3>3, <3>6, <3>7 DEF UpgradeWhole, SameOp, NewManifest
    <3> QED
      BY <1>1, <2>3, <3>2, <3>3, <3>8 DEF UnderWay, SameOp
  <2>4. o.kind # "uninstall"
    BY <1>1, <1>2 DEF StepsOf, InstallStep, UpgradeStep, UninstallStep, OpOK
  <2> QED
    BY <2>2, <2>3, <2>4, <1>2, OpFacts
<1> QED
  BY <1>1, <1>4, <1>5, <1>6, <1>7, Advances

LEMMA RestoreFinishedOK ==
    ASSUME InstallationInv, NEW p \in Process, RestoreFinished(p)
    PROVE  InstallationInv'
<1> DEFINE o == op[p]
           r == step[p]
           s == IF step[p] = "undo_restore" THEN "undo_drop" ELSE "back_manifest"
<1>1. r \in {"undo_restore", "back_restore"} /\ GoTo(p, s)
      /\ UNCHANGED <<disk, hidden, manifest, key, request, task, record, running, mishap>>
      /\ o.todo = {} /\ IntactIn(disk, Root, o.old.version)
  BY DEF RestoreFinished, bundle, service, Finished, Intact, IntactIn
<1>2. InstallationTypeOK /\ OpOK(r, o) /\ KeepsABundle(r, o, disk, hidden, manifest)
      /\ (~mishap => UnderWay(r, o, disk, hidden, manifest, key, task, record, running))
  BY <1>1, Sees
<1>3. (s = "idle" \/ s \in StepsOf(o.kind))
      /\ ((r = "undo_restore" /\ s = "undo_drop") \/ (r = "back_restore" /\ s = "back_manifest"))
  BY <1>1, <1>2 DEF StepsOf, InstallStep, UpgradeStep, UninstallStep, OpOK
<1>4. MovesTo(p, s, op'[p])
      /\ (s # "idle" => /\ SameOp(o, op'[p]) /\ op'[p].todo = Todo(s, o)
                        /\ op'[p].made = o.made /\ op'[p].moved = o.moved)
  BY <1>1, <1>2, <1>3, GoToMoves
<1>5. task' \in AnyVersion /\ record' \in AnyVersion /\ running' \in AnyVersion
      /\ mishap' \in BOOLEAN
  BY <1>1, <1>2 DEF InstallationTypeOK
<1> HIDE DEF s
<1>6. s # "idle" => KeepsABundle(s, op'[p], disk, hidden, manifest)
  BY <1>1, <1>2, <1>3, <1>4
  DEF KeepsABundle, SameOp, OldInRoot, OldInBackup, OldStowed, StepsOf, InstallStep, UpgradeStep,
      UninstallStep, OpOK
<1>7. ASSUME ~mishap'
      PROVE  IF s = "idle" THEN AtRest(disk, manifest, key, task', record', running')
             ELSE UnderWay(s, op'[p], disk, hidden, manifest, key, task', record', running')
  <2>1. UnderWay(r, o, disk, hidden, manifest, key, task, record, running)
    BY <1>1, <1>2, <1>7
  <2>2. o.kind # "install"
    BY <1>1, <1>2 DEF StepsOf, InstallStep, UpgradeStep, UninstallStep, OpOK
  <2>3. CASE o.kind = "upgrade"
    <3>1. UpgradeWhole(r, o, disk, manifest, key, task, record, running)
      BY <2>1, <2>3 DEF UnderWay
    <3>2. (r = "undo_restore" /\ s = "undo_drop") \/ (r = "back_restore" /\ s = "back_manifest")
      BY <1>1, <1>2, <1>3, <2>3 DEF StepsOf, InstallStep, UpgradeStep, UninstallStep, OpOK
    <3>3. SameOp(o, op'[p]) /\ op'[p].todo = Todo(s, o)
      BY <1>4, <3>2
    <3>4. UpgradeFiles(r, o, disk) /\ UpgradeService(r, o, task, record, running)
      BY <3>1 DEF UpgradeWhole
    <3>5. HasIn(disk, Root, o.old.version)
      BY <1>1, <3>2, <3>4 DEF UpgradeFiles, HasIn, IntactIn, Outside
    <3>6. UpgradeFiles(s, op'[p], disk)
      BY <3>2, <3>3, <3>4, <3>5 DEF UpgradeFiles, SameOp, OldInBackup, OldInRoot
    <3>7. UpgradeService(s, op'[p], task, record, running)
      BY <3>2, <3>3, <3>4 DEF UpgradeService, SameOp
    <3>8. UpgradeWhole(s, op'[p], disk, manifest, key, task, record, running)
      BY <3>1, <3>2, <3>3, <3>6, <3>7 DEF UpgradeWhole, SameOp, NewManifest
    <3> QED
      BY <1>1, <2>3, <3>2, <3>3, <3>8 DEF UnderWay, SameOp
  <2>4. o.kind # "uninstall"
    BY <1>1, <1>2 DEF StepsOf, InstallStep, UpgradeStep, UninstallStep, OpOK
  <2> QED
    BY <2>2, <2>3, <2>4, <1>2, OpFacts
<1> QED
  BY <1>1, <1>4, <1>5, <1>6, <1>7, Advances

LEMMA QuarantineFinishedOK ==
    ASSUME InstallationInv, NEW p \in Process, QuarantineFinished(p)
    PROVE  InstallationInv'
<1> DEFINE o == op[p]
           r == step[p]
           s == CASE step[p] = "quarantine" -> "key"
                  [] step[p] = "unquarantine" -> IF op[p].service THEN "plan" ELSE "idle"
                  [] OTHER -> "idle"
<1>1. r \in {"quarantine", "unquarantine", "purge"} /\ GoTo(p, s)
      /\ UNCHANGED <<disk, hidden, manifest, key, request, task, record, running, mishap>>
      /\ o.todo = {}
  BY DEF QuarantineFinished, bundle, service, Finished
<1>2. InstallationTypeOK /\ OpOK(r, o) /\ KeepsABundle(r, o, disk, hidden, manifest)
      /\ (~mishap => UnderWay(r, o, disk, hidden, manifest, key, task, record, running))
  BY <1>1, Sees
<1>3. (s = "idle" \/ s \in StepsOf(o.kind))
      /\ ((r = "quarantine" /\ s = "key") \/ (r = "purge" /\ s = "idle")
      \/ (r = "unquarantine" /\ s = IF o.service THEN "plan" ELSE "idle"))
  BY <1>1, <1>2 DEF StepsOf, InstallStep, UpgradeStep, UninstallStep, OpOK
<1>4. MovesTo(p, s, op'[p])
      /\ (s # "idle" => /\ SameOp(o, op'[p]) /\ op'[p].todo = Todo(s, o)
                        /\ op'[p].made = o.made /\ op'[p].moved = o.moved)
  BY <1>1, <1>2, <1>3, GoToMoves
<1>5. task' \in AnyVersion /\ record' \in AnyVersion /\ running' \in AnyVersion
      /\ mishap' \in BOOLEAN
  BY <1>1, <1>2 DEF InstallationTypeOK
<1> HIDE DEF s
<1>6. s # "idle" => KeepsABundle(s, op'[p], disk, hidden, manifest)
  BY <1>1, <1>2, <1>3, <1>4
  DEF KeepsABundle, SameOp, OldInRoot, OldInBackup, OldStowed, StepsOf, InstallStep, UpgradeStep,
      UninstallStep, OpOK
<1>7. ASSUME ~mishap'
      PROVE  IF s = "idle" THEN AtRest(disk, manifest, key, task', record', running')
             ELSE UnderWay(s, op'[p], disk, hidden, manifest, key, task', record', running')
  <2>1. UnderWay(r, o, disk, hidden, manifest, key, task, record, running)
    BY <1>1, <1>2, <1>7
  <2>2. o.kind # "install"
    BY <1>1, <1>2 DEF StepsOf, InstallStep, UpgradeStep, UninstallStep, OpOK
  <2>3. o.kind # "upgrade"
    BY <1>1, <1>2 DEF StepsOf, InstallStep, UpgradeStep, UninstallStep, OpOK
  <2>4. CASE o.kind = "uninstall"
    <3>1. UninstallWhole(r, o, disk, hidden, manifest, key, task, record, running)
      BY <2>1, <2>4 DEF UnderWay
    <3>2. o.old # NotInstalled /\ o.service \in BOOLEAN
      BY <1>2, <2>4, OpFacts, ManifestIsThere
    <3>3. CASE r = "quarantine"
      <4>1. s = "key" /\ SameOp(o, op'[p]) /\ op'[p].moved = o.moved /\ op'[p].made = o.made
        BY <1>3, <1>4, <3>3
      <4>2. Owned(o.old) \subseteq o.moved
        BY <1>1, <3>1, <3>3 DEF UninstallWhole
      <4>3. UninstallService(s, op'[p], task, record, running)
        BY <3>1, <3>3, <4>1 DEF UninstallWhole, UninstallService, SameOp
      <4>4. UninstallWhole(s, op'[p], disk, hidden, manifest, key, task, record, running)
        BY <3>1, <3>3, <4>1, <4>2, <4>3 DEF UninstallWhole, SameOp
      <4> QED
        BY <1>1, <2>4, <4>1, <4>4 DEF UnderWay, SameOp
    <3>4. CASE r = "unquarantine"
      <4>1. manifest = o.old /\ key = TRUE /\ FilesStowed(disk, hidden, o.old, {})
            /\ Unserved(task, record, running) /\ o.service = o.old.service /\ o.prior = ServiceOf(o.old)
        BY <1>1, <3>1, <3>4 DEF UninstallWhole, UninstallService
      <4>2. WholeFiles(o.old, disk, manifest, key)
        BY <4>1, StowedNothing DEF WholeFiles
      <4>3. CASE o.service
        <5>1. s = "plan" /\ SameOp(o, op'[p]) /\ o.service = TRUE
          BY <1>3, <1>4, <3>2, <3>4, <4>3
        <5>2. UninstallService(s, op'[p], task, record, running)
          BY <4>1, <5>1 DEF UninstallService
        <5>3. UninstallWhole(s, op'[p], disk, hidden, manifest, key, task, record, running)
          BY <4>1, <4>2, <5>1, <5>2 DEF UninstallWhole, SameOp
        <5> QED
          BY <1>1, <2>4, <5>1, <5>3 DEF UnderWay, SameOp
      <4>4. CASE ~o.service
        <5>1. s = "idle" /\ ServiceOf(o.old) = NoVersion
          BY <1>3, <3>4, <4>1, <4>4 DEF ServiceOf
        <5> QED
          BY <1>1, <3>2, <4>1, <4>2, <5>1 DEF AtRest, WholeFiles, Unserved
      <4> QED
        BY <4>3, <4>4
    <3>5. CASE r = "purge"
      BY <1>1, <1>3, <3>1, <3>5 DEF UninstallWhole, UninstallService, AtRest
    <3> QED
      BY <1>1, <3>3, <3>4, <3>5
  <2> QED
    BY <2>2, <2>3, <2>4, <1>2, OpFacts
<1> QED
  BY <1>1, <1>4, <1>5, <1>6, <1>7, Advances

-----------------------------------------------------------------------------
(* Files that are written and removed.                                     *)

(* One file of the root has changed.                                       *)
RootChanged(dk, nk, f, v) ==
    /\ nk \in DiskType /\ nk[Root][f] = v
    /\ \A g \in File : g # f => nk[Root][g] = dk[Root][g]
    /\ \A c \in Transaction, g \in File : nk[c][g] = dk[c][g]

LEMMA RootPut ==
    ASSUME NEW dk \in DiskType, NEW f \in File, NEW v \in AnyVersion
    PROVE  RootChanged(dk, [dk EXCEPT ![Root][f] = v], f, v)
<1>1. Root \in Place /\ \A c \in Transaction : c \in Place /\ c # Root
  BY InstallationAssumption DEF Place
<1> QED
  BY <1>1, DiskPut DEF RootChanged

OneChanged(dk, nk, d, f) ==
    nk \in DiskType /\ \A c \in Place, g \in File : c # d \/ g # f => nk[c][g] = dk[c][g]

LEMMA OnePut ==
    ASSUME NEW dk \in DiskType, NEW d \in Place, NEW f \in File, NEW v \in AnyVersion
    PROVE  OneChanged(dk, [dk EXCEPT ![d][f] = v], d, f)
BY DiskPut DEF OneChanged

(* Backups other than those in places are as they were.                    *)
LEMMA BackupsKept ==
    ASSUME NEW dk, NEW nk, NEW places, NEW m \in InstallManifest,
           \A c \in Transaction \ places, g \in File : nk[c][g] = dk[c][g],
           BackupsIn(dk, m), OthersVacant(dk, m, places), PlacesOf(m) \cap places = {}
    PROVE  BackupsIn(nk, m) /\ OthersVacant(nk, m, places)
<1>1. \A b \in m.backups : b.place \in Transaction /\ b.place \notin places
  BY DEF InstallManifest, PlacesOf
<1> QED
  BY <1>1 DEF BackupsIn, OthersVacant, HasIn, Vacant

LEMMA IntactSurvives ==
    ASSUME NEW dk, NEW hd, NEW mf, NEW d \in Place, NEW v \in Version, IntactIn(dk, d, v)
    PROVE  Survives(dk, hd, mf)
BY DEF Survives, IntactIn

LEMMA StowedSurvives ==
    ASSUME NEW dk, NEW hd, NEW mf, NEW moved, NEW v \in Version, StowedIn(dk, hd, Root, v, moved)
    PROVE  Survives(dk, hd, mf)
<1>1. Root \in Place
  BY DEF Place
<1>2. \A f \in FilesOf[v] : v \in {dk[Root][f], hd[Root][f]}
  BY DEF StowedIn
<1> QED
  BY <1>1, <1>2 DEF Survives

RootStep ==
    {"copy", "replace", "prune", "clean", "undo_remove", "back_remove", "undo_restore", "back_restore"}

(* The file a phase may write in the root, and what it may write there.    *)
MayWrite(r, o, f, v, rn) ==
    /\ r \in {"copy", "replace", "clean", "undo_remove"} => f \in FilesOf[o.new]
    /\ r = "prune" => f \in FilesOf[o.old.version] \ FilesOf[o.new]
    /\ r \in {"prune", "clean", "undo_remove", "back_remove"} => v = NoVersion
    /\ r = "back_remove" /\ f = Executable => rn = NoVersion
    /\ r \in {"undo_restore", "back_restore"} => f \in FilesOf[o.old.version]

(* What is left of a phase after it has seen to one file.                  *)
LessTodo(o, n, f) ==
    SameOp(o, n) /\ n.made = o.made /\ n.moved = o.moved /\ o.todo \ n.todo \subseteq {<<Root, f>>}

LEMMA InstallRootWrite ==
    ASSUME NEW r \in RootStep, NEW o, NEW n, NEW dk, NEW nk, NEW f \in File, NEW v,
           NEW mf, NEW ky, NEW tk, NEW rc, NEW rn,
           RootChanged(dk, nk, f, v), MayWrite(r, o, f, v, rn), LessTodo(o, n, f),
           r \in InstallStep, o.new \in Version, InstallWhole(r, o, dk, mf, ky, tk, rc, rn)
    PROVE  InstallWhole(r, n, nk, mf, ky, tk, rc, rn)
<1>1. r \in {"copy", "clean"} /\ f \in FilesOf[o.new]
  BY DEF RootStep, InstallStep, MayWrite
<1>2. Outside(nk, FilesOf[o.new]) /\ \A d \in Transaction : Vacant(nk, d)
  BY <1>1 DEF InstallWhole, Outside, Vacant, RootChanged
<1>3. r = "clean" => Removed(nk, FilesOf[o.new], n.todo)
  <2>1. FilesOf[o.new] \subseteq File
    BY InstallationAssumption
  <2> QED
    BY <1>1, <2>1 DEF InstallWhole, Removed, RootChanged, LessTodo, MayWrite
<1> QED
  BY <1>1, <1>2, <1>3 DEF InstallWhole, LessTodo, SameOp, Unserved

LEMMA UpgradeRootWrite ==
    ASSUME NEW r \in RootStep, NEW o, NEW n, NEW dk, NEW nk, NEW f \in File, NEW v, NEW rn,
           OpOK(r, o), o.kind = "upgrade",
           RootChanged(dk, nk, f, v), MayWrite(r, o, f, v, rn), LessTodo(o, n, f),
           UpgradeFiles(r, o, dk)
    PROVE  UpgradeFiles(r, n, nk)
<1>1. r \in {"replace", "prune", "undo_remove", "back_remove", "undo_restore", "back_restore"}
  BY DEF OpOK, StepsOf, UpgradeStep, RootStep
<1>2. o.old \in InstallManifest /\ o.place \in Transaction /\ o.old.version \in Version
      /\ o.new \in Version
  BY OpFacts
<1>3. FilesOf[o.old.version] \subseteq File /\ FilesOf[o.new] \subseteq File
  BY <1>2, InstallationAssumption
<1>4. BackupsIn(nk, o.old) /\ OthersVacant(nk, o.old, {o.place})
  <2>1. PlacesOf(o.old) \cap {o.place} = {} /\ BackupsIn(dk, o.old) /\ OthersVacant(dk, o.old, {o.place})
    BY DEF UpgradeFiles
  <2> QED
    BY <1>2, <2>1, BackupsKept DEF RootChanged
<1>5. HasIn(nk, o.place, o.old.version)
  BY <1>1, <1>2 DEF UpgradeFiles, HasIn, OldInBackup, RootChanged
<1>6. r \in {"replace", "prune", "undo_remove"} =>
        Outside(nk, FilesOf[o.old.version] \cup FilesOf[o.new])
  BY DEF UpgradeFiles, Outside, RootChanged, MayWrite
<1>7. r = "prune" => IntactIn(nk, Root, o.new)
  BY <1>3 DEF UpgradeFiles, IntactIn, RootChanged, MayWrite
<1>8. \A files : files \subseteq File /\ Removed(dk, files, o.todo) /\ v = NoVersion =>
        Removed(nk, files, n.todo)
  BY DEF Removed, RootChanged, LessTodo
<1>9. /\ r = "prune" => Removed(nk, FilesOf[o.old.version] \ FilesOf[o.new], n.todo)
      /\ r = "undo_remove" => Removed(nk, FilesOf[o.new], n.todo)
      /\ r = "back_remove" => Removed(nk, File, n.todo)
  <2>1. FilesOf[o.old.version] \ FilesOf[o.new] \subseteq File /\ File \subseteq File
    BY <1>3
  <2> QED
    BY <1>3, <1>8, <2>1 DEF UpgradeFiles, MayWrite
<1>10. r \in {"undo_restore", "back_restore"} => Outside(nk, FilesOf[o.old.version])
  BY DEF UpgradeFiles, Outside, RootChanged, MayWrite
<1>11. n.old = o.old /\ n.place = o.place /\ n.new = o.new /\ o.place \notin PlacesOf(o.old)
  BY DEF LessTodo, SameOp, UpgradeFiles
<1> QED
  BY <1>1, <1>4, <1>5, <1>6, <1>7, <1>9, <1>10, <1>11
  DEF UpgradeFiles, OldInRoot

LEMMA RootWrites ==
    ASSUME InstallationInv, NEW p \in Process, NEW f \in File, NEW v \in AnyVersion,
           step[p] \in RootStep, RootChanged(disk, disk', f, v),
           UNCHANGED <<hidden, manifest, key, task, record, running, request, mishap>>,
           MovesTo(p, step[p], op'[p]), LessTodo(op[p], op'[p], f),
           MayWrite(step[p], op[p], f, v, running)
    PROVE  InstallationInv'
<1> DEFINE o == op[p]
           n == op'[p]
           r == step[p]
<1>1. r # "idle"
  BY DEF RootStep
<1>2. InstallationTypeOK /\ OpOK(r, o) /\ KeepsABundle(r, o, disk, hidden, manifest)
      /\ (~mishap => UnderWay(r, o, disk, hidden, manifest, key, task, record, running))
  BY <1>1, Sees
<1>3. StoresOK' /\ RequestOK(request')
  BY <1>2 DEF InstallationTypeOK, StoresOK, RootChanged
<1>4. n.kind = o.kind /\ n.new = o.new /\ n.old = o.old /\ n.place = o.place
  BY DEF LessTodo, SameOp
<1>5. CASE o.kind = "install"
  <2>1. r \in {"copy", "clean"} /\ manifest = NotInstalled /\ r \in InstallStep
    BY <1>2, <1>5 DEF RootStep, OpOK, StepsOf, InstallStep, KeepsABundle
  <2>2. Survives(disk', hidden', manifest') /\ KeepsABundle(r, n, disk', hidden', manifest')
    BY <1>4, <1>5, <2>1 DEF Survives, KeepsABundle
  <2>3. ~mishap' => UnderWay(r, n, disk', hidden', manifest', key', task', record', running')
    <3>1. ~mishap => InstallWhole(r, o, disk, manifest, key, task, record, running)
      BY <1>2, <1>5 DEF UnderWay
    <3>2. ~mishap => InstallWhole(r, n, disk', manifest, key, task, record, running)
      BY <1>2, <1>5, <2>1, <3>1, OpFacts, InstallRootWrite
    <3> QED
      BY <1>4, <1>5, <3>2 DEF UnderWay
  <2> QED
    BY <1>1, <1>2, <1>3, <2>2, <2>3, Concludes
<1>6. CASE o.kind = "upgrade"
  <2>1. r \in OldInBackup /\ r \notin OldInRoot
    BY <1>2, <1>6 DEF RootStep, OpOK, StepsOf, UpgradeStep, OldInBackup, OldInRoot
  <2>2. o.place \in Transaction /\ o.place \in Place /\ o.old.version \in Version
    BY <1>2, <1>6, OpFacts
  <2>3. IntactIn(disk', o.place, o.old.version)
    <3>1. IntactIn(disk, o.place, o.old.version) /\ FilesOf[o.old.version] \subseteq File
      BY <1>2, <1>6, <2>1, <2>2, InstallationAssumption DEF KeepsABundle
    <3> QED
      BY <2>2, <3>1 DEF IntactIn, RootChanged
  <2>4. Survives(disk', hidden', manifest')
    BY <2>2, <2>3, IntactSurvives
  <2>5. KeepsABundle(r, n, disk', hidden', manifest')
    BY <1>4, <1>6, <2>1, <2>3 DEF KeepsABundle
  <2>6. ~mishap' => UnderWay(r, n, disk', hidden', manifest', key', task', record', running')
    <3>0. SUFFICES ASSUME ~mishap
                   PROVE  UnderWay(r, n, disk', hidden', manifest', key', task', record', running')
      OBVIOUS
    <3>1. UpgradeWhole(r, o, disk, manifest, key, task, record, running)
      BY <1>2, <1>6, <3>0 DEF UnderWay
    <3>2. UpgradeFiles(r, n, disk')
      BY <1>2, <1>6, <3>1, UpgradeRootWrite DEF UpgradeWhole
    <3>3. UpgradeService(r, n, task, record, running)
      BY <3>1, <1>4 DEF UpgradeWhole, UpgradeService, LessTodo, SameOp, MayWrite
    <3>4. UpgradeWhole(r, n, disk', manifest, key, task, record, running)
      BY <3>1, <3>2, <3>3 DEF UpgradeWhole, LessTodo, SameOp, NewManifest
    <3> QED
      BY <1>4, <1>6, <3>4 DEF UnderWay
  <2> QED
    BY <1>1, <1>2, <1>3, <2>4, <2>5, <2>6, Concludes
<1>7. o.kind # "uninstall"
  BY <1>2 DEF RootStep, OpOK, StepsOf, UninstallStep
<1> QED
  BY <1>2, <1>5, <1>6, <1>7, OpFacts

(* A phase over files of the root works on one of them.                    *)
LEMMA RootEntry ==
    ASSUME InstallationInv, NEW p \in Process, step[p] \in RootStep, NEW e \in op[p].todo
    PROVE  /\ e = <<Root, e[2]>> /\ e[1] = Root /\ e[2] \in File
           /\ step[p] \in {"copy", "replace", "clean", "undo_remove"} => e[2] \in FilesOf[op[p].new]
           /\ step[p] = "prune" => e[2] \in FilesOf[op[p].old.version] \ FilesOf[op[p].new]
           /\ step[p] \in {"undo_restore", "back_restore"} => e[2] \in FilesOf[op[p].old.version]
<1> DEFINE o == op[p]
           r == step[p]
<1>1. r # "idle" /\ OpOK(r, o)
  BY Sees DEF RootStep
<1>2. e \in Todo(r, o) /\ e \in Place \X File
  BY <1>1 DEF OpOK, OpType
<1>3. /\ r \in {"copy", "replace", "clean", "undo_remove", "back_remove"} => e \in Entries(Root, o.new)
      /\ r \in {"undo_restore", "back_restore"} => e \in Entries(Root, o.old.version)
      /\ r = "prune" => e \in {Root} \X (FilesOf[o.old.version] \ FilesOf[o.new])
  BY <1>2 DEF Todo
<1> HIDE DEF o, r
<1>4. e[2] \in File /\ e = <<e[1], e[2]>>
  BY <1>2
<1>5. /\ r \in {"copy", "replace", "clean", "undo_remove", "back_remove"} =>
           e[1] = Root /\ e[2] \in FilesOf[o.new]
      /\ r \in {"undo_restore", "back_restore"} => e[1] = Root /\ e[2] \in FilesOf[o.old.version]
      /\ r = "prune" => e[1] = Root /\ e[2] \in FilesOf[o.old.version] \ FilesOf[o.new]
  BY <1>3 DEF Entries
<1>6. e[1] = Root
  BY <1>5 DEF RootStep, r
<1> QED
  BY <1>4, <1>5, <1>6 DEF o, r

LEMMA SameOpSelf == \A o : SameOp(o, o)
BY DEF SameOp

(* A command that stays where it is.                                       *)
LEMMA Stays ==
    ASSUME InstallationTypeOK, NEW p \in Process, UNCHANGED <<step, op>>
    PROVE  MovesTo(p, step[p], op'[p])
BY DEF InstallationTypeOK, MovesTo

LEMMA PutFileOK ==
    ASSUME InstallationInv, NEW p \in Process,
           step[p] \in {"copy", "replace", "undo_restore", "back_restore"},
           NEW e \in op[p].todo, NEW v \in AnyVersion, PutFile(p, e, v)
    PROVE  InstallationInv'
<1>1. step[p] \in RootStep /\ step[p] # "idle"
  BY DEF RootStep
<1>2. e = <<Root, e[2]>> /\ e[1] = Root /\ e[2] \in File /\ MayWrite(step[p], op[p], e[2], v, running)
      /\ MayWrite(step[p], op[p], e[2], NoVersion, running)
  BY <1>1, RootEntry DEF MayWrite
<1>3. InstallationTypeOK /\ disk \in DiskType /\ NoVersion \in AnyVersion
  BY Sees DEF InstallationTypeOK, AnyVersion
<1>4. UNCHANGED <<hidden, manifest, key, task, record, running, request, mishap>>
  BY DEF PutFile, service
<1>5. CASE disk[e[1]][e[2]] # NoVersion
  <2>1. disk' = [disk EXCEPT ![Root][e[2]] = NoVersion] /\ UNCHANGED <<step, op>>
    BY <1>2, <1>5 DEF PutFile
  <2>2. RootChanged(disk, disk', e[2], NoVersion)
    BY <1>2, <1>3, <2>1, RootPut
  <2>3. MovesTo(p, step[p], op'[p]) /\ LessTodo(op[p], op'[p], e[2])
    BY <1>3, <2>1, Stays, SameOpSelf DEF LessTodo
  <2> QED
    BY <1>1, <1>2, <1>3, <1>4, <2>2, <2>3, RootWrites
<1>6. CASE disk[e[1]][e[2]] = NoVersion
  <2>1. disk' = [disk EXCEPT ![Root][e[2]] = v] /\ Did(p, e)
    BY <1>2, <1>6 DEF PutFile
  <2>2. RootChanged(disk, disk', e[2], v)
    BY <1>2, <1>3, <2>1, RootPut
  <2>3. MovesTo(p, step[p], op'[p]) /\ LessTodo(op[p], op'[p], e[2])
    BY <1>1, <1>2, <1>3, <2>1, DidMoves DEF LessTodo
  <2> QED
    BY <1>1, <1>2, <1>3, <1>4, <2>2, <2>3, RootWrites
<1> QED
  BY <1>5, <1>6

LEMMA CopyFileOK ==
    ASSUME InstallationInv, NEW p \in Process, CopyFile(p)
    PROVE  InstallationInv'
<1>1. step[p] \in {"copy", "replace"}
  BY DEF CopyFile, WorksOn
<1>2. PICK e \in op[p].todo : PutFile(p, e, op[p].new)
  BY DEF CopyFile
<1>3. op[p].new \in AnyVersion
  BY <1>1, Sees, OpFacts
<1> QED
  BY <1>1, <1>2, <1>3, PutFileOK

LEMMA RestoreFileOK ==
    ASSUME InstallationInv, NEW p \in Process, RestoreFile(p)
    PROVE  InstallationInv'
<1>1. step[p] \in {"undo_restore", "back_restore"}
  BY DEF RestoreFile, WorksOn
<1>2. PICK e \in op[p].todo : PutFile(p, e, op[p].old.version)
  BY DEF RestoreFile
<1>3. OpOK(step[p], op[p])
  BY <1>1, Sees
<1>4. op[p].kind # "install"
  BY <1>1, <1>3 DEF OpOK, StepsOf, InstallStep
<1>5. op[p].old.version \in AnyVersion
  BY <1>3, <1>4, OpFacts DEF AnyVersion
<1> QED
  BY <1>1, <1>2, <1>5, PutFileOK

LEMMA RemoveFileOK ==
    ASSUME InstallationInv, NEW p \in Process, RemoveFile(p)
    PROVE  InstallationInv'
<1>1. step[p] \in {"prune", "clean", "undo_remove", "back_remove"} /\ step[p] \in RootStep
      /\ step[p] # "idle"
  BY DEF RemoveFile, WorksOn, RootStep
<1>2. PICK e \in op[p].todo : /\ ~Locked(e) /\ disk' = [disk EXCEPT ![e[1]][e[2]] = NoVersion]
                              /\ Did(p, e)
  BY DEF RemoveFile
<1>3. e = <<Root, e[2]>> /\ e[1] = Root /\ e[2] \in File
  BY <1>1, RootEntry
<1>4. MayWrite(step[p], op[p], e[2], NoVersion, running)
  BY <1>1, <1>2, <1>3, RootEntry DEF MayWrite, Locked
<1>5. InstallationTypeOK /\ disk \in DiskType /\ NoVersion \in AnyVersion
  BY Sees DEF InstallationTypeOK, AnyVersion
<1>6. UNCHANGED <<hidden, manifest, key, task, record, running, request, mishap>>
  BY DEF RemoveFile, service
<1>7. RootChanged(disk, disk', e[2], NoVersion)
  BY <1>2, <1>3, <1>5, RootPut
<1>8. MovesTo(p, step[p], op'[p]) /\ LessTodo(op[p], op'[p], e[2])
  BY <1>1, <1>2, <1>3, <1>5, DidMoves DEF LessTodo
<1> QED
  BY <1>1, <1>3, <1>4, <1>5, <1>6, <1>7, <1>8, RootWrites

LEMMA BackupFileOK ==
    ASSUME InstallationInv, NEW p \in Process, BackupFile(p)
    PROVE  InstallationInv'
<1> DEFINE o == op[p]
           n == op'[p]
<1>1. step[p] = "backup"
  BY DEF BackupFile, WorksOn
<1>2. InstallationTypeOK /\ OpOK("backup", o) /\ KeepsABundle("backup", o, disk, hidden, manifest)
      /\ (~mishap => UnderWay("backup", o, disk, hidden, manifest, key, task, record, running))
  BY <1>1, Sees
<1>3. o.kind = "upgrade"
  BY <1>2, OpFacts DEF OpOK, StepsOf, InstallStep, UninstallStep
<1>4. o.place \in Transaction /\ o.place \in Place /\ o.place # Root /\ Root \in Place
      /\ o.old \in InstallManifest /\ o.old.version \in Version
  BY <1>2, <1>3, OpFacts
<1>5. PICK e \in o.todo : /\ disk' = [disk EXCEPT ![o.place][e[2]] = o.old.version]
                          /\ Did(p, e)
  BY DEF BackupFile
<1> DEFINE f == e[2]
<1>6. f \in FilesOf[o.old.version] /\ f \in File
  <2>1. e \in Entries(Root, o.old.version)
    BY <1>2 DEF OpOK, Todo
  <2> QED
    BY <1>4, <2>1, InstallationAssumption DEF Entries
<1> HIDE DEF f
<1>7. disk \in DiskType /\ o.old.version \in AnyVersion
  BY <1>2, <1>4 DEF InstallationTypeOK, AnyVersion
<1>8. disk' \in DiskType /\ \A c \in Place, g \in File : c # o.place \/ g # f => disk'[c][g] = disk[c][g]
  <2>1. disk' = [disk EXCEPT ![o.place][f] = o.old.version]
    BY <1>5 DEF f
  <2>2. OneChanged(disk, disk', o.place, f)
    BY <2>1, <1>4, <1>6, <1>7, OnePut
  <2> QED
    BY <2>2 DEF OneChanged
<1>9. UNCHANGED <<hidden, manifest, key, task, record, running, request, mishap>>
  BY DEF BackupFile, service
<1>10. StoresOK' /\ RequestOK(request')
  BY <1>2, <1>8, <1>9 DEF InstallationTypeOK, StoresOK
<1>11. MovesTo(p, "backup", n) /\ SameOp(o, n) /\ n.made = o.made /\ n.moved = o.moved
  BY <1>1, <1>2, <1>5, DidMoves
<1>12. IntactIn(disk', Root, o.old.version)
  <2>1. IntactIn(disk, Root, o.old.version) /\ FilesOf[o.old.version] \subseteq File
    BY <1>2, <1>3, <1>4, InstallationAssumption DEF KeepsABundle, OldInRoot
  <2> QED
    BY <1>4, <1>8, <2>1 DEF IntactIn
<1>13. Survives(disk', hidden', manifest')
  BY <1>4, <1>12, IntactSurvives
<1>14. KeepsABundle("backup", n, disk', hidden', manifest')
  BY <1>3, <1>11, <1>12 DEF KeepsABundle, SameOp, OldInBackup
<1>15. ASSUME ~mishap'
       PROVE  UnderWay("backup", n, disk', hidden', manifest', key', task', record', running')
  <2>1. UpgradeWhole("backup", o, disk, manifest, key, task, record, running)
    BY <1>2, <1>3, <1>9, <1>15 DEF UnderWay
  <2>2. /\ PlacesOf(o.old) \cap {o.place} = {} /\ BackupsIn(disk, o.old)
        /\ OthersVacant(disk, o.old, {o.place}) /\ HasIn(disk, Root, o.old.version)
        /\ \A g \in File \ FilesOf[o.old.version] : disk[o.place][g] = NoVersion
    BY <2>1 DEF UpgradeWhole, UpgradeFiles, OldInRoot
  <2>3. \A c \in Transaction \ {o.place}, g \in File : disk'[c][g] = disk[c][g]
    BY <1>8 DEF Place
  <2>4. BackupsIn(disk', o.old) /\ OthersVacant(disk', o.old, {o.place})
    BY <1>4, <2>2, <2>3, BackupsKept
  <2>5. HasIn(disk', Root, o.old.version)
    BY <1>4, <1>8, <2>2 DEF HasIn
  <2>6. \A g \in File \ FilesOf[o.old.version] : disk'[o.place][g] = NoVersion
    BY <1>4, <1>6, <1>8, <2>2
  <2>7. UpgradeFiles("backup", n, disk')
    BY <1>11, <2>2, <2>4, <2>5, <2>6 DEF UpgradeFiles, SameOp, OldInBackup, OldInRoot
  <2>8. UpgradeService("backup", n, task, record, running)
    BY <1>11, <2>1 DEF UpgradeWhole, UpgradeService, SameOp
  <2>9. UpgradeWhole("backup", n, disk', manifest, key, task, record, running)
    BY <1>11, <2>1, <2>7, <2>8 DEF UpgradeWhole, SameOp
  <2> QED
    BY <1>3, <1>9, <1>11, <2>9 DEF UnderWay, SameOp
<1> QED
  BY <1>2, <1>10, <1>11, <1>13, <1>14, <1>15, Concludes

LEMMA DropBackupOK ==
    ASSUME InstallationInv, NEW p \in Process, DropBackup(p)
    PROVE  InstallationInv'
<1> DEFINE o == op[p]
           n == op'[p]
           r == step[p]
           s == IF step[p] = "undo_drop" THEN "undo_manifest" ELSE "restart"
<1>1. r \in {"undo_drop", "back_drop"} /\ GoTo(p, s)
      /\ UNCHANGED <<hidden, manifest, key, task, record, running, request>>
  BY DEF DropBackup, service
<1>2. InstallationTypeOK /\ OpOK(r, o) /\ KeepsABundle(r, o, disk, hidden, manifest)
      /\ (~mishap => UnderWay(r, o, disk, hidden, manifest, key, task, record, running))
  BY <1>1, Sees
<1>3. o.kind = "upgrade"
  BY <1>1, <1>2, OpFacts DEF OpOK, StepsOf, InstallStep, UninstallStep
<1>4. o.place \in Transaction /\ o.place \in Place /\ o.place # Root /\ Root \in Place
      /\ o.old \in InstallManifest /\ o.old.version \in Version
  BY <1>2, <1>3, OpFacts
<1>5. (r = "undo_drop" /\ s = "undo_manifest") \/ (r = "back_drop" /\ s = "restart")
  BY <1>1
<1>6. s # "idle" /\ s \in StepsOf(o.kind)
  BY <1>3 DEF StepsOf, UpgradeStep
<1>7. MovesTo(p, s, n) /\ SameOp(o, n) /\ n.made = o.made /\ n.moved = o.moved
  BY <1>1, <1>2, <1>6, GoToMoves
<1> HIDE DEF s
<1>8. \/ disk' = [disk EXCEPT ![o.place] = NoFiles[o.place]] /\ mishap' = mishap
      \/ disk' = disk /\ mishap' = TRUE
  BY DEF DropBackup
<1>9. /\ disk' \in DiskType /\ mishap' \in BOOLEAN
      /\ \A c \in Place, g \in File : c # o.place => disk'[c][g] = disk[c][g]
      /\ ~mishap' => ~mishap /\ Vacant(disk', o.place)
  <2>1. disk \in DiskType /\ mishap \in BOOLEAN /\ NoFiles[o.place] = [g \in File |-> NoVersion]
    BY <1>2, <1>4 DEF InstallationTypeOK, NoFiles
  <2>2. CASE disk' = disk /\ mishap' = TRUE
    BY <2>1, <2>2
  <2>3. CASE disk' = [disk EXCEPT ![o.place] = NoFiles[o.place]] /\ mishap' = mishap
    <3>1. disk' = [disk EXCEPT ![o.place] = [g \in File |-> NoVersion]]
      BY <2>1, <2>3
    <3>2. [g \in File |-> NoVersion] \in [File -> AnyVersion]
      BY DEF AnyVersion
    <3>3. disk' \in DiskType
      BY <1>4, <2>1, <3>1, <3>2 DEF DiskType
    <3>4. disk'[o.place] = [g \in File |-> NoVersion] /\ \A c \in Place : c # o.place => disk'[c] = disk[c]
      BY <1>4, <2>1, <3>1 DEF DiskType
    <3> QED
      BY <2>1, <2>3, <3>3, <3>4 DEF Vacant
  <2> QED
    BY <1>8, <2>2, <2>3
<1>10. StoresOK' /\ RequestOK(request')
  BY <1>1, <1>2, <1>9 DEF InstallationTypeOK, StoresOK
<1>11. IntactIn(disk', Root, o.old.version)
  <2>1. IntactIn(disk, Root, o.old.version) /\ FilesOf[o.old.version] \subseteq File
    BY <1>1, <1>2, <1>3, <1>4, InstallationAssumption DEF KeepsABundle, OldInRoot
  <2> QED
    BY <1>4, <1>9, <2>1 DEF IntactIn
<1>12. Survives(disk', hidden', manifest')
  BY <1>4, <1>11, IntactSurvives
<1>13. KeepsABundle(s, n, disk', hidden', manifest')
  BY <1>3, <1>5, <1>7, <1>11 DEF KeepsABundle, SameOp, OldInBackup
<1>14. ASSUME ~mishap'
       PROVE  UnderWay(s, n, disk', hidden', manifest', key', task', record', running')
  <2>1. UpgradeWhole(r, o, disk, manifest, key, task, record, running)
    BY <1>2, <1>3, <1>9, <1>14 DEF UnderWay
  <2>2. /\ PlacesOf(o.old) \cap {o.place} = {} /\ BackupsIn(disk, o.old)
        /\ OthersVacant(disk, o.old, {o.place}) /\ HasIn(disk, Root, o.old.version)
    BY <1>1, <2>1 DEF UpgradeWhole, UpgradeFiles, OldInRoot
  <2>3. \A c \in Transaction \ {o.place}, g \in File : disk'[c][g] = disk[c][g]
    BY <1>9 DEF Place
  <2>4. BackupsIn(disk', o.old) /\ OthersVacant(disk', o.old, {o.place})
    BY <1>4, <2>2, <2>3, BackupsKept
  <2>5. HasIn(disk', Root, o.old.version) /\ Vacant(disk', o.place)
    BY <1>4, <1>9, <1>14, <2>2 DEF HasIn
  <2>6. UpgradeFiles(s, n, disk')
    BY <1>5, <1>7, <2>2, <2>4, <2>5 DEF UpgradeFiles, SameOp, OldInBackup, OldInRoot
  <2>7. UpgradeService(s, n, task, record, running)
    BY <1>5, <1>7, <2>1 DEF UpgradeWhole, UpgradeService, SameOp
  <2>8. UpgradeWhole(s, n, disk', manifest, key, task, record, running)
    BY <1>5, <1>7, <2>1, <2>6, <2>7 DEF UpgradeWhole, SameOp
  <2> QED
    BY <1>1, <1>3, <1>7, <2>8 DEF UnderWay, SameOp
<1> QED
  BY <1>2, <1>6, <1>7, <1>10, <1>12, <1>13, <1>14, Concludes

(* Files that are renamed and put back.                                    *)
Put(dk, e, v) == [dk EXCEPT ![e[1]][e[2]] = v]

Wrote(dk, nk, e, v) ==
    nk \in DiskType /\ \A d \in Place, f \in File : nk[d][f] = IF e = <<d, f>> THEN v ELSE dk[d][f]

LEMMA EntryPut ==
    ASSUME NEW dk \in DiskType, NEW e \in Place \X File, NEW v \in AnyVersion
    PROVE  Wrote(dk, Put(dk, e, v), e, v)
<1>1. e[1] \in Place /\ e[2] \in File /\ e = <<e[1], e[2]>>
  BY EntryType
<1>2. \A d, f : e = <<d, f>> <=> d = e[1] /\ f = e[2]
  BY <1>1
<1> QED
  BY <1>1, <1>2, DiskPut DEF Wrote, Put

(* From the first of two sets of files to the second.                      *)
Renames(from, to, newFrom, newTo, e) ==
    \A c \in Place, f \in File :
        /\ newFrom[c][f] = IF e = <<c, f>> THEN NoVersion ELSE from[c][f]
        /\ newTo[c][f] = IF e = <<c, f>> THEN from[c][f] ELSE to[c][f]

LEMMA RenamePut ==
    ASSUME NEW from \in DiskType, NEW to \in DiskType, NEW e \in Place \X File, NEW nf, NEW nt,
           nf = Put(from, e, NoVersion), nt = Put(to, e, from[e[1]][e[2]])
    PROVE  nf \in DiskType /\ nt \in DiskType /\ Renames(from, to, nf, nt, e)
<1> DEFINE w == from[e[1]][e[2]]
<1>1. w \in AnyVersion /\ NoVersion \in AnyVersion
  BY EntryType DEF DiskType, AnyVersion
<1>2. \A c, f : e = <<c, f>> => w = from[c][f]
  BY EntryType
<1>3. nt = Put(to, e, w)
  OBVIOUS
<1> HIDE DEF w
<1>4. Wrote(from, nf, e, NoVersion) /\ Wrote(to, nt, e, w)
  BY <1>1, <1>3, EntryPut
<1> QED
  BY <1>2, <1>4 DEF Wrote, Renames

(* What is owned has its place.                                            *)
LEMMA BackupTypes ==
    ASSUME NEW m \in InstallManifest
    PROVE  /\ m.version \in Version /\ FilesOf[m.version] \subseteq File
           /\ \A b \in m.backups : /\ b.place \in Transaction /\ b.place \in Place /\ b.place # Root
                                   /\ b.version \in Version /\ FilesOf[b.version] \subseteq File
<1>1. m.version \in Version /\ \A b \in m.backups : b.place \in Transaction /\ b.version \in Version
  BY DEF InstallManifest
<1> QED
  BY <1>1, InstallationAssumption DEF Place

(* A file goes into quarantine, and its entry with it.                     *)
LEMMA StowOne ==
    ASSUME NEW dk, NEW hd, NEW nk, NEW nh, NEW e, NEW d \in Place, NEW v \in Version, NEW moved,
           e \notin moved, dk[e[1]][e[2]] # NoVersion,
           Renames(dk, hd, nk, nh, e)
    PROVE  /\ HasOrStowed(dk, hd, d, v, moved) => HasOrStowed(nk, nh, d, v, moved \cup {e})
           /\ StowedIn(dk, hd, d, v, moved) /\ FilesOf[v] \subseteq File =>
                 StowedIn(nk, nh, d, v, moved \cup {e})
BY DEF HasOrStowed, StowedIn, Renames

(* A file comes back.                                                      *)
LEMMA UnstowOne ==
    ASSUME NEW dk, NEW hd, NEW nk, NEW nh, NEW e, NEW d \in Place, NEW v \in Version, NEW moved,
           e \in moved,
           Renames(hd, dk, nh, nk, e)
    PROVE  /\ HasOrStowed(dk, hd, d, v, moved) /\ (\A f \in File : e = <<d, f>> => f \in FilesOf[v]) =>
                 HasOrStowed(nk, nh, d, v, moved \ {e})
           /\ StowedIn(dk, hd, d, v, moved) /\ FilesOf[v] \subseteq File =>
                 StowedIn(nk, nh, d, v, moved \ {e})
BY DEF HasOrStowed, StowedIn, Renames

(* A command that renames a file and remembers it.                         *)
QuarantinedOp(o, e) == [o EXCEPT !.todo = o.todo \ {e}, !.moved = o.moved \cup {e}]

LEMMA QuarantineMoves ==
    ASSUME InstallationTypeOK, NEW p \in Process, step[p] = "quarantine", NEW e \in op[p].todo,
           op' = [op EXCEPT ![p] = QuarantinedOp(op[p], e)], UNCHANGED step
    PROVE  /\ MovesTo(p, "quarantine", op'[p])
           /\ SameOp(op[p], op'[p]) /\ op'[p].todo = op[p].todo \ {e}
           /\ op'[p].made = op[p].made /\ op'[p].moved = op[p].moved \cup {e}
<1> DEFINE o == op[p]
           n == QuarantinedOp(o, e)
<1>1. OpOK("quarantine", o) /\ step = [q \in Process |-> step[q]]
  BY DEF InstallationTypeOK, ProcessesOK
<1>2. o.kind = "uninstall"
  BY <1>1, OpFacts DEF OpOK, StepsOf, InstallStep, UpgradeStep
<1>3. o \in OpType /\ o.todo \subseteq Place \X File /\ o.moved \subseteq Place \X File
      /\ o.todo \subseteq Owned(o.old) /\ o.moved \subseteq Owned(o.old)
  BY <1>1, <1>2 DEF OpOK, OpType, Todo
<1>4. SameOp(o, n) /\ n.todo = o.todo \ {e} /\ n.made = o.made /\ n.moved = o.moved \cup {e}
      /\ n \in OpType
  <2> DEFINE t == o.todo \ {e}
             m == o.moved \cup {e}
  <2>1. t \subseteq Place \X File /\ m \subseteq Place \X File
    BY <1>3
  <2> HIDE DEF t, m
  <2>2. /\ SameOp(o, [o EXCEPT !.todo = t, !.moved = m])
        /\ [o EXCEPT !.todo = t, !.moved = m].todo = t /\ [o EXCEPT !.todo = t, !.moved = m].made = o.made
        /\ [o EXCEPT !.todo = t, !.moved = m].moved = m /\ [o EXCEPT !.todo = t, !.moved = m] \in OpType
    BY <1>3, <2>1 DEF OpType, SameOp
  <2> QED
    BY <2>2 DEF t, m, QuarantinedOp
<1> HIDE DEF n
<1>5. OpOK("quarantine", n)
  BY <1>1, <1>2, <1>3, <1>4 DEF OpOK, SameOp, Todo
<1>6. op' = [op EXCEPT ![p] = n] /\ step' = [step EXCEPT ![p] = "quarantine"]
  BY <1>1 DEF n
<1>7. MovesTo(p, "quarantine", n)
  BY <1>5, <1>6, OpMoves
<1> QED
  BY <1>4, <1>7 DEF MovesTo

LEMMA QuarantineFileOK ==
    ASSUME InstallationInv, NEW p \in Process, QuarantineFile(p)
    PROVE  InstallationInv'
<1> DEFINE o == op[p]
           n == op'[p]
<1>1. step[p] = "quarantine"
      /\ UNCHANGED <<step, manifest, key, task, record, running, request, mishap>>
  BY DEF QuarantineFile, WorksOn, service
<1>2. InstallationTypeOK /\ OpOK("quarantine", o) /\ KeepsABundle("quarantine", o, disk, hidden, manifest)
      /\ (~mishap => UnderWay("quarantine", o, disk, hidden, manifest, key, task, record, running))
  BY <1>1, Sees
<1>3. o.kind = "uninstall"
  BY <1>2, OpFacts DEF OpOK, StepsOf, InstallStep, UpgradeStep
<1>4. PICK e \in o.todo : /\ disk[e[1]][e[2]] # NoVersion
                          /\ hidden' = Put(hidden, e, disk[e[1]][e[2]])
                          /\ disk' = Put(disk, e, NoVersion)
                          /\ op' = [op EXCEPT ![p] = QuarantinedOp(o, e)]
  BY DEF QuarantineFile, QuarantinedOp, Put
<1>5. e \in Place \X File /\ e[1] \in Place /\ e[2] \in File /\ e = <<e[1], e[2]>>
  BY <1>2, EntryType DEF OpOK, OpType
<1>6. disk \in DiskType /\ hidden \in DiskType /\ disk[e[1]][e[2]] \in AnyVersion /\ NoVersion \in AnyVersion
  BY <1>2, <1>5 DEF InstallationTypeOK, DiskType, AnyVersion
<1>7. disk' \in DiskType /\ hidden' \in DiskType /\ Renames(disk, hidden, disk', hidden', e)
  BY <1>4, <1>5, <1>6, RenamePut
<1>8. MovesTo(p, "quarantine", n) /\ SameOp(o, n) /\ n.todo = o.todo \ {e} /\ n.made = o.made
      /\ n.moved = o.moved \cup {e}
  BY <1>1, <1>2, <1>4, QuarantineMoves
<1>9. o.old \in InstallManifest /\ o.old.version \in Version /\ FilesOf[o.old.version] \subseteq File
      /\ Root \in Place
  BY <1>2, <1>3, OpFacts, BackupTypes
<1>10. StoresOK' /\ RequestOK(request')
  BY <1>1, <1>2, <1>7 DEF InstallationTypeOK, StoresOK
<1>11. StowedIn(disk', hidden', Root, o.old.version, n.moved)
  <2>1. StowedIn(disk, hidden, Root, o.old.version, o.moved)
    BY <1>2, <1>3 DEF KeepsABundle, OldStowed
  <2> QED
    BY <1>4, <1>5, <1>7, <1>8, <1>9, <2>1 DEF StowedIn, Renames
<1>12. Survives(disk', hidden', manifest')
  BY <1>9, <1>11, StowedSurvives
<1>13. KeepsABundle("quarantine", n, disk', hidden', manifest')
  BY <1>3, <1>8, <1>11 DEF KeepsABundle, SameOp
<1>14. ASSUME ~mishap'
       PROVE  UnderWay("quarantine", n, disk', hidden', manifest', key', task', record', running')
  <2>1. UninstallWhole("quarantine", o, disk, hidden, manifest, key, task, record, running)
    BY <1>1, <1>2, <1>3, <1>14 DEF UnderWay
  <2>2. FilesStowed(disk, hidden, o.old, o.moved) /\ Owned(o.old) \subseteq o.moved \cup o.todo
    BY <2>1 DEF UninstallWhole
  <2>3. e \notin o.moved
    <3>1. e \in Owned(o.old)
      BY <1>2, <1>3 DEF OpOK, Todo
    <3>2. ASSUME NEW d, NEW v, e \in Entries(d, v), HasOrStowed(disk, hidden, d, v, o.moved)
          PROVE  e \notin o.moved
      <4>1. d = e[1] /\ e[2] \in FilesOf[v]
        BY <3>2 DEF Entries
      <4> QED
        BY <1>4, <1>5, <3>2, <4>1 DEF HasOrStowed
    <3>3. CASE e \in Entries(Root, o.old.version)
      BY <2>2, <3>2, <3>3 DEF FilesStowed
    <3>4. CASE \E b \in o.old.backups : e \in Entries(b.place, b.version)
      BY <2>2, <3>2, <3>4 DEF FilesStowed
    <3> QED
      BY <3>1, <3>3, <3>4 DEF Owned
  <2>4. HasOrStowed(disk', hidden', Root, o.old.version, n.moved)
    BY <1>4, <1>7, <1>8, <1>9, <2>2, <2>3, StowOne DEF FilesStowed
  <2>5. \A b \in o.old.backups : HasOrStowed(disk', hidden', b.place, b.version, n.moved)
    BY <1>4, <1>7, <1>8, <1>9, <2>2, <2>3, StowOne, BackupTypes DEF FilesStowed
  <2>6. OthersVacant(disk', o.old, {})
    BY <1>7, <2>2 DEF FilesStowed, OthersVacant, Vacant, Place, Renames
  <2>7. FilesStowed(disk', hidden', n.old, n.moved)
    BY <1>8, <2>4, <2>5, <2>6 DEF FilesStowed, SameOp
  <2>8. UninstallService("quarantine", n, task, record, running)
    BY <1>8, <2>1 DEF UninstallWhole, UninstallService, SameOp
  <2>9. UninstallWhole("quarantine", n, disk', hidden', manifest, key, task, record, running)
    BY <1>8, <2>1, <2>2, <2>7, <2>8 DEF UninstallWhole, SameOp
  <2> QED
    BY <1>1, <1>3, <1>8, <2>9 DEF UnderWay, SameOp
<1> QED
  BY <1>2, <1>8, <1>10, <1>12, <1>13, <1>14, Concludes

LEMMA UnquarantineFileOK ==
    ASSUME InstallationInv, NEW p \in Process, UnquarantineFile(p)
    PROVE  InstallationInv'
<1> DEFINE o == op[p]
           n == op'[p]
<1>1. step[p] = "unquarantine"
      /\ UNCHANGED <<manifest, key, task, record, running, request, mishap>>
  BY DEF UnquarantineFile, WorksOn, service
<1>2. InstallationTypeOK /\ OpOK("unquarantine", o)
      /\ KeepsABundle("unquarantine", o, disk, hidden, manifest)
      /\ (~mishap => UnderWay("unquarantine", o, disk, hidden, manifest, key, task, record, running))
  BY <1>1, Sees
<1>3. o.kind = "uninstall"
  BY <1>2, OpFacts DEF OpOK, StepsOf, InstallStep, UpgradeStep
<1>4. PICK e \in o.todo : /\ disk' = Put(disk, e, hidden[e[1]][e[2]])
                          /\ hidden' = Put(hidden, e, NoVersion)
                          /\ Did(p, e)
  BY DEF UnquarantineFile, Put
<1>5. e \in Place \X File /\ e[1] \in Place /\ e[2] \in File /\ e = <<e[1], e[2]>>
      /\ e \in Owned(o.old)
  <2>1. e \in Place \X File
    BY <1>2 DEF OpOK, OpType
  <2>2. o.todo \subseteq o.moved /\ o.moved \subseteq Owned(o.old)
    BY <1>2, <1>3 DEF OpOK, Todo
  <2> QED
    BY <2>1, <2>2, EntryType
<1>6. disk \in DiskType /\ hidden \in DiskType
  BY <1>2 DEF InstallationTypeOK
<1>7. disk' \in DiskType /\ hidden' \in DiskType /\ Renames(hidden, disk, hidden', disk', e)
  BY <1>4, <1>5, <1>6, RenamePut
<1>8. MovesTo(p, "unquarantine", n) /\ SameOp(o, n) /\ n.todo = o.todo \ {e} /\ n.made = o.made
      /\ n.moved = o.moved
  BY <1>1, <1>2, <1>4, DidMoves
<1>9. o.old \in InstallManifest /\ o.old.version \in Version /\ FilesOf[o.old.version] \subseteq File
      /\ Root \in Place
  BY <1>2, <1>3, OpFacts, BackupTypes
<1>10. StoresOK' /\ RequestOK(request')
  BY <1>1, <1>2, <1>7 DEF InstallationTypeOK, StoresOK
<1>11. StowedIn(disk', hidden', Root, o.old.version, n.todo)
  <2>1. StowedIn(disk, hidden, Root, o.old.version, o.todo)
    BY <1>2, <1>3 DEF KeepsABundle
  <2>2. StowedIn(disk', hidden', Root, o.old.version, o.todo \ {e})
    BY <1>7, <1>9, <2>1, UnstowOne
  <2> QED
    BY <1>8, <2>2
<1>12. Survives(disk', hidden', manifest')
  BY <1>9, <1>11, StowedSurvives
<1>13. KeepsABundle("unquarantine", n, disk', hidden', manifest')
  BY <1>3, <1>8, <1>11 DEF KeepsABundle, SameOp, OldStowed
<1>14. ASSUME ~mishap'
       PROVE  UnderWay("unquarantine", n, disk', hidden', manifest', key', task', record', running')
  <2>1. UninstallWhole("unquarantine", o, disk, hidden, manifest, key, task, record, running)
    BY <1>1, <1>2, <1>3, <1>14 DEF UnderWay
  <2>2. FilesStowed(disk, hidden, o.old, o.todo)
    BY <2>1 DEF UninstallWhole
  <2>3. \A f \in File : e = <<Root, f>> => f \in FilesOf[o.old.version]
    BY <1>5, <1>9, BackupTypes DEF Owned, Entries
  <2>4. ASSUME NEW b \in o.old.backups, NEW f \in File, e = <<b.place, f>>
        PROVE  f \in FilesOf[b.version]
    <3>1. PICK c \in o.old.backups : e \in Entries(c.place, c.version)
      BY <1>5, <1>9, <2>4, BackupTypes DEF Owned, Entries
    <3>2. c.place = b.place /\ f \in FilesOf[c.version]
      BY <2>4, <3>1 DEF Entries
    <3>3. c.version \in Version /\ b.version \in Version /\ Executable \in FilesOf[c.version]
          /\ Executable \in FilesOf[b.version] /\ Executable \in File
      BY <1>9, BackupTypes, InstallationAssumption
    <3>4. HasOrStowed(disk, hidden, b.place, b.version, o.todo)
          /\ HasOrStowed(disk, hidden, b.place, c.version, o.todo)
      BY <2>2, <3>2 DEF FilesStowed
    <3>5. c.version = b.version
      <4>1. CASE <<b.place, Executable>> \in o.todo
        BY <3>3, <3>4, <4>1 DEF HasOrStowed
      <4>2. CASE <<b.place, Executable>> \notin o.todo
        <5>1. disk[b.place][Executable] = b.version
          BY <3>3, <3>4, <4>2 DEF HasOrStowed
        <5>2. disk[b.place][Executable] = c.version
          BY <3>3, <3>4, <4>2 DEF HasOrStowed
        <5> QED
          BY <5>1, <5>2
      <4> QED
        BY <4>1, <4>2
    <3> QED
      BY <3>2, <3>5
  <2>5. HasOrStowed(disk', hidden', Root, o.old.version, n.todo)
    BY <1>7, <1>8, <1>9, <2>2, <2>3, UnstowOne DEF FilesStowed
  <2>6. \A b \in o.old.backups : HasOrStowed(disk', hidden', b.place, b.version, n.todo)
    BY <1>7, <1>8, <1>9, <2>2, <2>4, UnstowOne, BackupTypes DEF FilesStowed
  <2>7. OthersVacant(disk', o.old, {})
    <3>1. ASSUME NEW d \in Transaction \ PlacesOf(o.old)
          PROVE  e[1] # d
      BY <1>5, <1>9, InstallationAssumption DEF Owned, Entries, PlacesOf
    <3>2. \A d \in Transaction \ PlacesOf(o.old), f \in File : disk'[d][f] = disk[d][f]
      BY <1>5, <1>7, <3>1 DEF Renames, Place
    <3> QED
      BY <2>2, <3>2 DEF FilesStowed, OthersVacant, Vacant
  <2>8. FilesStowed(disk', hidden', n.old, n.todo)
    BY <1>8, <2>5, <2>6, <2>7 DEF FilesStowed, SameOp
  <2>9. UninstallService("unquarantine", n, task, record, running)
    BY <1>8, <2>1 DEF UninstallWhole, UninstallService, SameOp
  <2>10. UninstallWhole("unquarantine", n, disk', hidden', manifest, key, task, record, running)
    BY <1>8, <2>1, <2>8, <2>9 DEF UninstallWhole, SameOp
  <2> QED
    BY <1>1, <1>3, <1>8, <2>10 DEF UnderWay, SameOp
<1> QED
  BY <1>2, <1>8, <1>10, <1>12, <1>13, <1>14, Concludes

LEMMA PurgeFileOK ==
    ASSUME InstallationInv, NEW p \in Process, PurgeFile(p)
    PROVE  InstallationInv'
<1> DEFINE o == op[p]
           n == op'[p]
<1>1. step[p] = "purge"
      /\ UNCHANGED <<disk, manifest, key, task, record, running, request, mishap>>
  BY DEF PurgeFile, WorksOn, service
<1>2. InstallationTypeOK /\ OpOK("purge", o) /\ KeepsABundle("purge", o, disk, hidden, manifest)
      /\ (~mishap => UnderWay("purge", o, disk, hidden, manifest, key, task, record, running))
  BY <1>1, Sees
<1>3. o.kind = "uninstall"
  BY <1>2, OpFacts DEF OpOK, StepsOf, InstallStep, UpgradeStep
<1>4. PICK e \in o.todo : hidden' = Put(hidden, e, NoVersion) /\ Did(p, e)
  BY DEF PurgeFile, Put
<1>5. Wrote(hidden, hidden', e, NoVersion)
  <2>1. e \in Place \X File /\ hidden \in DiskType /\ NoVersion \in AnyVersion
    BY <1>2 DEF OpOK, OpType, InstallationTypeOK, AnyVersion
  <2> QED
    BY <1>4, <2>1, EntryPut
<1>6. StoresOK' /\ RequestOK(request')
  BY <1>1, <1>2, <1>5 DEF InstallationTypeOK, StoresOK, Wrote
<1>7. MovesTo(p, "purge", n) /\ SameOp(o, n) /\ n.todo = o.todo \ {e} /\ n.made = o.made
      /\ n.moved = o.moved
  BY <1>1, <1>2, <1>4, DidMoves
<1>8. manifest = NotInstalled
  BY <1>2, <1>3 DEF KeepsABundle
<1>9. Survives(disk', hidden', manifest') /\ KeepsABundle("purge", n, disk', hidden', manifest')
  BY <1>1, <1>3, <1>7, <1>8 DEF Survives, KeepsABundle, SameOp, OldStowed
<1>10. ASSUME ~mishap'
       PROVE  UnderWay("purge", n, disk', hidden', manifest', key', task', record', running')
  <2>1. UninstallWhole("purge", o, disk, hidden, manifest, key, task, record, running)
    BY <1>1, <1>2, <1>3, <1>10 DEF UnderWay
  <2>2. UninstallService("purge", n, task, record, running)
    BY <1>7, <2>1 DEF UninstallWhole, UninstallService, SameOp
  <2>3. UninstallWhole("purge", n, disk, hidden', manifest, key, task, record, running)
    BY <1>7, <2>1, <2>2 DEF UninstallWhole, SameOp
  <2> QED
    BY <1>1, <1>3, <1>7, <2>3 DEF UnderWay, SameOp
<1> QED
  BY <1>2, <1>6, <1>7, <1>9, <1>10, Concludes

(* Key and manifest.                                                       *)
LEMMA CreateInstallKeyOK ==
    ASSUME InstallationInv, NEW p \in Process, CreateInstallKey(p)
    PROVE  InstallationInv'
<1> DEFINE o == op[p]
           n == op'[p]
<1>1. step[p] = "key" /\ o.kind = "install" /\ key' = TRUE /\ Made(p, "copy")
      /\ UNCHANGED <<disk, hidden, manifest, task, record, running, request, mishap>>
  BY DEF CreateInstallKey, service
<1>2. InstallationTypeOK /\ OpOK("key", o) /\ KeepsABundle("key", o, disk, hidden, manifest)
      /\ Survives(disk, hidden, manifest)
      /\ (~mishap => UnderWay("key", o, disk, hidden, manifest, key, task, record, running))
  BY <1>1, Sees
<1>3. MovesTo(p, "copy", n) /\ SameOp(o, n) /\ n.made = TRUE
  BY <1>1, <1>2, MadeMoves DEF StepsOf, InstallStep
<1>4. StoresOK' /\ RequestOK(request')
  BY <1>1, <1>2 DEF InstallationTypeOK, StoresOK
<1>5. KeepsABundle("copy", n, disk, hidden, manifest)
  BY <1>1, <1>2, <1>3 DEF KeepsABundle, SameOp
<1>6. ASSUME ~mishap'
      PROVE  UnderWay("copy", n, disk', hidden', manifest', key', task', record', running')
  <2>1. InstallWhole("key", o, disk, manifest, key, task, record, running)
    BY <1>1, <1>2, <1>6 DEF UnderWay
  <2>2. InstallWhole("copy", n, disk, manifest, TRUE, task, record, running)
    BY <1>3, <2>1 DEF InstallWhole, SameOp
  <2> QED
    BY <1>1, <1>3, <2>2 DEF UnderWay, SameOp
<1> QED
  BY <1>1, <1>2, <1>3, <1>4, <1>5, <1>6, Concludes

LEMMA QuarantineKeyOK ==
    ASSUME InstallationInv, NEW p \in Process, QuarantineKey(p)
    PROVE  InstallationInv'
<1> DEFINE o == op[p]
           n == op'[p]
<1>1. step[p] = "key" /\ o.kind = "uninstall" /\ key' = FALSE /\ Made(p, "commit")
      /\ UNCHANGED <<disk, hidden, manifest, task, record, running, request, mishap>>
  BY DEF QuarantineKey, service
<1>2. InstallationTypeOK /\ OpOK("key", o) /\ KeepsABundle("key", o, disk, hidden, manifest)
      /\ Survives(disk, hidden, manifest)
      /\ (~mishap => UnderWay("key", o, disk, hidden, manifest, key, task, record, running))
  BY <1>1, Sees
<1>3. MovesTo(p, "commit", n) /\ SameOp(o, n) /\ n.made = TRUE /\ n.moved = o.moved
  BY <1>1, <1>2, MadeMoves DEF StepsOf, UninstallStep
<1>4. StoresOK' /\ RequestOK(request')
  BY <1>1, <1>2 DEF InstallationTypeOK, StoresOK
<1>5. KeepsABundle("commit", n, disk, hidden, manifest)
  BY <1>1, <1>2, <1>3 DEF KeepsABundle, SameOp, OldStowed
<1>6. ASSUME ~mishap'
      PROVE  UnderWay("commit", n, disk', hidden', manifest', key', task', record', running')
  <2>1. UninstallWhole("key", o, disk, hidden, manifest, key, task, record, running)
    BY <1>1, <1>2, <1>6 DEF UnderWay
  <2>2. UninstallService("commit", n, task, record, running)
    BY <1>3, <2>1 DEF UninstallWhole, UninstallService
  <2>3. UninstallWhole("commit", n, disk, hidden, manifest, FALSE, task, record, running)
    BY <1>3, <2>1, <2>2 DEF UninstallWhole, SameOp
  <2> QED
    BY <1>1, <1>3, <2>3 DEF UnderWay, SameOp
<1> QED
  BY <1>1, <1>2, <1>3, <1>4, <1>5, <1>6, Concludes

LEMMA NothingLeft ==
    ASSUME NEW s, NEW o, NEW dk, NEW mf, NEW ky, NEW tk, NEW rc, NEW rn,
           InstallWhole("clean_key", o, dk, mf, ky, tk, rc, rn)
    PROVE  AtRest(dk, mf, FALSE, tk, rc, rn)
BY DEF InstallWhole, AtRest, NothingThere, AllVacant, Place

LEMMA UndoKeyOK ==
    ASSUME InstallationInv, NEW p \in Process, UndoKey(p)
    PROVE  InstallationInv'
<1> DEFINE o == op[p]
           n == op'[p]
           r == step[p]
           s == IF step[p] = "unkey" THEN "unquarantine" ELSE "idle"
<1>1. /\ r \in {"unkey", "clean_key"} /\ GoTo(p, s)
      /\ key' = IF r = "unkey" THEN key \/ o.made ELSE key /\ ~o.made
      /\ UNCHANGED <<disk, hidden, manifest, task, record, running, request, mishap>>
  BY DEF UndoKey, service
<1>2. InstallationTypeOK /\ OpOK(r, o) /\ KeepsABundle(r, o, disk, hidden, manifest)
      /\ Survives(disk, hidden, manifest)
      /\ (~mishap => UnderWay(r, o, disk, hidden, manifest, key, task, record, running))
  BY <1>1, Sees
<1>3. o.made \in BOOLEAN /\ key \in BOOLEAN
  BY <1>2, OpFacts DEF InstallationTypeOK
<1>4. StoresOK' /\ RequestOK(request')
  BY <1>1, <1>2, <1>3 DEF InstallationTypeOK, StoresOK
<1>5. CASE r = "unkey"
  <2>1. o.kind = "uninstall" /\ s = "unquarantine"
    BY <1>2, <1>5, OpFacts DEF OpOK, StepsOf, InstallStep, UpgradeStep
  <2>2. MovesTo(p, "unquarantine", n) /\ SameOp(o, n) /\ n.made = o.made /\ n.moved = o.moved
        /\ n.todo = Todo("unquarantine", o)
    BY <1>1, <1>2, <2>1, GoToMoves DEF StepsOf, UninstallStep
  <2>3. n.todo = o.moved
    BY <2>2 DEF Todo
  <2>4. KeepsABundle("unquarantine", n, disk, hidden, manifest)
    BY <1>2, <1>5, <2>1, <2>2, <2>3 DEF KeepsABundle, SameOp, OldStowed
  <2>5. ASSUME ~mishap'
        PROVE  UnderWay("unquarantine", n, disk', hidden', manifest', key', task', record', running')
    <3>1. UninstallWhole(r, o, disk, hidden, manifest, key, task, record, running)
      BY <1>1, <1>2, <2>1, <2>5 DEF UnderWay
    <3>2. key' = TRUE
      BY <1>1, <1>3, <1>5, <3>1 DEF UninstallWhole
    <3>3. UninstallService("unquarantine", n, task, record, running)
      BY <1>5, <2>2, <3>1 DEF UninstallWhole, UninstallService
    <3>4. UninstallWhole("unquarantine", n, disk, hidden, manifest, TRUE, task, record, running)
      BY <1>5, <2>2, <2>3, <3>1, <3>3 DEF UninstallWhole, SameOp
    <3> QED
      BY <1>1, <2>1, <2>2, <3>2, <3>4 DEF UnderWay, SameOp
  <2> QED
    BY <1>1, <1>2, <1>4, <2>2, <2>4, <2>5, Concludes
<1>6. CASE r = "clean_key"
  <2>1. o.kind = "install" /\ s = "idle"
    BY <1>2, <1>6, OpFacts DEF OpOK, StepsOf, UninstallStep, UpgradeStep
  <2>2. MovesTo(p, "idle", n)
    BY <1>1, <1>2, <2>1, GoToMoves
  <2>3. ASSUME ~mishap'
        PROVE  AtRest(disk', manifest', key', task', record', running')
    <3>1. InstallWhole("clean_key", o, disk, manifest, key, task, record, running)
      BY <1>1, <1>2, <1>6, <2>1, <2>3 DEF UnderWay
    <3>2. key = o.made
      BY <3>1 DEF InstallWhole
    <3>3. key' = FALSE
      BY <1>1, <1>3, <1>6, <3>2
    <3> QED
      BY <1>1, <3>1, <3>3, NothingLeft
  <2> QED
    BY <1>1, <1>2, <1>4, <2>2, <2>3, Concludes
<1> QED
  BY <1>1, <1>5, <1>6

LEMMA RestoreManifestOK ==
    ASSUME InstallationInv, NEW p \in Process, RestoreManifest(p)
    PROVE  InstallationInv'
<1> DEFINE o == op[p]
           n == op'[p]
           r == step[p]
           s == IF step[p] = "back_manifest" THEN "back_drop" ELSE RestartOr(op[p], "idle")
<1>1. /\ r \in {"undo_manifest", "back_manifest"} /\ GoTo(p, s) /\ manifest' = o.old
      /\ UNCHANGED <<disk, hidden, key, task, record, running, request, mishap>>
  BY DEF RestoreManifest, service
<1>2. InstallationTypeOK /\ OpOK(r, o) /\ KeepsABundle(r, o, disk, hidden, manifest)
      /\ (~mishap => UnderWay(r, o, disk, hidden, manifest, key, task, record, running))
  BY <1>1, Sees
<1>3. o.kind = "upgrade"
  BY <1>1, <1>2, OpFacts DEF OpOK, StepsOf, InstallStep, UninstallStep
<1>4. o.old \in InstallManifest /\ o.old.version \in Version /\ Root \in Place
      /\ o.service \in BOOLEAN /\ o.old # NotInstalled
  BY <1>2, <1>3, OpFacts, ManifestIsThere
<1>5. \/ r = "back_manifest" /\ s = "back_drop"
      \/ r = "undo_manifest" /\ o.service = TRUE /\ s = "restart"
      \/ r = "undo_manifest" /\ o.service = FALSE /\ s = "idle"
  BY <1>1, <1>4 DEF RestartOr
<1>6. s = "idle" \/ s \in StepsOf(o.kind)
  BY <1>3, <1>5 DEF StepsOf, UpgradeStep
<1>7. MovesTo(p, s, n) /\ (s # "idle" => SameOp(o, n) /\ n.made = o.made /\ n.moved = o.moved)
  BY <1>1, <1>2, <1>6, GoToMoves
<1> HIDE DEF s
<1>8. StoresOK' /\ RequestOK(request')
  BY <1>1, <1>2, <1>4 DEF InstallationTypeOK, StoresOK
<1>9. IntactIn(disk, Root, o.old.version)
  BY <1>1, <1>2, <1>3 DEF KeepsABundle, OldInRoot
<1>10. Survives(disk', hidden', manifest')
  BY <1>1, <1>4, <1>9, IntactSurvives
<1>11. s # "idle" => KeepsABundle(s, n, disk', hidden', manifest')
  BY <1>1, <1>3, <1>5, <1>7, <1>9 DEF KeepsABundle, SameOp, OldInBackup
<1>12. ASSUME ~mishap'
       PROVE  IF s = "idle" THEN AtRest(disk', manifest', key', task', record', running')
              ELSE UnderWay(s, n, disk', hidden', manifest', key', task', record', running')
  <2>1. UpgradeWhole(r, o, disk, manifest, key, task, record, running)
    BY <1>1, <1>2, <1>3, <1>12 DEF UnderWay
  <2>2. CASE s = "idle"
    <3>1. /\ HasIn(disk, Root, o.old.version) /\ Vacant(disk, o.place) /\ BackupsIn(disk, o.old)
          /\ OthersVacant(disk, o.old, {o.place}) /\ key = TRUE
          /\ task = ServiceOf(o.old) /\ record = ServiceOf(o.old) /\ running = NoVersion
      BY <1>5, <2>1, <2>2 DEF UpgradeWhole, UpgradeFiles, UpgradeService, OldInRoot
    <3>2. FilesWhole(disk, o.old)
      BY <3>1, RollbackIsWhole
    <3> QED
      BY <1>1, <1>4, <2>2, <3>1, <3>2 DEF AtRest, WholeFiles
  <2>3. CASE s # "idle"
    <3>1. SameOp(o, n)
      BY <1>7, <2>3
    <3>2. UpgradeFiles(s, n, disk)
      BY <1>5, <2>1, <2>3, <3>1 DEF UpgradeWhole, UpgradeFiles, SameOp, OldInBackup, OldInRoot
    <3>3. UpgradeService(s, n, task, record, running)
      BY <1>5, <2>1, <2>3, <3>1 DEF UpgradeWhole, UpgradeService, SameOp
    <3>4. UpgradeWhole(s, n, disk, o.old, key, task, record, running)
      BY <1>5, <2>1, <2>3, <3>1, <3>2, <3>3 DEF UpgradeWhole, SameOp
    <3> QED
      BY <1>1, <1>3, <2>3, <3>1, <3>4 DEF UnderWay, SameOp
  <2> QED
    BY <2>2, <2>3
<1> QED
  BY <1>2, <1>7, <1>8, <1>10, <1>11, <1>12, Concludes

LEMMA FirstManifest ==
    ASSUME NEW v \in Version, NEW managed \in BOOLEAN,
           NEW m, m = [version |-> v, service |-> managed, backups |-> {}]
    PROVE  /\ m \in InstallManifest /\ m # NotInstalled
           /\ m.version = v /\ m.service = managed /\ m.backups = {}
<1>1. m \in InstallManifest /\ m.version = v /\ m.service = managed /\ m.backups = {}
  BY DEF InstallManifest
<1> QED
  BY <1>1, ManifestIsThere

LEMMA WriteManifestOK ==
    ASSUME InstallationInv, NEW p \in Process, WriteManifest(p)
    PROVE  InstallationInv'
<1> DEFINE o == op[p]
           n == op'[p]
           r == step[p]
           s == IF op[p].service THEN "plan" ELSE "idle"
<1>1. /\ r \in {"manifest", "commit"} /\ o.kind # "uninstall" /\ GoTo(p, s)
      /\ UNCHANGED <<disk, hidden, key, task, record, running, request, mishap>>
  BY DEF WriteManifest, service
<1>2. InstallationTypeOK /\ OpOK(r, o) /\ KeepsABundle(r, o, disk, hidden, manifest)
      /\ (~mishap => UnderWay(r, o, disk, hidden, manifest, key, task, record, running))
  BY <1>1, Sees
<1>3. o.service \in BOOLEAN /\ Root \in Place /\ o.new \in Version
  BY <1>1, <1>2, OpFacts
<1>4. (o.service = TRUE /\ s = "plan") \/ (o.service = FALSE /\ s = "idle")
  BY <1>3
<1>5. s = "idle" \/ s \in StepsOf(o.kind)
  BY <1>4 DEF StepsOf, InstallStep, UpgradeStep, UninstallStep
<1>6. MovesTo(p, s, n) /\ (s # "idle" => SameOp(o, n) /\ n.made = o.made /\ n.moved = o.moved)
  BY <1>1, <1>2, <1>5, GoToMoves
<1> HIDE DEF s
<1>7. CASE o.kind = "install"
  <2>1. r = "manifest" /\ manifest' = [version |-> o.new, service |-> o.service, backups |-> {}]
    BY <1>1, <1>2, <1>7 DEF OpOK, StepsOf, InstallStep, WriteManifest
  <2>2. /\ manifest' \in InstallManifest /\ manifest' # NotInstalled
        /\ manifest'.version = o.new /\ manifest'.service = o.service /\ manifest'.backups = {}
    BY <1>3, <2>1, FirstManifest
  <2>3. StoresOK' /\ RequestOK(request')
    BY <1>1, <1>2, <2>2 DEF InstallationTypeOK, StoresOK
  <2>4. IntactIn(disk, Root, o.new)
    BY <1>2, <1>7, <2>1 DEF KeepsABundle
  <2>5. Survives(disk', hidden', manifest')
    BY <1>1, <1>3, <2>4, IntactSurvives
  <2>6. s # "idle" => KeepsABundle(s, n, disk', hidden', manifest')
    BY <1>4, <1>6, <1>7 DEF KeepsABundle, SameOp
  <2>7. ASSUME ~mishap'
        PROVE  IF s = "idle" THEN AtRest(disk', manifest', key', task', record', running')
               ELSE UnderWay(s, n, disk', hidden', manifest', key', task', record', running')
    <3>1. InstallWhole("manifest", o, disk, manifest, key, task, record, running)
      BY <1>1, <1>2, <1>7, <2>1, <2>7 DEF UnderWay
    <3>2. CASE s = "idle"
      <4>1. /\ \A d \in Transaction : Vacant(disk, d)
            /\ Outside(disk, FilesOf[o.new])
            /\ key = TRUE /\ Unserved(task, record, running)
        BY <3>1 DEF InstallWhole
      <4>2. FilesWhole(disk, manifest')
        BY <1>3, <2>2, <2>4, <4>1, InstallIsWhole
      <4>3. ServiceOf(manifest') = NoVersion
        BY <1>4, <2>2, <3>2 DEF ServiceOf
      <4> QED
        BY <1>1, <2>2, <3>2, <4>1, <4>2, <4>3 DEF AtRest, WholeFiles, Unserved
    <3>3. CASE s # "idle"
      <4>1. s = "plan" /\ SameOp(o, n) /\ n.made = o.made /\ o.service = TRUE
        BY <1>4, <1>6, <3>3
      <4>2. InstallWhole(s, n, disk, manifest', key, task, record, running)
        BY <2>1, <3>1, <4>1 DEF InstallWhole, SameOp
      <4> QED
        BY <1>1, <1>7, <3>3, <4>1, <4>2 DEF UnderWay, SameOp
    <3> QED
      BY <3>2, <3>3
  <2> QED
    BY <1>2, <1>6, <2>3, <2>5, <2>6, <2>7, Concludes
<1>8. CASE o.kind = "upgrade"
  <2>1. r = "commit" /\ manifest' = NewManifest(o)
    BY <1>1, <1>2, <1>8 DEF OpOK, StepsOf, UpgradeStep, WriteManifest, NewManifest
  <2>2. /\ manifest' \in InstallManifest /\ manifest' # NotInstalled
        /\ manifest'.version = o.new /\ manifest'.service = o.service
    BY <1>2, <1>8, <2>1, NewManifestFacts
  <2>3. StoresOK' /\ RequestOK(request')
    BY <1>1, <1>2, <2>2 DEF InstallationTypeOK, StoresOK
  <2>4. IntactIn(disk, o.place, o.old.version) /\ o.place \in Place /\ o.old.version \in Version
    BY <1>2, <1>8, <2>1, OpFacts DEF KeepsABundle, OldInBackup
  <2>5. Survives(disk', hidden', manifest')
    BY <1>1, <2>4, IntactSurvives
  <2>6. s # "idle" => KeepsABundle(s, n, disk', hidden', manifest')
    BY <1>1, <1>4, <1>6, <1>8, <2>4 DEF KeepsABundle, SameOp, OldInRoot
  <2>7. ASSUME ~mishap'
        PROVE  IF s = "idle" THEN AtRest(disk', manifest', key', task', record', running')
               ELSE UnderWay(s, n, disk', hidden', manifest', key', task', record', running')
    <3>1. UpgradeWhole("commit", o, disk, manifest, key, task, record, running)
      BY <1>1, <1>2, <1>8, <2>1, <2>7 DEF UnderWay
    <3>2. CASE s = "idle"
      <4>1. /\ HasIn(disk, Root, o.new) /\ HasIn(disk, o.place, o.old.version)
            /\ BackupsIn(disk, o.old) /\ OthersVacant(disk, o.old, {o.place}) /\ key = TRUE
            /\ o.service = o.old.service /\ task = ServiceOf(o.old) /\ record = ServiceOf(o.old)
            /\ running = NoVersion
        BY <3>1 DEF UpgradeWhole, UpgradeFiles, UpgradeService, OldInBackup
      <4>2. FilesWhole(disk, manifest')
        BY <1>2, <1>8, <2>1, <4>1, UpgradeIsWhole
      <4>3. ServiceOf(manifest') = NoVersion /\ ServiceOf(o.old) = NoVersion
        BY <1>4, <2>2, <3>2, <4>1 DEF ServiceOf
      <4> QED
        BY <1>1, <2>2, <3>2, <4>1, <4>2, <4>3 DEF AtRest, WholeFiles
    <3>3. CASE s # "idle"
      <4>1. s = "plan" /\ SameOp(o, n) /\ o.service = TRUE
        BY <1>4, <1>6, <3>3
      <4>2. UpgradeFiles(s, n, disk)
        BY <3>1, <4>1 DEF UpgradeWhole, UpgradeFiles, SameOp, OldInBackup, OldInRoot
      <4>3. UpgradeService(s, n, task, record, running)
        BY <3>1, <4>1 DEF UpgradeWhole, UpgradeService, SameOp
      <4>4. UpgradeWhole(s, n, disk, manifest', key, task, record, running)
        BY <2>1, <3>1, <4>1, <4>2, <4>3 DEF UpgradeWhole, SameOp, NewManifest
      <4> QED
        BY <1>1, <1>8, <3>3, <4>1, <4>4 DEF UnderWay, SameOp
    <3> QED
      BY <3>2, <3>3
  <2> QED
    BY <1>2, <1>6, <2>3, <2>5, <2>6, <2>7, Concludes
<1> QED
  BY <1>1, <1>2, <1>7, <1>8, OpFacts

(* Everything is renamed before the manifest goes.                         *)
LEMMA StowedAll ==
    ASSUME NEW dk, NEW hd, NEW m \in InstallManifest, NEW moved,
           FilesStowed(dk, hd, m, moved), Owned(m) \subseteq moved
    PROVE  AllVacant(dk)
<1>1. ASSUME NEW d, NEW v, HasOrStowed(dk, hd, d, v, moved), Entries(d, v) \subseteq moved
      PROVE  Vacant(dk, d)
  BY <1>1 DEF HasOrStowed, Entries, Vacant
<1>2. Entries(Root, m.version) \subseteq moved /\ \A b \in m.backups : Entries(b.place, b.version) \subseteq moved
  BY DEF Owned
<1>3. Vacant(dk, Root) /\ \A b \in m.backups : Vacant(dk, b.place)
  BY <1>1, <1>2 DEF FilesStowed
<1>4. \A c \in Transaction : Vacant(dk, c)
  BY <1>3 DEF FilesStowed, OthersVacant, PlacesOf
<1> QED
  BY <1>3, <1>4 DEF AllVacant, Place

LEMMA RemoveManifestOK ==
    ASSUME InstallationInv, NEW p \in Process, RemoveManifest(p)
    PROVE  InstallationInv'
<1> DEFINE o == op[p]
           n == op'[p]
           r == step[p]
           s == IF step[p] = "commit" THEN "purge" ELSE "clean"
<1>1. /\ (r = "commit" /\ o.kind = "uninstall") \/ r = "clean_manifest"
      /\ GoTo(p, s) /\ manifest' = NotInstalled
      /\ UNCHANGED <<disk, hidden, key, task, record, running, request, mishap>>
  BY DEF RemoveManifest, service
<1>2. InstallationTypeOK /\ OpOK(r, o)
      /\ (~mishap => UnderWay(r, o, disk, hidden, manifest, key, task, record, running))
  BY <1>1, Sees
<1>3. \/ r = "commit" /\ o.kind = "uninstall" /\ s = "purge"
      \/ r = "clean_manifest" /\ o.kind = "install" /\ s = "clean"
  BY <1>1, <1>2, OpFacts DEF OpOK, StepsOf, UpgradeStep, UninstallStep
<1>4. s # "idle" /\ s \in StepsOf(o.kind)
  BY <1>3 DEF StepsOf, InstallStep, UninstallStep
<1>5. MovesTo(p, s, n) /\ SameOp(o, n) /\ n.made = o.made /\ n.moved = o.moved /\ n.todo = Todo(s, o)
  BY <1>1, <1>2, <1>4, GoToMoves
<1> HIDE DEF s
<1>6. StoresOK' /\ RequestOK(request')
  BY <1>1, <1>2 DEF InstallationTypeOK, StoresOK
<1>7. Survives(disk', hidden', manifest') /\ KeepsABundle(s, n, disk', hidden', manifest')
  BY <1>1, <1>3, <1>5 DEF Survives, KeepsABundle, SameOp, OldStowed
<1>8. ASSUME ~mishap'
      PROVE  UnderWay(s, n, disk', hidden', manifest', key', task', record', running')
  <2>1. CASE o.kind = "uninstall"
    <3>1. UninstallWhole("commit", o, disk, hidden, manifest, key, task, record, running) /\ s = "purge"
      BY <1>1, <1>2, <1>3, <1>8, <2>1 DEF UnderWay
    <3>2. o.old \in InstallManifest
      BY <1>2, <2>1, OpFacts
    <3>3. AllVacant(disk) /\ key = FALSE
      BY <3>1, <3>2, StowedAll DEF UninstallWhole
    <3>4. UninstallService("purge", n, task, record, running)
      BY <3>1 DEF UninstallWhole, UninstallService
    <3>5. UninstallWhole("purge", n, disk, hidden, NotInstalled, key, task, record, running)
      BY <1>5, <3>1, <3>3, <3>4 DEF UninstallWhole, SameOp, NothingThere
    <3> QED
      BY <1>1, <1>5, <2>1, <3>1, <3>5 DEF UnderWay, SameOp
  <2>2. CASE o.kind = "install"
    <3>1. InstallWhole("clean_manifest", o, disk, manifest, key, task, record, running) /\ s = "clean"
      BY <1>1, <1>2, <1>3, <1>8, <2>2 DEF UnderWay
    <3>2. Removed(disk, FilesOf[o.new], n.todo)
      BY <1>5, <3>1 DEF Removed, Todo, Entries
    <3>3. InstallWhole("clean", n, disk, NotInstalled, key, task, record, running)
      BY <1>5, <3>1, <3>2 DEF InstallWhole, SameOp
    <3> QED
      BY <1>1, <1>5, <2>2, <3>1, <3>3 DEF UnderWay, SameOp
  <2> QED
    BY <1>3, <2>1, <2>2
<1> QED
  BY <1>2, <1>4, <1>5, <1>6, <1>7, <1>8, Concludes

-----------------------------------------------------------------------------
(* Commands begin.                                                         *)

LEMMA Begun ==
    ASSUME InstallationInv, NEW p \in Process, step[p] = "idle", NEW s, s # "idle",
           NEW kind, NEW v, NEW old, NEW place, NEW managed,
           Started(p, s, kind, v, old, place, managed),
           UNCHANGED <<disk, hidden, manifest, key, task, record, running, mishap>>,
           RequestOK(request'),
           KeepsABundle(s, op'[p], disk, hidden, manifest),
           ~mishap /\ AtRest(disk, manifest, key, task, record, running) =>
              UnderWay(s, op'[p], disk, hidden, manifest, key, task, record, running)
    PROVE  InstallationInv'
<1>1. InstallationTypeOK /\ Survives(disk, hidden, manifest)
      /\ (~mishap => AtRest(disk, manifest, key, task, record, running))
  BY Sees
<1>2. StoresOK'
  BY <1>1 DEF InstallationTypeOK, StoresOK
<1>3. MovesTo(p, s, op'[p])
  BY DEF Started
<1> QED
  BY <1>1, <1>2, <1>3, Concludes

LEMMA InstallOK ==
    ASSUME InstallationInv, NEW p \in Process, NEW t \in Token, NEW v \in Version,
           NEW managed \in BOOLEAN, Install(p, t, v, managed)
    PROVE  InstallationInv'
<1> DEFINE n == op'[p]
<1>1. /\ manifest = NotInstalled /\ Begin(p, "key", "install", v, NotInstalled, Root, managed)
      /\ UNCHANGED <<disk, hidden, manifest, key, task, record, running, request, mishap>>
  BY DEF Install, bundle, service
<1>2. InstallationTypeOK /\ step[p] = "idle" /\ RequestOK(request')
  BY <1>1, Sees DEF Begin, InstallationTypeOK
<1>3. Started(p, "key", "install", v, NotInstalled, Root, managed)
  <2>1. Root \in Place /\ v \in AnyVersion /\ "key" \in StepsOf("install")
    BY DEF Place, AnyVersion, StepsOf, InstallStep
  <2> QED
    BY <1>1, <1>2, <2>1, BeginMoves
<1>4. n.kind = "install" /\ n.made = FALSE /\ n.new = v
  BY <1>3 DEF Started
<1>5. KeepsABundle("key", n, disk, hidden, manifest)
  BY <1>1, <1>4 DEF KeepsABundle
<1>6. ASSUME AtRest(disk, manifest, key, task, record, running)
      PROVE  UnderWay("key", n, disk, hidden, manifest, key, task, record, running)
  <2>1. NothingThere(disk, manifest, key) /\ Unserved(task, record, running)
    BY <1>1, <1>6 DEF AtRest
  <2>2. Vacant(disk, Root) /\ (\A d \in Transaction : Vacant(disk, d)) /\ key = FALSE
    BY <2>1 DEF NothingThere, AllVacant, Place
  <2>3. Outside(disk, FilesOf[v])
    BY <2>2 DEF Vacant, Outside
  <2>4. InstallWhole("key", n, disk, manifest, key, task, record, running)
    BY <1>1, <1>4, <2>1, <2>2, <2>3 DEF InstallWhole
  <2> QED
    BY <1>4, <2>4 DEF UnderWay
<1> QED
  BY <1>1, <1>2, <1>3, <1>5, <1>6, Begun

(* What upgrade and uninstall find.                                        *)
LEMMA FoundWhole ==
    ASSUME InstallationTypeOK, Loadable, ChecksumsMatch
    PROVE  /\ manifest \in InstallManifest /\ manifest.version \in Version /\ manifest.service \in BOOLEAN
           /\ manifest # NotInstalled /\ IntactIn(disk, Root, manifest.version)
           /\ AtRest(disk, manifest, key, task, record, running) =>
                 /\ key = TRUE /\ FilesWhole(disk, manifest)
                 /\ task = ServiceOf(manifest) /\ record = ServiceOf(manifest)
                 /\ running \in {NoVersion, ServiceOf(manifest)}
<1>1. manifest \in InstallManifest /\ manifest # NotInstalled
  BY DEF Loadable, InstallationTypeOK
<1>2. manifest.version \in Version /\ manifest.service \in BOOLEAN
  BY <1>1 DEF InstallManifest
<1>3. IntactIn(disk, Root, manifest.version)
  BY DEF ChecksumsMatch, Intact, IntactIn
<1>4. AtRest(disk, manifest, key, task, record, running) =>
        /\ WholeFiles(manifest, disk, manifest, key)
        /\ task = ServiceOf(manifest) /\ record = ServiceOf(manifest)
        /\ running \in {NoVersion, ServiceOf(manifest)}
  BY <1>1 DEF AtRest, NothingThere
<1> QED
  BY <1>1, <1>2, <1>3, <1>4 DEF WholeFiles

(* A fresh transaction directory is no backup.                             *)
LEMMA FreshIsFree ==
    ASSUME NEW b, InstallationTypeOK, FreshBackup(b)
    PROVE  /\ b \in Transaction /\ b \in Place /\ Vacant(disk, b)
           /\ \A m \in InstallManifest : BackupsIn(disk, m) => b \notin PlacesOf(m)
<1>1. b \in Transaction /\ disk[b] = NoFiles[b]
  BY DEF FreshBackup
<1>2. b \in Place /\ Vacant(disk, b)
  BY <1>1 DEF Place, NoFiles, Vacant
<1>3. ASSUME NEW m \in InstallManifest, BackupsIn(disk, m), b \in PlacesOf(m)
      PROVE  FALSE
  <2>1. PICK c \in m.backups : c.place = b
    BY <1>3 DEF PlacesOf
  <2>2. c.version \in Version /\ HasIn(disk, b, c.version)
    BY <1>3, <2>1, BackupTypes DEF BackupsIn
  <2>3. disk[b][Executable] = c.version /\ Executable \in File
    BY <1>2, <2>2, HasExecutable, InstallationAssumption
  <2> QED
    BY <1>2, <2>2, <2>3, NoVersionIsNone DEF Vacant
<1> QED
  BY <1>1, <1>2, <1>3

LEMMA UpgradeBegins ==
    ASSUME InstallationInv, NEW p \in Process, NEW v \in Version, NEW b,
           NEW s \in {"stop", "read", "backup"}, s = "stop" <=> manifest.service = TRUE,
           Loadable, ChecksumsMatch, FreshBackup(b), RequestOK(request'),
           Begin(p, s, "upgrade", v, manifest, b, manifest.service),
           UNCHANGED <<disk, hidden, manifest, key, task, record, running, mishap>>
    PROVE  InstallationInv'
<1> DEFINE n == op'[p]
<1>1. InstallationTypeOK /\ step[p] = "idle"
  BY Sees DEF Begin
<1>2. /\ manifest \in InstallManifest /\ manifest.version \in Version /\ manifest.service \in BOOLEAN
      /\ manifest # NotInstalled /\ IntactIn(disk, Root, manifest.version)
  BY <1>1, FoundWhole
<1>3. b \in Transaction /\ b \in Place /\ Vacant(disk, b)
  BY <1>1, FreshIsFree
<1>4. \/ manifest.service = TRUE /\ s = "stop"
      \/ manifest.service = FALSE /\ s \in {"read", "backup"}
  BY <1>2
<1>5. s # "idle" /\ s \in StepsOf("upgrade") /\ v \in AnyVersion
  BY DEF AnyVersion, StepsOf, UpgradeStep
<1>6. Started(p, s, "upgrade", v, manifest, b, manifest.service)
  BY <1>1, <1>2, <1>3, <1>5, BeginMoves
<1>7. n.kind = "upgrade" /\ n.new = v /\ n.old = manifest /\ n.place = b
      /\ n.service = manifest.service /\ n.prior = record
  BY <1>6 DEF Started
<1>8. KeepsABundle(s, n, disk, hidden, manifest)
  BY <1>2, <1>4, <1>7 DEF KeepsABundle, OldInBackup
<1>9. ASSUME AtRest(disk, manifest, key, task, record, running)
      PROVE  UnderWay(s, n, disk, hidden, manifest, key, task, record, running)
  <2>1. /\ key = TRUE /\ FilesWhole(disk, manifest)
        /\ task = ServiceOf(manifest) /\ record = ServiceOf(manifest)
        /\ running \in {NoVersion, ServiceOf(manifest)}
    BY <1>1, <1>9, FoundWhole
  <2>2. BackupsIn(disk, manifest) /\ HasIn(disk, Root, manifest.version)
        /\ OthersVacant(disk, manifest, {b}) /\ b \notin PlacesOf(manifest)
    BY <1>1, <1>2, <2>1, FreshIsFree DEF FilesWhole, OthersVacant
  <2>3. UpgradeFiles(s, n, disk)
    BY <1>3, <1>4, <1>7, <2>2 DEF UpgradeFiles, OldInBackup, OldInRoot, Vacant
  <2>4. UpgradeService(s, n, task, record, running)
    BY <1>4, <1>7, <2>1 DEF UpgradeService, ServiceOf
  <2>5. UpgradeWhole(s, n, disk, manifest, key, task, record, running)
    BY <1>4, <1>7, <2>1, <2>3, <2>4 DEF UpgradeWhole
  <2> QED
    BY <1>7, <2>5 DEF UnderWay
<1> QED
  BY <1>1, <1>5, <1>6, <1>8, <1>9, Begun

LEMMA UninstallBegins ==
    ASSUME InstallationInv, NEW p \in Process,
           Loadable, ChecksumsMatch, RequestOK(request'),
           Begin(p, IF manifest.service THEN "unplan" ELSE "quarantine", "uninstall", NoVersion,
                 manifest, Root, manifest.service),
           UNCHANGED <<disk, hidden, manifest, key, task, record, running, mishap>>
    PROVE  InstallationInv'
<1> DEFINE n == op'[p]
           s == IF manifest.service THEN "unplan" ELSE "quarantine"
<1>1. InstallationTypeOK /\ step[p] = "idle"
  BY Sees DEF Begin
<1>2. /\ manifest \in InstallManifest /\ manifest.version \in Version /\ manifest.service \in BOOLEAN
      /\ manifest # NotInstalled /\ IntactIn(disk, Root, manifest.version)
  BY <1>1, FoundWhole
<1>3. (manifest.service = TRUE /\ s = "unplan") \/ (manifest.service = FALSE /\ s = "quarantine")
  BY <1>2
<1>4. /\ s # "idle" /\ s \in StepsOf("uninstall") /\ NoVersion \in AnyVersion /\ Root \in Place
      /\ Begin(p, s, "uninstall", NoVersion, manifest, Root, manifest.service)
  BY DEF AnyVersion, StepsOf, UninstallStep, Place
<1> HIDE DEF s
<1>5. Started(p, s, "uninstall", NoVersion, manifest, Root, manifest.service)
  BY <1>1, <1>2, <1>4, BeginMoves
<1>6. n.kind = "uninstall" /\ n.old = manifest /\ n.service = manifest.service /\ n.prior = record
      /\ n.made = FALSE /\ n.moved = {} /\ n.todo = Todo(s, n)
  BY <1>5 DEF Started
<1>7. StowedIn(disk, hidden, Root, manifest.version, {})
  BY <1>2 DEF StowedIn, IntactIn
<1>8. KeepsABundle(s, n, disk, hidden, manifest)
  BY <1>2, <1>3, <1>6, <1>7 DEF KeepsABundle
<1>9. ASSUME AtRest(disk, manifest, key, task, record, running)
      PROVE  UnderWay(s, n, disk, hidden, manifest, key, task, record, running)
  <2>1. /\ key = TRUE /\ FilesWhole(disk, manifest)
        /\ task = ServiceOf(manifest) /\ record = ServiceOf(manifest)
        /\ running \in {NoVersion, ServiceOf(manifest)}
    BY <1>1, <1>9, FoundWhole
  <2>2. FilesStowed(disk, hidden, manifest, {}) /\ WholeFiles(manifest, disk, manifest, key)
    BY <2>1, StowedNothing DEF WholeFiles
  <2>3. UninstallService(s, n, task, record, running)
    BY <1>3, <1>6, <2>1 DEF UninstallService, ServiceOf, Unserved
  <2>4. s = "quarantine" => Owned(manifest) \subseteq n.todo
    BY <1>6 DEF Todo
  <2>5. UninstallWhole(s, n, disk, hidden, manifest, key, task, record, running)
    BY <1>3, <1>6, <2>1, <2>2, <2>3, <2>4 DEF UninstallWhole
  <2> QED
    BY <1>6, <2>5 DEF UnderWay
<1> QED
  BY <1>1, <1>4, <1>5, <1>8, <1>9, Begun

LEMMA HelperOK ==
    ASSUME InstallationInv, NEW p \in Process, NEW b, Helper(p, b)
    PROVE  InstallationInv'
<1>1. /\ request # NoOp /\ request' = NoOp /\ Loadable /\ ChecksumsMatch /\ manifest = request.base
      /\ UNCHANGED <<disk, hidden, manifest, key, task, record, running, mishap>>
  BY DEF Helper, bundle, service
<1>2. RequestOK(request) /\ RequestOK(request')
  BY <1>1, Sees DEF InstallationTypeOK, RequestOK
<1>3. CASE request.kind = "upgrade"
  <2>1. FreshBackup(b) /\ Begin(p, "backup", "upgrade", request.new, manifest, b, FALSE)
    BY <1>3 DEF Helper
  <2>2. request.new \in Version /\ manifest.service = FALSE
    BY <1>1, <1>2, <1>3 DEF RequestOK
  <2>3. Begin(p, "backup", "upgrade", request.new, manifest, b, manifest.service)
    BY <2>1, <2>2
  <2>4. "backup" \in {"stop", "read", "backup"} /\ ("backup" = "stop" <=> manifest.service = TRUE)
    BY <2>2
  <2> QED
    BY <1>1, <1>2, <2>1, <2>2, <2>3, <2>4, UpgradeBegins
<1>4. CASE request.kind # "upgrade"
  <2>1. Begin(p, IF manifest.service THEN "unplan" ELSE "quarantine", "uninstall", NoVersion,
              manifest, Root, manifest.service)
    BY <1>4 DEF Helper
  <2> QED
    BY <1>1, <1>2, <2>1, UninstallBegins
<1> QED
  BY <1>3, <1>4

(* Steps that leave all but the tokens and the request alone.              *)
LEMMA OnlyRequest ==
    ASSUME InstallationInv, RequestOK(request'),
           UNCHANGED <<bundle, service, step, op, mishap>>
    PROVE  InstallationInv'
<1>1. UNCHANGED <<disk, hidden, manifest, key, task, record, running, step, op, mishap>>
  BY DEF bundle, service
<1> QED
  BY <1>1 DEF InstallationInv, SurvivalInv, Steady, InstallationTypeOK, OneCommand

LEMMA DeferOK ==
    ASSUME InstallationInv, NEW p \in Process, NEW t, NEW kind \in {"upgrade", "uninstall"}, NEW v,
           kind = "upgrade" => v \in Version, Defer(p, t, kind, v)
    PROVE  InstallationInv'
<1>1. InstallationTypeOK
  BY Sees
<1>2. manifest \in InstallManifest /\ manifest.service \in BOOLEAN
  BY <1>1, FoundWhole DEF Defer
<1>3. request' = [kind |-> kind, new |-> v, base |-> manifest] /\ (kind = "upgrade" => ~manifest.service)
  BY DEF Defer
<1>4. RequestOK(request')
  BY <1>2, <1>3 DEF RequestOK
<1> QED
  BY <1>4, OnlyRequest DEF Defer

LEMMA InstallationBegins == OneCommand /\ InstallationInit => InstallationInv
<1> SUFFICES ASSUME OneCommand, InstallationInit PROVE InstallationInv
  OBVIOUS
<1>1. NoFiles \in DiskType /\ \A d \in Place : Vacant(NoFiles, d)
  BY DEF NoFiles, DiskType, AnyVersion, Vacant
<1>2. InstallationTypeOK
  BY <1>1 DEF InstallationInit, InstallationTypeOK, AnyVersion, RequestOK, ProcessesOK
<1>3. SurvivalInv
  BY <1>2 DEF SurvivalInv, InstallationInit, Survives
<1>4. AtRest(disk, manifest, key, task, record, running)
  BY <1>1 DEF InstallationInit, AtRest, NothingThere, AllVacant, Unserved
<1>5. Steady
  BY <1>4 DEF Steady, InstallationInit
<1> QED
  BY <1>3, <1>5 DEF InstallationInv

LEMMA InstallationInduction == InstallationInv /\ [InstallationNext]_installationVars => InstallationInv'
<1> SUFFICES ASSUME InstallationInv, [InstallationNext]_installationVars PROVE InstallationInv'
  OBVIOUS
<1>1. RequestOK(request) /\ RequestOK(NoOp)
  BY DEF InstallationInv, SurvivalInv, InstallationTypeOK, RequestOK
<1>2. CASE UNCHANGED installationVars
  BY <1>1, <1>2, OnlyRequest DEF installationVars
<1>3. ASSUME NEW t \in Token, Plans(t) PROVE InstallationInv'
  BY <1>1, <1>3, OnlyRequest DEF Plans
<1>4. CASE RequestLapses
  BY <1>1, <1>4, OnlyRequest DEF RequestLapses
<1>5. ASSUME NEW p \in Process, Commands(p) PROVE InstallationInv'
  <2>1. ASSUME NEW t \in Token, NEW v \in Version, NEW managed \in BOOLEAN, Install(p, t, v, managed)
        PROVE  InstallationInv'
    BY <2>1, InstallOK
  <2>2. ASSUME NEW t \in Token, NEW v \in Version, NEW b \in Transaction, Upgrade(p, t, v, b)
        PROVE  InstallationInv'
    <3> DEFINE s == IF manifest.service THEN "stop" ELSE "read"
    <3>1. /\ Loadable /\ ChecksumsMatch /\ FreshBackup(b) /\ RequestOK(request')
          /\ Begin(p, s, "upgrade", v, manifest, b, manifest.service)
          /\ UNCHANGED <<disk, hidden, manifest, key, task, record, running, mishap>>
      BY <1>1, <2>2 DEF Upgrade, bundle, service
    <3>2. manifest.service \in BOOLEAN
      BY <3>1, Sees, FoundWhole
    <3>3. s \in {"stop", "read", "backup"} /\ (s = "stop" <=> manifest.service = TRUE)
      BY <3>2
    <3> HIDE DEF s
    <3> QED
      BY <3>1, <3>3, UpgradeBegins
  <2>3. ASSUME NEW t \in Token, Uninstall(p, t) PROVE InstallationInv'
    BY <1>1, <2>3, UninstallBegins DEF Uninstall, bundle, service
  <2>4. ASSUME NEW t \in Token, NEW v \in Version, Defer(p, t, "upgrade", v) PROVE InstallationInv'
    BY <2>4, DeferOK
  <2>5. ASSUME NEW t \in Token, Defer(p, t, "uninstall", NoVersion) PROVE InstallationInv'
    BY <2>5, DeferOK
  <2>6. ASSUME NEW b \in Transaction, Helper(p, b) PROVE InstallationInv'
    BY <2>6, HelperOK
  <2> QED
    BY <1>5, <2>1, <2>2, <2>3, <2>4, <2>5, <2>6 DEF Commands
<1>6. ASSUME NEW p \in Process, Files(p) PROVE InstallationInv'
  BY <1>6, CopyFileOK, CopyFinishedOK, BackupFileOK, BackupFinishedOK, RemoveFileOK,
     RemoveFinishedOK, RestoreFileOK, RestoreFinishedOK, QuarantineFileOK, UnquarantineFileOK,
     PurgeFileOK, QuarantineFinishedOK DEF Files
<1>7. ASSUME NEW p \in Process, Records(p) PROVE InstallationInv'
  BY <1>7, CreateInstallKeyOK, QuarantineKeyOK, UndoKeyOK, WriteManifestOK, RemoveManifestOK,
     ReadManifestOK, RestoreManifestOK, DropBackupOK DEF Records
<1>8. ASSUME NEW p \in Process, Registration(p) PROVE InstallationInv'
  BY <1>8, PlanRegistrationOK, RegisterTaskOK, RegisterUnverifiedOK, WriteRecordOK,
     StartServiceOK,
     StartTimesOutOK, PlanUnregistrationOK, StopServiceOK, StopTimesOutOK, UnregisterTaskOK,
     RemoveRecordOK, DropTaskOK, DropRecordOK, RestoreTaskOK, RestoreRecordOK DEF Registration
<1>9. ASSUME NEW p \in Process, Fail(p) \/ Crash(p) PROVE InstallationInv'
  BY <1>9, FailOK, CrashOK
<1> QED
  BY <1>2, <1>3, <1>4, <1>5, <1>6, <1>7, <1>8, <1>9 DEF InstallationNext

LEMMA InstallationSafety == OneCommand /\ InstallationSpec => []InstallationInv
BY InstallationBegins, InstallationInduction, PTL DEF InstallationSpec

-----------------------------------------------------------------------------
LEMMA VacantIsEmpty ==
    ASSUME NEW dk \in DiskType, NEW d \in Place, Vacant(dk, d)
    PROVE  dk[d] = NoFiles[d]
BY DEF DiskType, Vacant, NoFiles

LEMMA RestIsWhole ==
    ASSUME InstallationTypeOK, AtRest(disk, manifest, key, task, record, running)
    PROVE  IF manifest = NotInstalled THEN NothingInstalled ELSE WholeInstallation
<1>1. disk \in DiskType /\ Root \in Place /\ \A c \in Transaction : c \in Place
  BY DEF InstallationTypeOK, Place
<1>2. CASE manifest = NotInstalled
  <2>1. NothingThere(disk, manifest, key) /\ Unserved(task, record, running)
    BY <1>2 DEF AtRest
  <2>2. \A d \in Place : disk[d] = NoFiles[d]
    BY <1>1, <2>1, VacantIsEmpty DEF NothingThere, AllVacant
  <2>3. disk = NoFiles
    BY <1>1, <2>2 DEF DiskType, NoFiles
  <2> QED
    BY <1>2, <2>1, <2>3 DEF NothingInstalled, NothingThere, Unserved
<1>3. CASE manifest # NotInstalled
  <2>1. /\ key = TRUE /\ HasIn(disk, Root, manifest.version) /\ BackupsIn(disk, manifest)
        /\ OthersVacant(disk, manifest, {})
        /\ task = ServiceOf(manifest) /\ record = ServiceOf(manifest)
        /\ running \in {NoVersion, ServiceOf(manifest)}
    BY <1>3 DEF AtRest, NothingThere, WholeFiles, FilesWhole
  <2>2. manifest \in InstallManifest
    BY <1>3 DEF InstallationTypeOK
  <2>3. ChecksumsMatch
    <3>1. Intact(Root, manifest.version)
      BY <2>1, <2>2, BackupTypes DEF HasIn, Intact
    <3>2. \A b \in manifest.backups : Intact(b.place, b.version)
      BY <2>1, <2>2, BackupTypes DEF BackupsIn, HasIn, Intact
    <3> QED
      BY <3>1, <3>2 DEF ChecksumsMatch
  <2>4. ASSUME NEW b \in Transaction, disk[b] # NoFiles[b]
        PROVE  \E m \in manifest.backups : m.place = b
    BY <1>1, <2>1, <2>4, VacantIsEmpty DEF OthersVacant, PlacesOf
  <2> QED
    BY <1>3, <2>1, <2>3, <2>4 DEF WholeInstallation, Loadable, Registered, TaskIs, ServiceOf
<1> QED
  BY <1>2, <1>3

(* A service upgrade ends only where it has started something.             *)
LEMMA UpgradeEnds ==
    ASSUME InstallationInv, InstallationInv', InstallationNext, NEW p \in Process,
           step[p] \notin {"idle", "stop", "read"}, op[p].kind = "upgrade", op[p].service,
           step'[p] = "idle", ~mishap'
    PROVE  running' \in {op[p].prior, op[p].new} /\ Registered(running)'
<1> DEFINE o == op[p]
           r == step[p]
<1>1. OpOK(r, o) /\ r \in UpgradeStep /\ step = [q \in Process |-> step[q]] /\ \A q \in Process : q = p
  BY Sees DEF OpOK, StepsOf, InstallationTypeOK, ProcessesOK, OneCommand
<1>2. \A s : GoTo(p, s) => s = "idle"
  BY <1>1 DEF GoTo
<1>3. r \notin {"undo_drop", "back_drop"} => ~Raise(p)
  <2> SUFFICES ASSUME Raise(p), r \notin {"undo_drop", "back_drop"} PROVE FALSE
    OBVIOUS
  <2>1. UpgradeRecovery(o, r) = "idle" /\ ~Compensating(o, r)
    BY <1>2 DEF Raise, Recovery
  <2> QED
    BY <1>1, <2>1 DEF UpgradeRecovery, RestartOr, Compensating, UpgradeStep
<1>4. \A e : ~Did(p, e)
  BY DEF Did
<1>5. ~Commands(p)
  BY DEF Commands, Install, Upgrade, Uninstall, Defer, Helper, Begin
<1>6. ~Files(p)
  <2>1. ~CopyFile(p) /\ ~RestoreFile(p)
    BY <1>4 DEF CopyFile, RestoreFile, PutFile
  <2>2. ~BackupFile(p) /\ ~RemoveFile(p) /\ ~UnquarantineFile(p) /\ ~PurgeFile(p) /\ ~QuarantineFile(p)
    BY <1>4 DEF BackupFile, RemoveFile, UnquarantineFile, PurgeFile, QuarantineFile
  <2>3. ~CopyFinished(p) /\ ~BackupFinished(p) /\ ~RestoreFinished(p)
    BY <1>2 DEF CopyFinished, BackupFinished, RestoreFinished
  <2>4. ~RemoveFinished(p)
    BY <1>2 DEF RemoveFinished
  <2>5. ~QuarantineFinished(p)
    BY <1>1 DEF QuarantineFinished, Finished, UpgradeStep
  <2> QED
    BY <2>1, <2>2, <2>3, <2>4, <2>5 DEF Files
<1>7. ~Records(p)
  <2>1. ~CreateInstallKey(p) /\ ~QuarantineKey(p) /\ ~UndoKey(p) /\ ~RemoveManifest(p)
    BY <1>1 DEF CreateInstallKey, QuarantineKey, UndoKey, RemoveManifest, UpgradeStep
  <2>2. ~WriteManifest(p) /\ ~ReadManifest(p) /\ ~RestoreManifest(p) /\ ~DropBackup(p)
    BY <1>2 DEF WriteManifest, ReadManifest, RestoreManifest, DropBackup, RestartOr
  <2> QED
    BY <2>1, <2>2 DEF Records
<1>8. ~Fail(p) /\ ~Crash(p)
  BY <1>3 DEF Fail, Crash
<1>9. Registration(p) => StartService(p)
  <2>1. ~StartTimesOut(p) /\ ~StopTimesOut(p) /\ ~RegisterUnverified(p)
    BY <1>3 DEF StartTimesOut, StopTimesOut, RegisterUnverified, Starts
  <2>2. ~PlanRegistration(p) /\ ~RegisterTask(p) /\ ~WriteRecord(p) /\ ~RestoreTask(p) /\ ~RestoreRecord(p)
    BY <1>2 DEF PlanRegistration, RegisterTask, WriteRecord, RestoreTask, RestoreRecord
  <2>3. ~PlanUnregistration(p) /\ ~UnregisterTask(p) /\ ~RemoveRecord(p) /\ ~DropTask(p) /\ ~DropRecord(p)
    BY <1>1
    DEF PlanUnregistration, UnregisterTask, RemoveRecord, DropTask, DropRecord, UpgradeStep
  <2>4. ~StopService(p)
    BY <1>2 DEF StopService
  <2> QED
    BY <2>1, <2>2, <2>3, <2>4 DEF Registration
<1>10. StartService(p)
  <2>1. \A t \in Token : ~Plans(t)
    BY DEF Plans
  <2>2. ~RequestLapses
    BY DEF RequestLapses
  <2> QED
    BY <1>1, <1>5, <1>6, <1>7, <1>8, <1>9, <2>1, <2>2 DEF InstallationNext
<1>11. running' # NoVersion /\ task' \in {o.prior, o.new}
  BY <1>10 DEF StartService, Starts, TaskIs, Target
<1>12. AtRest(disk', manifest', key', task', record', running')
  BY <1>1 DEF InstallationInv, Steady
<1>13. running' = task' /\ record' = task'
  BY <1>11, <1>12 DEF AtRest, Unserved
<1> QED
  BY <1>11, <1>13 DEF Registered, TaskIs

(* Whatever dies and whatever fails, while there is a manifest some bundle *)
(* can be put together, if commands run one at a time: a step that removes *)
(* or renames a file of one bundle does so where another copy is whole.    *)
THEOREM BundlesSurvive == OneCommand /\ InstallationSpec => []SomeBundleSurvives
<1>1. InstallationInv => SomeBundleSurvives
  BY DEF InstallationInv, SurvivalInv, Survives, SomeBundleSurvives
<1> QED
  BY <1>1, InstallationSafety, PTL

(* A command that ends without a process dying and without a compensation  *)
(* failing leaves nothing or one whole installation, if commands run one   *)
(* at a time: install, upgrade, uninstall, the helper and the registration *)
(* of the service.                                                         *)
THEOREM CommandsEndWhole == OneCommand /\ InstallationSpec => []CommandsAreTransactional
<1>1. InstallationInv => CommandsAreTransactional
  <2> SUFFICES ASSUME InstallationInv, ~mishap, \A p \in Process : step[p] = "idle"
               PROVE  IF manifest = NotInstalled THEN NothingInstalled ELSE WholeInstallation
    BY DEF CommandsAreTransactional
  <2> QED
    BY RestIsWhole DEF InstallationInv, SurvivalInv, Steady
<1> QED
  BY <1>1, InstallationSafety, PTL

(* An upgrade of a service that began to copy files ends, where no         *)
(* compensation fails, with the new program or the old one running and     *)
(* registered, if commands run one at a time.                              *)
THEOREM UpgradesBringServicesBack == OneCommand /\ InstallationSpec => UpgradeBringsServiceBack
<1>1. InstallationInv /\ InstallationInv' /\ [InstallationNext]_installationVars =>
        [\A p \in Process :
            /\ step[p] \notin {"idle", "stop", "read"} /\ op[p].kind = "upgrade" /\ op[p].service
            /\ step'[p] = "idle" /\ ~mishap'
            => running' \in {op[p].prior, op[p].new} /\ Registered(running)']_installationVars
  BY UpgradeEnds
<1> QED
  BY <1>1, InstallationSafety, PTL DEF UpgradeBringsServiceBack, InstallationSpec
=============================================================================
