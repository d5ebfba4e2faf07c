---------------------------- MODULE Transaction ----------------------------
(***************************************************************************)
(* install::transaction::Transaction, the unit every mutation of the       *)
(* system goes through: one package installed into, or removed from, the   *)
(* install root, together with the two databases InstalledDb (package ->   *)
(* files) and FileDb (file -> owner), each held in memory and on disk.     *)
(*                                                                         *)
(* One action per system call that can fail or that a crash can separate   *)
(* from the next: a rename of one file, one hook, one database save.       *)
(* A file's bytes are abstracted to the package that shipped them.  The    *)
(* order of a package's file list is left open: any file may be next.      *)
(***************************************************************************)
CONSTANTS
    Package,    \* package names
    File,       \* paths relative to the install root
    Payload,    \* Payload[p]: the file sets some archive of p ships
    None,       \* no file, no owner, not installed
    Foreign,    \* bytes in the install root that no package put there
    ForeignAt,  \* the paths where such bytes may already be
    Faults,     \* which calls may fail: see FaultKinds
    CrashAt     \* the steps before which the process may die

FaultKinds == {"extract", "hash", "hook", "rename", "undo", "restore", "save"}

InstallSteps == {"extract", "check", "pre_install", "activate", "post_install",
                 "undo_install", "claim"}
RemoveSteps  == {"pre_remove", "backup", "undo_removal", "post_remove", "release"}
SaveSteps    == {"save_packages", "save_files"}
Steps        == InstallSteps \cup RemoveSteps \cup SaveSteps

ASSUME NoneAssumption ==
    /\ None \notin Package /\ Foreign \notin Package /\ None # Foreign
    /\ \A files \in SUBSET File : None # files
ASSUME PayloadAssumption == Payload \in [Package -> SUBSET SUBSET File]
ASSUME FaultAssumption == Faults \subseteq FaultKinds /\ CrashAt \subseteq Steps

VARIABLES
    root,        \* [File -> bytes]: the install root
    staging,     \* [Package -> set of files]: .mitos-pkg-staging/<name>
    backup,      \* [Package -> [File -> bytes]]: .mitos-pkg-backup/<name>
    packages,    \* InstalledDb in memory: installed_files, or None
    owners,      \* FileDb in memory: owner of a file, or None
    dPackages,   \* installed.json
    dOwners,     \* files.json
    pc,          \* the step the running transaction is at, "idle" outside one
    cur,         \* its package
    written,     \* the paths of the archive (install) or of the record (remove)
    todo,        \* the paths the current loop has not handled yet
    before,      \* history: root and databases when the transaction started
    outcome      \* history: how the last transaction ended

disk == <<dPackages, dOwners>>
mem  == <<packages, owners>>
hist == <<before, outcome>>
vars == <<root, staging, backup, packages, owners, dPackages, dOwners,
          pc, cur, written, todo, before, outcome>>

Bytes    == Package \cup {Foreign, None}
NoBackup == [f \in File |-> None]
Snapshot == [root |-> root, packages |-> packages, owners |-> owners,
             dPackages |-> dPackages, dOwners |-> dOwners]

TypeOK ==
    /\ root \in [File -> Bytes]
    /\ staging \in [Package -> SUBSET File]
    /\ backup \in [Package -> [File -> Bytes]]
    /\ packages \in [Package -> {None} \cup SUBSET File]
    /\ dPackages \in [Package -> {None} \cup SUBSET File]
    /\ owners \in [File -> Package \cup {None}]
    /\ dOwners \in [File -> Package \cup {None}]
    /\ pc \in Steps \cup {"idle"}
    /\ cur \in Package \cup {None}
    /\ pc # "idle" => cur \in Package
    /\ written \subseteq File /\ todo \subseteq written
    /\ outcome \in {"none", "ok", "error"}

\* A system nobody has installed anything on yet; administrators' own files
\* may already sit in the install root.
Init ==
    /\ root \in [File -> {None, Foreign}] /\ \A f \in File \ ForeignAt : root[f] = None
    /\ staging = [p \in Package |-> {}]
    /\ backup = [p \in Package |-> NoBackup]
    /\ packages = [p \in Package |-> None] /\ dPackages = packages
    /\ owners = [f \in File |-> None] /\ dOwners = owners
    /\ pc = "idle" /\ cur = None /\ written = {} /\ todo = {}
    /\ before = Snapshot /\ outcome = "none"

(***************************************************************************)
(* How a step hands over: to the next step, or back to the caller.         *)
(***************************************************************************)
Goto(step, files) == pc' = step /\ todo' = files /\ UNCHANGED <<cur, written, hist>>

Return(result) ==
    /\ pc' = "idle" /\ cur' = None /\ written' = {} /\ todo' = {}
    /\ outcome' = result /\ UNCHANGED before

CanFail(kind) == kind \in Faults

Begin(p, step, files) ==
    /\ pc = "idle" /\ cur' = p /\ pc' = step /\ written' = files /\ todo' = files
    /\ before' = Snapshot /\ outcome' = "none"

DropStaging == staging' = [staging EXCEPT ![cur] = {}]
DropBackup  == backup' = [backup EXCEPT ![cur] = NoBackup]

(***************************************************************************)
(* Transaction::install                                                    *)
(***************************************************************************)
\* Every caller first makes sure p is not installed: AlreadyInstalled in
\* install and install_local, plans that skip installed packages, and
\* upgrade_one, which removes the old version before it installs the new one.
BeginInstall(p, files) ==
    /\ files \in Payload[p] /\ packages[p] = None
    /\ Begin(p, "extract", files)
    /\ staging' = [staging EXCEPT ![p] = {}]
    /\ UNCHANGED <<root, backup, mem, disk>>

\* An archive that fails to unpack leaves what it wrote in the staging dir.
Extract ==
    /\ pc = "extract"
    /\ \/ /\ staging' = [staging EXCEPT ![cur] = written] /\ Goto("check", {})
       \/ /\ CanFail("extract") /\ Return("error")
          /\ \E part \in SUBSET written : staging' = [staging EXCEPT ![cur] = part]
    /\ UNCHANGED <<root, backup, mem, disk>>

\* mutant of NoConflict
NoCheck(files, p) == TRUE

\* FileDb::check_no_conflicts
NoConflict(files, p) == \A f \in files : owners[f] \in {p, None}

\* The payload hash, then file ownership; nothing outside staging is touched.
Check ==
    /\ pc = "check"
    /\ \/ NoConflict(written, cur) /\ Goto("pre_install", {}) /\ UNCHANGED staging
       \/ /\ CanFail("hash") \/ ~NoConflict(written, cur)
          /\ DropStaging /\ Return("error")
    /\ UNCHANGED <<root, backup, mem, disk>>

PreInstall ==
    /\ pc = "pre_install"
    /\ \/ Goto("activate", written) /\ UNCHANGED staging
       \/ CanFail("hook") /\ DropStaging /\ Return("error")
    /\ UNCHANGED <<root, backup, mem, disk>>

\* One rename of activate(): it replaces whatever is at the destination.
ActivateFile(f) ==
    /\ pc = "activate" /\ f \in todo
    /\ root' = [root EXCEPT ![f] = cur]
    /\ staging' = [staging EXCEPT ![cur] = @ \ {f}]
    /\ Goto("activate", todo \ {f})
    /\ UNCHANGED <<backup, mem, disk>>

\* mutants of ActivateFails: it deletes what was not moved; it tries again.
ActivateFailsUndoingRest ==
    /\ pc = "activate" /\ todo # {} /\ CanFail("rename") /\ Goto("undo_install", todo)
    /\ UNCHANGED <<root, staging, backup, mem, disk>>
ActivateFailsRetrying ==
    /\ pc = "activate" /\ todo # {} /\ CanFail("rename") /\ Goto("activate", written)
    /\ UNCHANGED <<root, staging, backup, mem, disk>>

\* create_dir_all or rename fails: the files moved so far are deleted.
ActivateFails ==
    /\ pc = "activate" /\ todo # {} /\ CanFail("rename")
    /\ Goto("undo_install", written \ todo)
    /\ UNCHANGED <<root, staging, backup, mem, disk>>

ActivateDone ==
    /\ pc = "activate" /\ todo = {}
    /\ DropStaging /\ Goto("post_install", {})
    /\ UNCHANGED <<root, backup, mem, disk>>

\* mutant of PostInstall: a failing hook returns at once.
PostInstallNoUndo ==
    /\ pc = "post_install"
    /\ Goto("claim", {}) \/ (CanFail("hook") /\ Return("error"))
    /\ UNCHANGED <<root, staging, backup, mem, disk>>

PostInstall ==
    /\ pc = "post_install"
    /\ \/ Goto("claim", {})
       \/ CanFail("hook") /\ Goto("undo_install", written)
    /\ UNCHANGED <<root, staging, backup, mem, disk>>

\* rollback::undo_install: a file that cannot be deleted is logged and skipped.
UndoInstallFile(f) ==
    /\ pc = "undo_install" /\ f \in todo
    /\ \/ root' = [root EXCEPT ![f] = None]
       \/ CanFail("undo") /\ UNCHANGED root
    /\ Goto("undo_install", todo \ {f})
    /\ UNCHANGED <<staging, backup, mem, disk>>

UndoInstallDone ==
    /\ pc = "undo_install" /\ todo = {}
    /\ DropStaging /\ Return("error")
    /\ UNCHANGED <<root, backup, mem, disk>>

\* FileDb::claim and InstalledDb::insert
Claim ==
    /\ pc = "claim"
    /\ owners' = [f \in File |-> IF f \in written THEN cur ELSE owners[f]]
    /\ packages' = [packages EXCEPT ![cur] = written]
    /\ Goto("save_packages", {})
    /\ UNCHANGED <<root, staging, backup, disk>>

(***************************************************************************)
(* InstalledDb::save, then FileDb::save: each a temporary file renamed     *)
(* over the old one, so it happens or it does not.  An error returns.      *)
(***************************************************************************)
SavePackages ==
    /\ pc = "save_packages"
    /\ \/ dPackages' = packages /\ Goto("save_files", {})
       \/ CanFail("save") /\ UNCHANGED dPackages /\ Return("error")
    /\ UNCHANGED <<root, staging, backup, mem, dOwners>>

\* mutant of SaveFiles: the file database is left for later.
SaveFilesLater ==
    /\ pc = "save_files" /\ Return("ok")
    /\ UNCHANGED <<root, staging, backup, mem, disk>>

SaveFiles ==
    /\ pc = "save_files"
    /\ \/ dOwners' = owners /\ Return("ok")
       \/ CanFail("save") /\ UNCHANGED dOwners /\ Return("error")
    /\ UNCHANGED <<root, staging, backup, mem, dPackages>>

(***************************************************************************)
(* Transaction::remove                                                     *)
(***************************************************************************)
BeginRemove(p) ==
    /\ packages[p] # None
    /\ Begin(p, "pre_remove", packages[p])
    /\ UNCHANGED <<root, staging, backup, mem, disk>>

PreRemove ==
    /\ pc = "pre_remove"
    /\ \/ Goto("backup", written)
       \/ CanFail("hook") /\ Return("error")
    /\ UNCHANGED <<root, staging, backup, mem, disk>>

\* mutant of BackupFile: the file is deleted, not moved.
DeleteFile(f) ==
    /\ pc = "backup" /\ f \in todo
    /\ root' = [root EXCEPT ![f] = None] /\ Goto("backup", todo \ {f})
    /\ UNCHANGED <<staging, backup, mem, disk>>

\* One round of backup_and_remove: a file that is not there is skipped.
BackupFile(f) ==
    /\ pc = "backup" /\ f \in todo
    /\ IF root[f] = None THEN UNCHANGED <<root, backup>>
       ELSE /\ backup' = [backup EXCEPT ![cur][f] = root[f]]
            /\ root' = [root EXCEPT ![f] = None]
    /\ Goto("backup", todo \ {f})
    /\ UNCHANGED <<staging, mem, disk>>

BackupFails ==
    /\ pc = "backup" /\ CanFail("rename")
    /\ \E f \in todo : root[f] # None
    /\ Goto("undo_removal", written)
    /\ UNCHANGED <<root, staging, backup, mem, disk>>

BackupDone ==
    /\ pc = "backup" /\ todo = {}
    /\ Goto("post_remove", {})
    /\ UNCHANGED <<root, staging, backup, mem, disk>>

\* rollback::undo_removal, one file; what the backup does not hold is skipped.
UndoRemovalFile(f) ==
    /\ pc = "undo_removal" /\ f \in todo
    /\ IF backup[cur][f] = None THEN UNCHANGED <<root, backup>>
       ELSE /\ root' = [root EXCEPT ![f] = backup[cur][f]]
            /\ backup' = [backup EXCEPT ![cur][f] = None]
    /\ Goto("undo_removal", todo \ {f})
    /\ UNCHANGED <<staging, mem, disk>>

\* The end of the failed removal.  undo_removal gives up at the first file it
\* cannot restore; remove() discards that error, and the backup in both cases.
UndoRemovalEnds ==
    /\ pc = "undo_removal"
    /\ todo = {} \/ (CanFail("restore") /\ \E f \in todo : backup[cur][f] # None)
    /\ DropBackup /\ Return("error")
    /\ UNCHANGED <<root, staging, mem, disk>>

\* post_remove cannot fail the removal; then the backup is deleted.
PostRemove ==
    /\ pc = "post_remove"
    /\ DropBackup /\ Goto("release", {})
    /\ UNCHANGED <<root, staging, mem, disk>>

\* mutant of Release: the files keep their owner.
ReleaseForgotten ==
    /\ pc = "release" /\ packages' = [packages EXCEPT ![cur] = None]
    /\ Goto("save_packages", {})
    /\ UNCHANGED <<root, staging, backup, owners, disk>>

\* FileDb::release and InstalledDb::remove
Release ==
    /\ pc = "release"
    /\ owners' = [f \in File |-> IF f \in written THEN None ELSE owners[f]]
    /\ packages' = [packages EXCEPT ![cur] = None]
    /\ Goto("save_packages", {})
    /\ UNCHANGED <<root, staging, backup, disk>>

(***************************************************************************)
(* The process: it may die before any step of CrashAt, and a new one loads *)
(* both databases from disk (PackageService::open).  At "idle" this is a   *)
(* command that ended and the next one starting.  No recovery is run.      *)
(***************************************************************************)
Reopen ==
    /\ pc \in CrashAt \cup {"idle"}
    /\ packages' = dPackages /\ owners' = dOwners
    /\ pc' = "idle" /\ cur' = None /\ written' = {} /\ todo' = {}
    /\ outcome' = "none" /\ UNCHANGED before
    /\ UNCHANGED <<root, staging, backup, disk>>

InstallStep ==
    \/ Extract \/ Check \/ PreInstall \/ ActivateFails \/ ActivateDone
    \/ PostInstall \/ UndoInstallDone \/ Claim
    \/ \E f \in File : ActivateFile(f) \/ UndoInstallFile(f)
RemoveStep ==
    \/ PreRemove \/ BackupFails \/ BackupDone \/ UndoRemovalEnds \/ PostRemove
    \/ Release \/ \E f \in File : BackupFile(f) \/ UndoRemovalFile(f)
SaveStep == SavePackages \/ SaveFiles
Step == InstallStep \/ RemoveStep \/ SaveStep

BeginTransaction ==
    \E p \in Package : BeginRemove(p) \/ \E files \in SUBSET File : BeginInstall(p, files)

Next == BeginTransaction \/ Step \/ Reopen

\* Once called, a transaction runs to its end: it is straight-line code.
Spec == Init /\ [][Next]_vars /\ WF_vars(Step)

(***************************************************************************)
(* Properties                                                              *)
(***************************************************************************)
\* The two databases tell the same story: a file has an owner exactly when
\* that package is installed and lists it (so no file is listed twice).
Agree(pk, ow) ==
    \A f \in File, p \in Package : ow[f] = p <=> (pk[p] # None /\ f \in pk[p])

\* Memory and disk each hold two databases that agree, whenever no
\* transaction is between its two saves: check_no_conflicts, claim and
\* release keep FileDb the inverse of InstalledDb, through every failure.
DatabasesAgree ==
    /\ Agree(packages, owners)
    /\ pc # "save_files" => Agree(dPackages, dOwners)

\* "On any failure the filesystem and the two databases are left exactly as
\* they were": a transaction that returned an error changed nothing.
FailureRestores == outcome = "error" => Snapshot = before

\* A successful transaction is on disk, not only in memory, when it returns.
SuccessPersisted == outcome = "ok" => packages = dPackages /\ owners = dOwners

\* No step of p's transaction touches the bytes of a file another package
\* owns: staging, conflict check, rollback and backup all stay within p.
OthersUntouched ==
    [][\A f \in File : owners[f] \notin {None, cur} => root'[f] = root[f]]_vars

\* A file recorded as installed can still be found, in the install root or in
\* its package's backup, until the removal that deletes it has committed to
\* doing so by discarding the backup.
PayloadRecoverable ==
    \A p \in Package : dPackages[p] # None /\ ~(cur = p /\ pc \in {"release", "save_packages"})
        => \A f \in dPackages[p] : p \in {root[f], backup[p][f]}

\* post_install runs when "both on-disk databases are persisted".
PostInstallAfterPersist == pc = "post_install" => dPackages[cur] = written

\* Every transaction ends, through all its rollback loops.
TransactionEnds == pc # "idle" ~> pc = "idle"

(***************************************************************************)
(* What a caller may rely on: AtomicInstall, seen between transactions.    *)
(***************************************************************************)
View == IF pc = "idle" THEN Snapshot ELSE before
Atomic == INSTANCE AtomicInstall WITH
    root <- View.root, packages <- View.packages, owners <- View.owners
AtomicSpec == Atomic!Spec
=============================================================================
