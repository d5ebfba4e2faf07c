----------------------------- MODULE ServiceLock -----------------------------
(***************************************************************************)
(* Several processes on one database directory: command-line runs, which   *)
(* open the service, run one command and exit, and daemons, which open it  *)
(* once and keep it.  PackageService::open reads both databases; every     *)
(* mutating operation then takes the lock file service::lock::Lock, works  *)
(* on the copies in memory, and writes each copy back as a whole.          *)
(*                                                                         *)
(* A package's record is abstracted to absent, present or held; what a     *)
(* transaction does to files is Transaction's subject.                     *)
(***************************************************************************)
CONSTANTS
    Proc,       \* processes
    Daemon,     \* those that keep the service open between operations
    Package,
    CrashAt,    \* where a process may be killed (SIGTERM's exit(0) included)
    SaveFails   \* whether writing a database may fail

Critical == {"locked", "save_packages", "save_files", "save_hold"}
Place    == {"closed", "opening", "open"} \cup Critical
ASSUME ProcAssumption == Daemon \subseteq Proc
ASSUME CrashAssumption == CrashAt \subseteq Place /\ SaveFails \in BOOLEAN

VARIABLES
    lockFile,   \* .mitos-pkg.lock exists
    dPackages,  \* installed.json
    dFiles,     \* files.json: the packages that own files
    pc,         \* where each process is
    mPackages,  \* each process's copy of installed.json
    mFiles,     \* each process's copy of files.json
    target,     \* the package whose transaction the process is saving
    committed,  \* history: each package's record as last written on purpose
    fresh       \* history: the copies equalled the disk when the lock was taken

disk == <<dPackages, dFiles>>
copy == <<mPackages, mFiles>>
hist == <<committed, fresh>>
vars == <<lockFile, dPackages, dFiles, pc, mPackages, mFiles, target, committed, fresh>>

Record  == {"absent", "present", "held"}
Records == [Package -> Record]
Owning(records) == {q \in Package : records[q] # "absent"}

TypeOK ==
    /\ lockFile \in BOOLEAN
    /\ dPackages \in Records /\ dFiles \subseteq Package
    /\ pc \in [Proc -> Place]
    /\ mPackages \in [Proc -> Records] /\ mFiles \in [Proc -> SUBSET Package]
    /\ target \in [Proc -> SUBSET Package]
    /\ committed \in Records /\ fresh \in [Proc -> BOOLEAN]
    /\ \A p \in Proc : pc[p] \notin Critical => target[p] = {} /\ ~fresh[p]

Nothing == [q \in Package |-> "absent"]

Init ==
    /\ lockFile = FALSE
    /\ dPackages = Nothing /\ dFiles = {} /\ committed = Nothing
    /\ pc = [p \in Proc |-> "closed"]
    /\ mPackages = [p \in Proc |-> Nothing] /\ mFiles = [p \in Proc |-> {}]
    /\ target = [p \in Proc |-> {}] /\ fresh = [p \in Proc |-> FALSE]

At(p, place)   == pc[p] = place
Goto(p, place) == pc' = [pc EXCEPT ![p] = place]

\* A process that is gone takes its copies with it.
Gone(p) ==
    /\ Goto(p, "closed")
    /\ mPackages' = [mPackages EXCEPT ![p] = Nothing]
    /\ mFiles' = [mFiles EXCEPT ![p] = {}]
    /\ target' = [target EXCEPT ![p] = {}]
    /\ fresh' = [fresh EXCEPT ![p] = FALSE]

\* The end of an operation: Lock's Drop deletes the lock file.
Unlock(p) ==
    /\ lockFile' = FALSE /\ Goto(p, "open")
    /\ target' = [target EXCEPT ![p] = {}]
    /\ fresh' = [fresh EXCEPT ![p] = FALSE]

\* PackageService::open takes no lock and reads one file after the other.
OpenPackages(p) ==
    /\ At(p, "closed") /\ Goto(p, "opening")
    /\ mPackages' = [mPackages EXCEPT ![p] = dPackages]
    /\ UNCHANGED <<lockFile, disk, mFiles, target, hist>>

OpenFiles(p) ==
    /\ At(p, "opening") /\ Goto(p, "open")
    /\ mFiles' = [mFiles EXCEPT ![p] = dFiles]
    /\ UNCHANGED <<lockFile, disk, mPackages, target, hist>>

\* mutant of Acquire: open instead of create_new.
AcquireAnyway(p) ==
    /\ At(p, "open") /\ lockFile' = TRUE /\ Goto(p, "locked")
    /\ fresh' = [fresh EXCEPT ![p] = mPackages[p] = dPackages /\ mFiles[p] = dFiles]
    /\ UNCHANGED <<disk, copy, target, committed>>

\* Lock::acquire: create_new succeeds for one process only.
Acquire(p) ==
    /\ At(p, "open") /\ ~lockFile /\ lockFile' = TRUE
    /\ Goto(p, "locked")
    /\ fresh' = [fresh EXCEPT ![p] = mPackages[p] = dPackages /\ mFiles[p] = dFiles]
    /\ UNCHANGED <<disk, copy, target, committed>>

\* A command line run that is refused the lock, or is done, exits.
Close(p) ==
    /\ At(p, "open") /\ p \notin Daemon /\ Gone(p)
    /\ UNCHANGED <<lockFile, disk, committed>>

\* mutant of Change: a removal releases every package's files.
ChangeReleasingAll(p, q) ==
    /\ At(p, "locked") /\ Goto(p, "save_packages") /\ target' = [target EXCEPT ![p] = {q}]
    /\ \/ /\ mPackages[p][q] = "absent"
          /\ mPackages' = [mPackages EXCEPT ![p][q] = "present"]
          /\ mFiles' = [mFiles EXCEPT ![p] = @ \cup {q}]
       \/ /\ mPackages[p][q] # "absent"
          /\ mPackages' = [mPackages EXCEPT ![p][q] = "absent"]
          /\ mFiles' = [mFiles EXCEPT ![p] = {}]
    /\ UNCHANGED <<lockFile, disk, hist>>

\* One transaction's change of the copies: an install (upgrade_one carries a
\* hold over to the new version), or a removal.
Change(p, q) ==
    /\ At(p, "locked")
    /\ \/ /\ mPackages[p][q] = "absent"
          /\ \E flag \in {"present", "held"} :
                mPackages' = [mPackages EXCEPT ![p][q] = flag]
          /\ mFiles' = [mFiles EXCEPT ![p] = @ \cup {q}]
       \/ /\ mPackages[p][q] # "absent"
          /\ mPackages' = [mPackages EXCEPT ![p][q] = "absent"]
          /\ mFiles' = [mFiles EXCEPT ![p] = @ \ {q}]
    /\ target' = [target EXCEPT ![p] = {q}]
    /\ Goto(p, "save_packages")
    /\ UNCHANGED <<lockFile, disk, hist>>

SavePackages(p) ==
    /\ At(p, "save_packages")
    /\ dPackages' = mPackages[p]
    /\ committed' = [q \in Package |-> IF q \in target[p] THEN mPackages[p][q]
                                       ELSE committed[q]]
    /\ Goto(p, "save_files")
    /\ UNCHANGED <<lockFile, dFiles, copy, target, fresh>>

\* The next transaction of the same operation, if any, runs under this lock.
SaveFiles(p) ==
    /\ At(p, "save_files")
    /\ dFiles' = mFiles[p]
    /\ target' = [target EXCEPT ![p] = {}]
    /\ Goto(p, "locked")
    /\ UNCHANGED <<lockFile, dPackages, copy, hist>>

\* An error from a save ends the operation; the copies keep the change.
SaveError(p) ==
    /\ SaveFails /\ pc[p] \in {"save_packages", "save_files", "save_hold"}
    /\ Unlock(p) /\ UNCHANGED <<disk, copy, committed>>

\* hold and unhold flip one record in memory,
Hold(p, q) ==
    /\ At(p, "locked") /\ mPackages[p][q] # "absent"
    /\ \E flag \in {"present", "held"} : mPackages' = [mPackages EXCEPT ![p][q] = flag]
    /\ target' = [target EXCEPT ![p] = {q}]
    /\ Goto(p, "save_hold")
    /\ UNCHANGED <<lockFile, disk, mFiles, hist>>

\* save InstalledDb only, and return.
SaveHold(p) ==
    /\ At(p, "save_hold")
    /\ dPackages' = mPackages[p]
    /\ committed' = [q \in Package |-> IF q \in target[p] THEN mPackages[p][q]
                                       ELSE committed[q]]
    /\ Unlock(p) /\ UNCHANGED <<dFiles, copy>>

\* The operation returns, with success or an error before its next change.
Release(p) ==
    /\ At(p, "locked") /\ Unlock(p)
    /\ UNCHANGED <<disk, copy, committed>>

\* No destructor runs: the lock file, if the process made it, stays.
Crash(p) ==
    /\ pc[p] \in CrashAt \ {"closed"} /\ Gone(p)
    /\ UNCHANGED <<lockFile, disk, committed>>

\* The recovery the Locked error asks for: an administrator who has made sure
\* that no operation is running deletes the file it names.
RemoveStaleLock ==
    /\ lockFile /\ \A p \in Proc : pc[p] \notin Critical
    /\ lockFile' = FALSE
    /\ UNCHANGED <<disk, pc, copy, target, hist>>

Operation(p) ==
    \/ Release(p) \/ SavePackages(p) \/ SaveFiles(p) \/ SaveHold(p) \/ SaveError(p)
    \/ \E q \in Package : Change(p, q) \/ Hold(p, q)
ProcStep(p) ==
    OpenPackages(p) \/ OpenFiles(p) \/ Acquire(p) \/ Close(p) \/ Operation(p) \/ Crash(p)
Next == RemoveStaleLock \/ \E p \in Proc : ProcStep(p)

Spec == Init /\ [][Next]_vars

(***************************************************************************)
(* Properties                                                              *)
(***************************************************************************)
\* At most one process is inside an operation, and then the lock file exists:
\* neither a crash nor the removal of a stale file lets a second one in.
MutualExclusion ==
    \A p \in Proc : pc[p] \in Critical =>
        lockFile /\ \A o \in Proc \ {p} : pc[o] \notin Critical

\* What is on disk is what operations wrote on purpose: "two concurrent runs
\* can't corrupt each other's writes".
NoLostUpdate == dPackages = committed

\* The lock does its part: an operation that took the lock with current
\* copies writes the packages of its own transactions and no others.
FreshWritesOwnRecordOnly ==
    [][\A p \in Proc : fresh[p] /\ (SavePackages(p) \/ SaveFiles(p) \/ SaveHold(p)) =>
         \A q \in Package \ target[p] :
            dPackages'[q] = dPackages[q] /\ (q \in dFiles' <=> q \in dFiles)]_vars

\* Both databases name the same packages whenever no operation is running.
RestAgrees ==
    (\A p \in Proc : pc[p] \notin Critical) => dFiles = Owning(dPackages)
=============================================================================
