-------------------------- MODULE ServiceLockProofs --------------------------
(***************************************************************************)
(* Mutual exclusion of the lock file, for any number of processes, crashes *)
(* anywhere and failing saves.                                             *)
(***************************************************************************)
EXTENDS ServiceLock, TLAPS

\* Where processes are, which is all the lock depends on.
Typed == pc \in [Proc -> Place] /\ lockFile \in BOOLEAN
LockInv == Typed /\ MutualExclusion

\* A process that leaves its operation and deletes the lock file was the only
\* one inside.
LEMMA UnlockSafe ==
    ASSUME LockInv, NEW p \in Proc, pc[p] \in Critical, Unlock(p)
    PROVE  LockInv'
BY DEF LockInv, Typed, MutualExclusion, Unlock, Goto, Place, Critical

\* A process that moves on without touching the lock file, and is not let
\* into an operation by that, changes nothing about who is inside.
LEMMA MoveSafe ==
    ASSUME LockInv, NEW p \in Proc, NEW place \in Place, UNCHANGED lockFile,
           pc' = [pc EXCEPT ![p] = place], place \in Critical => pc[p] \in Critical
    PROVE  LockInv'
BY DEF LockInv, Typed, MutualExclusion

\* Never two processes inside an operation, and never one without the file:
\* create_new admits one, only the one inside deletes the file, a crash leaves
\* it, and an administrator deletes it only when nobody is inside.
THEOREM LockExcludes == Spec => []MutualExclusion
<1>1. Init => LockInv
  BY DEF Init, LockInv, Typed, MutualExclusion, Place, Critical
<1>2. LockInv /\ [Next]_vars => LockInv'
  <2> SUFFICES ASSUME LockInv, [Next]_vars PROVE LockInv'
    OBVIOUS
  <2>1. ASSUME NEW p \in Proc, Acquire(p) PROVE LockInv'
    BY <2>1 DEF Acquire, Goto, LockInv, Typed, MutualExclusion, Place, Critical
  <2>2. ASSUME NEW p \in Proc, OpenPackages(p) \/ OpenFiles(p) PROVE LockInv'
    BY <2>2, MoveSafe DEF OpenPackages, OpenFiles, Goto, Place, Critical
  <2>3. ASSUME NEW p \in Proc, Close(p) \/ Crash(p) PROVE LockInv'
    BY <2>3, MoveSafe DEF Close, Crash, Gone, Goto, Place, Critical
  <2>4. ASSUME NEW p \in Proc, NEW q \in Package, Change(p, q) \/ Hold(p, q) PROVE LockInv'
    BY <2>4, MoveSafe DEF Change, Hold, At, Goto, Place, Critical
  <2>5. ASSUME NEW p \in Proc, SavePackages(p) \/ SaveFiles(p) PROVE LockInv'
    BY <2>5, MoveSafe DEF SavePackages, SaveFiles, At, Goto, Place, Critical
  <2>6. ASSUME NEW p \in Proc, Release(p) \/ SaveError(p) PROVE LockInv'
    BY <2>6, UnlockSafe DEF Release, SaveError, At, Critical
  <2>7. ASSUME NEW p \in Proc, SaveHold(p) PROVE LockInv'
    BY <2>7, UnlockSafe DEF SaveHold, At, Critical
  <2>8. CASE RemoveStaleLock
    BY <2>8 DEF RemoveStaleLock, LockInv, Typed, MutualExclusion
  <2>9. CASE UNCHANGED vars
    BY <2>9 DEF vars, LockInv, Typed, MutualExclusion
  <2> QED
    BY <2>1, <2>2, <2>3, <2>4, <2>5, <2>6, <2>7, <2>8, <2>9 DEF Next, ProcStep, Operation
<1>3. LockInv => MutualExclusion
  BY DEF LockInv
<1> QED BY <1>1, <1>2, <1>3, PTL DEF Spec

\* The initial state and every step are well typed.
THEOREM TypeCorrect == Spec => []TypeOK
<1>0. Nothing \in Records
  BY DEF Nothing, Records, Record
<1>1. Init => TypeOK
  BY <1>0 DEF Init, TypeOK, Place, Critical
<1>2. TypeOK /\ [Next]_vars => TypeOK'
  <2> SUFFICES ASSUME TypeOK, [Next]_vars PROVE TypeOK'
    OBVIOUS
  <2> USE DEF TypeOK, Place, Critical, disk, copy, hist, At, Goto
  <2>1. ASSUME NEW p \in Proc, OpenPackages(p) \/ OpenFiles(p) PROVE TypeOK'
    BY <2>1 DEF OpenPackages, OpenFiles
  <2>2. ASSUME NEW p \in Proc, Acquire(p) PROVE TypeOK'
    <3>1. PICK current \in BOOLEAN : fresh' = [fresh EXCEPT ![p] = current]
      BY <2>2 DEF Acquire
    <3>2. /\ pc' = [pc EXCEPT ![p] = "locked"] /\ lockFile' = TRUE
          /\ UNCHANGED <<disk, copy, target, committed>>
      BY <2>2 DEF Acquire
    <3>3. fresh' \in [Proc -> BOOLEAN]
      BY <3>1
    <3>4. \A o \in Proc : pc'[o] \notin Critical => target'[o] = {} /\ ~fresh'[o]
      <4>1. \A o \in Proc : o # p => fresh'[o] = fresh[o] /\ pc'[o] = pc[o]
        BY <3>1, <3>2
      <4>2. pc'[p] \in Critical
        BY <3>2
      <4> QED BY <3>2, <4>1, <4>2
    <3>5. lockFile' \in BOOLEAN /\ pc' \in [Proc -> Place]
      BY <3>2
    <3> HIDE DEF Place, Critical
    <3> QED BY <3>2, <3>3, <3>4, <3>5
  <2>3. ASSUME NEW p \in Proc, Close(p) \/ Crash(p) PROVE TypeOK'
    <3>1. Gone(p) /\ UNCHANGED <<lockFile, disk, committed>>
      BY <2>3 DEF Close, Crash
    <3>2. /\ pc' \in [Proc -> Place] /\ mPackages' \in [Proc -> Records]
          /\ mFiles' \in [Proc -> SUBSET Package] /\ target' \in [Proc -> SUBSET Package]
      BY <1>0, <3>1 DEF Gone
    <3>3. fresh' \in [Proc -> BOOLEAN]
      BY <3>1 DEF Gone
    <3>4. \A o \in Proc : pc'[o] \notin Critical => target'[o] = {} /\ ~fresh'[o]
      BY <3>1 DEF Gone
    <3> HIDE DEF Place, Critical
    <3> QED BY <3>1, <3>2, <3>3, <3>4
  <2>4. ASSUME NEW p \in Proc, NEW q \in Package, Change(p, q) PROVE TypeOK'
    <3>1. PICK flag \in Record : mPackages' = [mPackages EXCEPT ![p][q] = flag]
      BY <2>4 DEF Change, Record
    <3>2. [mPackages[p] EXCEPT ![q] = flag] \in Records
      BY DEF Records
    <3>3. mPackages' \in [Proc -> Records]
      BY <3>1, <3>2
    <3> QED BY <2>4, <3>3 DEF Change
  <2>5. ASSUME NEW p \in Proc, SavePackages(p) PROVE TypeOK'
    <3>1. committed' \in Records
      BY <2>5 DEF SavePackages, Records
    <3> QED BY <2>5, <3>1 DEF SavePackages
  <2>6. ASSUME NEW p \in Proc, SaveFiles(p) PROVE TypeOK'
    BY <2>6 DEF SaveFiles
  <2>7. ASSUME NEW p \in Proc, Release(p) \/ SaveError(p) PROVE TypeOK'
    BY <2>7 DEF Release, SaveError, Unlock
  <2>8. ASSUME NEW p \in Proc, NEW q \in Package, Hold(p, q) PROVE TypeOK'
    <3>1. PICK flag \in Record : mPackages' = [mPackages EXCEPT ![p][q] = flag]
      BY <2>8 DEF Hold, Record
    <3>2. [mPackages[p] EXCEPT ![q] = flag] \in Records
      BY DEF Records
    <3>3. mPackages' \in [Proc -> Records]
      BY <3>1, <3>2
    <3> QED BY <2>8, <3>3 DEF Hold
  <2>9. ASSUME NEW p \in Proc, SaveHold(p) PROVE TypeOK'
    <3>1. committed' \in Records
      BY <2>9 DEF SaveHold, Records
    <3> QED BY <2>9, <3>1 DEF SaveHold, Unlock
  <2>10. CASE RemoveStaleLock \/ UNCHANGED vars
    BY <2>10 DEF RemoveStaleLock, vars
  <2> QED
    BY <2>1, <2>2, <2>3, <2>4, <2>5, <2>6, <2>7, <2>8, <2>9, <2>10 DEF Next, ProcStep, Operation
<1> QED BY <1>1, <1>2, PTL DEF Spec

(***************************************************************************)
(* What a save writes.  While an operation that began with current copies  *)
(* runs, its copies and the disk differ in its own target at most.         *)
(***************************************************************************)
SameBut(records, files, p) ==
    \A q \in Package \ target[p] :
        records[q] = dPackages[q] /\ (q \in files <=> q \in dFiles)
InStep ==
    \A p \in Proc : fresh[p] =>
        /\ pc[p] = "locked" => mPackages[p] = dPackages /\ mFiles[p] = dFiles
        /\ pc[p] \in {"save_packages", "save_hold"} => SameBut(mPackages[p], mFiles[p], p)
        /\ pc[p] = "save_files" => mPackages[p] = dPackages /\ SameBut(mPackages[p], mFiles[p], p)

\* Nobody else writes a database while an operation runs.
LEMMA InStepKept ==
    ASSUME TypeOK, MutualExclusion, InStep, [Next]_vars PROVE InStep'
<1> USE DEF disk, copy, hist, At, Goto
<1>0. \A o, p \in Proc : pc[o] \in Critical /\ fresh[p] => p = o
  BY DEF MutualExclusion, TypeOK
<1>1. ASSUME NEW o \in Proc, OpenPackages(o) \/ OpenFiles(o) PROVE InStep'
  BY <1>1 DEF OpenPackages, OpenFiles, InStep, SameBut, TypeOK, Critical
<1>2. ASSUME NEW o \in Proc, Acquire(o) PROVE InStep'
  BY <1>2 DEF Acquire, InStep, SameBut, TypeOK
<1>3. ASSUME NEW o \in Proc, Close(o) \/ Crash(o) PROVE InStep'
  BY <1>3 DEF Close, Crash, Gone, InStep, SameBut, TypeOK
<1>4. ASSUME NEW o \in Proc, NEW n \in Package, Change(o, n) PROVE InStep'
  <2>1. pc[o] = "locked" /\ pc' = [pc EXCEPT ![o] = "save_packages"]
        /\ target' = [target EXCEPT ![o] = {n}] /\ UNCHANGED <<dPackages, dFiles, fresh>>
    BY <1>4 DEF Change
  <2>2. \A p \in Proc : fresh[p] => p = o
    BY <1>0, <2>1 DEF Critical
  <2>3. \A q \in Package \ {n} : /\ mPackages'[o][q] = mPackages[o][q]
                                 /\ q \in mFiles'[o] <=> q \in mFiles[o]
    BY <1>4 DEF Change, TypeOK, Records
  <2>4. fresh[o] => mPackages[o] = dPackages /\ mFiles[o] = dFiles
    BY <2>1 DEF InStep
  <2>5. target'[o] = {n} /\ pc'[o] = "save_packages"
    BY <2>1 DEF TypeOK
  <2> QED BY <2>1, <2>2, <2>3, <2>4, <2>5 DEF InStep, SameBut
<1>5. ASSUME NEW o \in Proc, SavePackages(o) PROVE InStep'
  <2>1. \A p \in Proc : fresh[p] => p = o
    BY <1>0, <1>5 DEF SavePackages, Critical
  <2>2. /\ pc[o] = "save_packages" /\ pc'[o] = "save_files" /\ dPackages' = mPackages[o]
        /\ UNCHANGED <<dFiles, mPackages, mFiles, target, fresh>>
    BY <1>5 DEF SavePackages, TypeOK
  <2> QED BY <2>1, <2>2 DEF InStep, SameBut
<1>6. ASSUME NEW o \in Proc, SaveFiles(o) PROVE InStep'
  <2>1. \A p \in Proc : fresh[p] => p = o
    BY <1>0, <1>6 DEF SaveFiles, Critical
  <2>2. /\ pc[o] = "save_files" /\ pc'[o] = "locked" /\ dFiles' = mFiles[o]
        /\ UNCHANGED <<dPackages, mPackages, mFiles, fresh>>
    BY <1>6 DEF SaveFiles, TypeOK
  <2> QED BY <2>1, <2>2 DEF InStep
<1>7. ASSUME NEW o \in Proc, Release(o) \/ SaveError(o) PROVE InStep'
  BY <1>7 DEF Release, SaveError, Unlock, InStep, SameBut, TypeOK
<1>8. ASSUME NEW o \in Proc, NEW n \in Package, Hold(o, n) PROVE InStep'
  <2>1. pc[o] = "locked" /\ pc' = [pc EXCEPT ![o] = "save_hold"]
        /\ target' = [target EXCEPT ![o] = {n}] /\ UNCHANGED <<dPackages, dFiles, mFiles, fresh>>
    BY <1>8 DEF Hold
  <2>2. \A p \in Proc : fresh[p] => p = o
    BY <1>0, <2>1 DEF Critical
  <2>3. \A q \in Package \ {n} : mPackages'[o][q] = mPackages[o][q]
    BY <1>8 DEF Hold, TypeOK, Records
  <2>4. fresh[o] => mPackages[o] = dPackages /\ mFiles[o] = dFiles
    BY <2>1 DEF InStep
  <2>5. target'[o] = {n} /\ pc'[o] = "save_hold"
    BY <2>1 DEF TypeOK
  <2> QED BY <2>1, <2>2, <2>3, <2>4, <2>5 DEF InStep, SameBut
<1>9. ASSUME NEW o \in Proc, SaveHold(o) PROVE InStep'
  <2>1. \A p \in Proc : fresh[p] => p = o
    BY <1>0, <1>9 DEF SaveHold, Critical
  <2>2. ~fresh'[o] /\ \A p \in Proc : p # o => fresh'[p] = fresh[p]
    BY <1>9 DEF SaveHold, Unlock, TypeOK
  <2> QED BY <2>1, <2>2 DEF InStep
<1>10. CASE RemoveStaleLock \/ UNCHANGED vars
  BY <1>10 DEF RemoveStaleLock, vars, InStep, SameBut
<1> QED
  BY <1>1, <1>2, <1>3, <1>4, <1>5, <1>6, <1>7, <1>8, <1>9, <1>10 DEF Next, ProcStep, Operation

\* An operation that took the lock with current copies never writes another
\* package's record, however many transactions, failed saves, crashes and
\* other processes come before: what is lost is lost to copies that were stale.
THEOREM FreshWritesOwn == Spec => FreshWritesOwnRecordOnly
<1>1. Init => InStep
  BY DEF Init, InStep
<1>2. TypeOK /\ MutualExclusion /\ InStep /\ [Next]_vars => InStep'
  BY InStepKept
<1>3. InStep /\ [Next]_vars =>
        [\A p \in Proc : fresh[p] /\ (SavePackages(p) \/ SaveFiles(p) \/ SaveHold(p)) =>
           \A q \in Package \ target[p] :
              dPackages'[q] = dPackages[q] /\ (q \in dFiles' <=> q \in dFiles)]_vars
  BY DEF InStep, SameBut, SavePackages, SaveFiles, SaveHold, At
<1> QED
  BY <1>1, <1>2, <1>3, TypeCorrect, LockExcludes, PTL DEF Spec, FreshWritesOwnRecordOnly
=============================================================================
