-------------------------- MODULE TransactionProofs --------------------------
(***************************************************************************)
(* Proofs about Transaction, for every set of packages, files and archives *)
(* and every choice of failing calls that the theorem's hypothesis admits: *)
(* SavesComplete, GapsClosed or Reversible.  The configurations            *)
(* TxSaveFails, TxRestoreFails and TxForeign show what goes wrong without  *)
(* them.                                                                   *)
(***************************************************************************)
EXTENDS Transaction, TLAPS

(***************************************************************************)
(* Type correctness.                                                       *)
(***************************************************************************)
\* Archives ship sets of files.
LEMMA PayloadType ==
    ASSUME NEW p \in Package, NEW files \in Payload[p]
    PROVE  files \subseteq File
BY PayloadAssumption

\* Every step of Transaction::install and ::remove, every failure and every
\* crash leaves each variable within its type; in particular the loops only
\* ever handle paths of the archive or record they started from.
THEOREM TypeCorrect == Spec => []TypeOK
<1>1. Init => TypeOK
  BY DEF Init, TypeOK, Bytes, NoBackup
<1>2. TypeOK /\ [Next]_vars => TypeOK'
  <2> SUFFICES ASSUME TypeOK, [Next]_vars PROVE TypeOK'
    OBVIOUS
  <2> USE NoneAssumption DEF TypeOK, Bytes, Steps, InstallSteps, RemoveSteps, SaveSteps,
                             mem, disk, hist
  <2>1. ASSUME NEW p \in Package, BeginRemove(p) PROVE TypeOK'
    <3>1. packages[p] \in SUBSET File
      BY <2>1 DEF BeginRemove
    <3> QED BY <2>1, <3>1 DEF BeginRemove, Begin
  <2>2. ASSUME NEW p \in Package, NEW files \in SUBSET File, BeginInstall(p, files)
        PROVE  TypeOK'
    BY <2>2 DEF BeginInstall, Begin
  <2>3. CASE Extract
    BY <2>3 DEF Extract, Goto, Return
  <2>4. CASE Check
    BY <2>4 DEF Check, Goto, Return, DropStaging
  <2>5. CASE PreInstall
    BY <2>5 DEF PreInstall, Goto, Return, DropStaging
  <2>6. ASSUME NEW f \in File, ActivateFile(f) PROVE TypeOK'
    BY <2>6 DEF ActivateFile, Goto
  <2>7. CASE ActivateFails
    BY <2>7 DEF ActivateFails, Goto
  <2>8. CASE ActivateDone
    BY <2>8 DEF ActivateDone, Goto, DropStaging
  <2>9. CASE PostInstall
    BY <2>9 DEF PostInstall, Goto
  <2>10. ASSUME NEW f \in File, UndoInstallFile(f) PROVE TypeOK'
    BY <2>10 DEF UndoInstallFile, Goto
  <2>11. CASE UndoInstallDone
    BY <2>11 DEF UndoInstallDone, Return, DropStaging
  <2>12. CASE Claim
    BY <2>12 DEF Claim, Goto
  <2>13. CASE PreRemove
    BY <2>13 DEF PreRemove, Goto, Return
  <2>14. ASSUME NEW f \in File, BackupFile(f) PROVE TypeOK'
    <3>1. cur \in Package /\ backup[cur] \in [File -> Bytes] /\ root[f] \in Bytes
      BY <2>14 DEF BackupFile
    <3>2. /\ root' \in [File -> Bytes]
          /\ backup' \in [Package -> [File -> Bytes]]
      BY <2>14, <3>1 DEF BackupFile
    <3> QED BY <2>14, <3>1, <3>2 DEF BackupFile, Goto
  <2>15. CASE BackupFails
    BY <2>15 DEF BackupFails, Goto
  <2>16. CASE BackupDone
    BY <2>16 DEF BackupDone, Goto
  <2>17. ASSUME NEW f \in File, UndoRemovalFile(f) PROVE TypeOK'
    <3>1. cur \in Package /\ backup[cur] \in [File -> Bytes] /\ backup[cur][f] \in Bytes
      BY <2>17 DEF UndoRemovalFile
    <3>2. /\ root' \in [File -> Bytes]
          /\ backup' \in [Package -> [File -> Bytes]]
      <4>1. CASE backup[cur][f] = None
        BY <2>17, <3>1, <4>1 DEF UndoRemovalFile
      <4>2. CASE backup[cur][f] # None
        <5>1. [backup[cur] EXCEPT ![f] = None] \in [File -> Bytes]
          BY <3>1
        <5>2. root' = [root EXCEPT ![f] = backup[cur][f]]
          BY <2>17, <4>2 DEF UndoRemovalFile
        <5>3. backup' = [backup EXCEPT ![cur] = [backup[cur] EXCEPT ![f] = None]]
          BY <2>17, <4>2, Zenon DEF UndoRemovalFile
        <5> QED BY <3>1, <5>1, <5>2, <5>3
      <4> QED BY <4>1, <4>2
    <3>3. /\ UNCHANGED <<staging, packages, owners, dPackages, dOwners, cur, written, outcome>>
          /\ pc' = "undo_removal" /\ todo' \subseteq todo
      BY <2>17 DEF UndoRemovalFile, Goto
    <3> QED BY <3>1, <3>2, <3>3
  <2>18. CASE UndoRemovalEnds
    BY <2>18 DEF UndoRemovalEnds, Return, DropBackup, NoBackup
  <2>19. CASE PostRemove
    BY <2>19 DEF PostRemove, Goto, DropBackup, NoBackup
  <2>20. CASE Release
    BY <2>20 DEF Release, Goto
  <2>21. CASE SaveStep
    BY <2>21 DEF SaveStep, SavePackages, SaveFiles, Goto, Return
  <2>22. CASE Reopen
    BY <2>22 DEF Reopen
  <2>23. CASE UNCHANGED vars
    BY <2>23 DEF vars
  <2> QED
    BY <2>1, <2>2, <2>3, <2>4, <2>5, <2>6, <2>7, <2>8, <2>9, <2>10, <2>11, <2>12, <2>13,
       <2>14, <2>15, <2>16, <2>17, <2>18, <2>19, <2>20, <2>21, <2>22, <2>23
       DEF Next, BeginTransaction, Step, InstallStep, RemoveStep
<1> QED
  BY <1>1, <1>2, PTL DEF Spec

(***************************************************************************)
(* The databases agree.                                                    *)
(***************************************************************************)
SavesComplete == "save" \notin Faults /\ "save_files" \notin CrashAt

Checked == {"pre_install", "activate", "post_install", "undo_install", "claim"}

\* DatabasesAgree is not inductive: that claim() keeps the owners in step
\* needs the conflict check to hold still when it is acted on, that release()
\* does needs the record it works from to be the current one, and that a new
\* process starts well needs the disk to lag behind memory only in a save.
\* Everything but the last needs no assumption on failures.
IInv ==
    /\ TypeOK
    /\ Agree(packages, owners)
    /\ pc \in InstallSteps => packages[cur] = None
    /\ pc \in Checked => NoConflict(written, cur)
    /\ pc \in RemoveSteps => packages[cur] = written
    /\ pc = "save_packages" => Agree(dPackages, dOwners)
    /\ pc = "save_files" => dPackages = packages
    /\ pc \notin SaveSteps => dPackages = packages /\ dOwners = owners

\* claim() and insert() record in one step what FileDb and InstalledDb say of
\* a package that was not installed and whose files have no other owner.
LEMMA ClaimAgrees ==
    ASSUME IInv, Claim PROVE Agree(packages', owners')
<1>1. cur \in Package /\ packages[cur] = None /\ NoConflict(written, cur) /\ written # None
  BY NoneAssumption DEF IInv, Claim, TypeOK, InstallSteps, Checked
<1>2. \A f \in written : owners[f] = None
  BY <1>1 DEF IInv, TypeOK, NoConflict, Agree
<1>3. /\ \A f \in File : owners'[f] = IF f \in written THEN cur ELSE owners[f]
      /\ \A p \in Package : packages'[p] = IF p = cur THEN written ELSE packages[p]
  BY <1>1 DEF Claim, IInv, TypeOK
<1> QED BY <1>1, <1>2, <1>3, NoneAssumption DEF Agree, IInv, TypeOK

\* release() and remove() forget one package: exactly its files lose their owner.
LEMMA ReleaseAgrees ==
    ASSUME IInv, Release PROVE Agree(packages', owners')
<1>1. cur \in Package /\ packages[cur] = written /\ written # None
  BY NoneAssumption DEF IInv, Release, TypeOK, RemoveSteps
<1>2. \A f \in File : f \in written <=> owners[f] = cur
  BY <1>1 DEF IInv, Agree
<1>3. /\ \A f \in File : owners'[f] = IF f \in written THEN None ELSE owners[f]
      /\ \A p \in Package : packages'[p] = IF p = cur THEN None ELSE packages[p]
  BY <1>1 DEF Release, IInv, TypeOK
<1> QED BY <1>1, <1>2, <1>3, NoneAssumption DEF Agree, IInv, TypeOK

\* The inductive invariant behind DatabasesAgree and OthersUntouched.
THEOREM Inductive == SavesComplete => (Spec => []IInv)
<1> SUFFICES ASSUME SavesComplete PROVE Spec => []IInv
  OBVIOUS
<1> USE NoneAssumption DEF InstallSteps, RemoveSteps, SaveSteps, Checked, mem, disk, hist
<1>1. Init => IInv
  <2> SUFFICES ASSUME Init PROVE IInv
    OBVIOUS
  <2>1. TypeOK
    BY DEF Init, TypeOK, Bytes, NoBackup
  <2> QED BY <2>1 DEF Init, IInv, Agree
<1>2. IInv /\ [Next]_vars /\ TypeOK' => IInv'
  <2> SUFFICES ASSUME IInv, [Next]_vars, TypeOK' PROVE IInv'
    OBVIOUS
  <2> USE DEF IInv
  <2>1. ASSUME NEW p \in Package, BeginRemove(p) PROVE IInv'
    BY <2>1 DEF BeginRemove, Begin, Agree
  <2>2. ASSUME NEW p \in Package, NEW files \in SUBSET File, BeginInstall(p, files)
        PROVE  IInv'
    BY <2>2 DEF BeginInstall, Begin, Agree
  <2>3. CASE Extract
    BY <2>3 DEF Extract, Goto, Return, Agree
  <2>4. CASE Check
    BY <2>4 DEF Check, Goto, Return, DropStaging, Agree, NoConflict
  <2>5. CASE PreInstall
    BY <2>5 DEF PreInstall, Goto, Return, DropStaging, Agree, NoConflict
  <2>6. ASSUME NEW f \in File, ActivateFile(f) PROVE IInv'
    BY <2>6 DEF ActivateFile, Goto, Agree, NoConflict
  <2>7. CASE ActivateFails
    BY <2>7 DEF ActivateFails, Goto, Agree, NoConflict
  <2>8. CASE ActivateDone
    BY <2>8 DEF ActivateDone, Goto, DropStaging, Agree, NoConflict
  <2>9. CASE PostInstall
    BY <2>9 DEF PostInstall, Goto, Agree, NoConflict
  <2>10. ASSUME NEW f \in File, UndoInstallFile(f) PROVE IInv'
    BY <2>10 DEF UndoInstallFile, Goto, Agree, NoConflict
  <2>11. CASE UndoInstallDone
    BY <2>11 DEF UndoInstallDone, Return, DropStaging, Agree
  <2>12. CASE Claim
    <3>1. Agree(packages', owners')
      BY <2>12, ClaimAgrees
    <3>2. Agree(dPackages, dOwners)
      BY <2>12 DEF Claim
    <3> QED BY <2>12, <3>1, <3>2 DEF Claim, Goto, Agree
  <2>13. CASE PreRemove
    BY <2>13 DEF PreRemove, Goto, Return, Agree
  <2>14. ASSUME NEW f \in File, BackupFile(f) PROVE IInv'
    BY <2>14 DEF BackupFile, Goto, Agree
  <2>15. CASE BackupFails
    BY <2>15 DEF BackupFails, Goto, Agree
  <2>16. CASE BackupDone
    BY <2>16 DEF BackupDone, Goto, Agree
  <2>17. ASSUME NEW f \in File, UndoRemovalFile(f) PROVE IInv'
    BY <2>17 DEF UndoRemovalFile, Goto, Agree
  <2>18. CASE UndoRemovalEnds
    BY <2>18 DEF UndoRemovalEnds, Return, DropBackup, Agree
  <2>19. CASE PostRemove
    BY <2>19 DEF PostRemove, Goto, DropBackup, Agree
  <2>20. CASE Release
    <3>1. Agree(packages', owners')
      BY <2>20, ReleaseAgrees
    <3>2. Agree(dPackages, dOwners)
      BY <2>20 DEF Release
    <3> QED BY <2>20, <3>1, <3>2 DEF Release, Goto, Agree
  <2>21. CASE SaveStep
    BY <2>21 DEF SaveStep, SavePackages, SaveFiles, CanFail, SavesComplete, Goto, Return, Agree
  <2>22. CASE Reopen
    BY <2>22 DEF Reopen, SavesComplete, Agree
  <2>23. CASE UNCHANGED vars
    BY <2>23 DEF vars, Agree, NoConflict
  <2> QED
    BY <2>1, <2>2, <2>3, <2>4, <2>5, <2>6, <2>7, <2>8, <2>9, <2>10, <2>11, <2>12, <2>13,
       <2>14, <2>15, <2>16, <2>17, <2>18, <2>19, <2>20, <2>21, <2>22, <2>23
       DEF Next, BeginTransaction, Step, InstallStep, RemoveStep
<1> QED
  BY <1>1, <1>2, TypeCorrect, PTL DEF Spec

\* FileDb stays the inverse of InstalledDb in memory, and on disk outside the
\* two saves, whatever hooks, renames, extraction or undo do, and across
\* crashes anywhere but between the saves.
THEOREM DatabasesStayInStep == SavesComplete => (Spec => []DatabasesAgree)
<1>1. IInv => DatabasesAgree
  BY DEF IInv, DatabasesAgree, SaveSteps
<1> QED BY <1>1, Inductive, PTL

\* An install, a removal or a rollback of either never writes, moves or
\* deletes a file that FileDb gives to another package.
THEOREM OthersStayUntouched == SavesComplete => (Spec => OthersUntouched)
<1> SUFFICES ASSUME SavesComplete PROVE Spec => OthersUntouched
  OBVIOUS
<1>1. IInv /\ [Next]_vars =>
        [\A f \in File : owners[f] \notin {None, cur} => root'[f] = root[f]]_vars
  <2> SUFFICES ASSUME IInv, Next, NEW f \in File, owners[f] \notin {None, cur}
               PROVE  root'[f] = root[f]
    BY DEF vars
  <2>0. root \in [File -> Bytes]
    BY DEF IInv, TypeOK
  <2>1. ASSUME pc \in Checked PROVE f \notin written
    BY <2>1 DEF IInv, NoConflict
  <2>2. ASSUME pc \in RemoveSteps PROVE f \notin written
    BY <2>2, NoneAssumption DEF IInv, TypeOK, Agree, RemoveSteps, Steps
  <2>3. todo \subseteq written
    BY DEF IInv, TypeOK
  <2>4. ASSUME NEW g \in File, ActivateFile(g) PROVE root'[f] = root[f]
    BY <2>0, <2>1, <2>3, <2>4 DEF ActivateFile, Checked
  <2>5. ASSUME NEW g \in File, UndoInstallFile(g) PROVE root'[f] = root[f]
    BY <2>0, <2>1, <2>3, <2>5 DEF UndoInstallFile, Checked
  <2>6. ASSUME NEW g \in File, BackupFile(g) PROVE root'[f] = root[f]
    BY <2>0, <2>2, <2>3, <2>6 DEF BackupFile, RemoveSteps
  <2>7. ASSUME NEW g \in File, UndoRemovalFile(g) PROVE root'[f] = root[f]
    BY <2>0, <2>2, <2>3, <2>7 DEF UndoRemovalFile, RemoveSteps
  <2> QED
    BY <2>4, <2>5, <2>6, <2>7
       DEF Next, BeginTransaction, BeginRemove, BeginInstall, Step, InstallStep, RemoveStep,
           SaveStep, Extract, Check, PreInstall, ActivateFails, ActivateDone, PostInstall,
           UndoInstallDone, Claim, PreRemove, BackupFails, BackupDone, UndoRemovalEnds,
           PostRemove, Release, SavePackages, SaveFiles, Reopen
<1> QED BY <1>1, Inductive, PTL DEF Spec, OthersUntouched

(***************************************************************************)
(* What a transaction that returned success wrote.                         *)
(***************************************************************************)
\* When FileDb is saved InstalledDb has been, and success is returned only then.
PersistInv ==
    /\ TypeOK
    /\ pc = "save_files" => dPackages = packages
    /\ outcome = "ok" => pc = "idle" /\ packages = dPackages /\ owners = dOwners

\* A transaction that returned success has both its databases on disk: for any
\* failing calls and crashes anywhere, between the two saves too.
THEOREM SuccessIsPersisted == Spec => []SuccessPersisted
<1>1. Init => PersistInv
  BY DEF Init, PersistInv, TypeOK, Bytes, NoBackup
<1>2. PersistInv /\ [Next]_vars /\ TypeOK' => PersistInv'
  <2> SUFFICES ASSUME PersistInv, [Next]_vars, TypeOK' PROVE PersistInv'
    OBVIOUS
  <2> USE DEF PersistInv, mem, disk, hist
  <2>1. CASE BeginTransaction
    BY <2>1 DEF BeginTransaction, BeginRemove, BeginInstall, Begin
  <2>2. CASE InstallStep
    BY <2>2 DEF InstallStep, Extract, Check, PreInstall, ActivateFile, ActivateFails, ActivateDone,
                PostInstall, UndoInstallFile, UndoInstallDone, Claim, Goto, Return
  <2>3. CASE RemoveStep
    BY <2>3 DEF RemoveStep, PreRemove, BackupFile, BackupFails, BackupDone, UndoRemovalFile,
                UndoRemovalEnds, PostRemove, Release, Goto, Return
  <2>4. CASE SaveStep
    BY <2>4 DEF SaveStep, SavePackages, SaveFiles, Goto, Return
  <2>5. CASE Reopen
    BY <2>5 DEF Reopen
  <2>6. CASE UNCHANGED vars
    BY <2>6 DEF vars
  <2> QED BY <2>1, <2>2, <2>3, <2>4, <2>5, <2>6 DEF Next, Step
<1>3. PersistInv => SuccessPersisted
  BY DEF PersistInv, SuccessPersisted
<1> QED BY <1>1, <1>2, <1>3, TypeCorrect, PTL DEF Spec

(***************************************************************************)
(* Recorded files can still be found.                                      *)
(***************************************************************************)
\* Saves and restores do not fail, and no crash falls between a removal's
\* giving up its backup and the end of the saves.
GapsClosed ==
    /\ {"save", "restore"} \cap Faults = {}
    /\ CrashAt \cap {"release", "save_packages", "save_files"} = {}

\* The file is in the install root, or has left it for p's backup.
Kept(p, f) == root[f] = p \/ (root[f] = None /\ backup[p][f] = p)
Committing(p) == cur = p /\ pc \in {"release", "save_packages"}

\* A backup, also one that a crash has left behind, holds p's own files only,
\* so that nothing is lost by moving another one there nor by moving it back;
\* and the loops have done with the files they no longer have to do.
KeptInv ==
    /\ \A p \in Package, f \in File : backup[p][f] \in {None, p}
    /\ \A p \in Package : dPackages[p] # None /\ ~Committing(p) =>
          \A f \in dPackages[p] : Kept(p, f)
    /\ pc = "activate" => \A f \in written \ todo : root[f] = cur
    /\ pc \in {"post_install", "claim"} => \A f \in written : root[f] = cur
    /\ pc \in SaveSteps /\ packages[cur] # None =>
          packages[cur] = written /\ \A f \in written : root[f] = cur
    /\ pc = "save_packages" => \A p \in Package \ {cur} : packages[p] = dPackages[p]
    /\ pc = "undo_removal" => \A f \in written \ todo : root[f] = cur

\* Steps that leave files, backups, records and what the loops have done alone.
LEMMA KeptElsewhere ==
    ASSUME TypeOK, TypeOK', KeptInv, UNCHANGED <<root, backup, dPackages, packages>>,
           \/ pc' = "idle" /\ ~(pc \in {"release", "save_packages"})
           \/ /\ pc' \notin {"idle", "activate", "post_install", "claim", "undo_removal"} \cup SaveSteps
              /\ pc \notin {"release", "save_packages"} /\ (pc = "idle" \/ cur' = cur)
           \/ pc = pc' /\ UNCHANGED <<cur, written, todo>>
    PROVE  KeptInv'
<1> USE DEF TypeOK, Kept, Committing, SaveSteps
<1>1. \A p \in Package, f \in File : backup'[p][f] \in {None, p}
  BY DEF KeptInv
<1>2. \A p \in Package : dPackages'[p] # None /\ ~Committing(p)' =>
         \A f \in dPackages'[p] : Kept(p, f)'
  BY DEF KeptInv
<1> QED BY <1>1, <1>2 DEF KeptInv

\* A file of a package being put in is nobody else's, so whatever happens to it
\* every other package keeps its own.
LEMMA KeptByInstall ==
    ASSUME IInv, KeptInv, NEW f \in written, pc \in Checked, UNCHANGED <<backup, dPackages, cur>>,
           root' = [root EXCEPT ![f] = cur] \/ root' = [root EXCEPT ![f] = None], pc' \in Checked
    PROVE  \A p \in Package : dPackages'[p] # None => \A g \in dPackages'[p] : Kept(p, g)'
<1>1. /\ pc \notin SaveSteps /\ ~\E p \in Package : Committing(p)
      /\ cur \in Package /\ packages = dPackages /\ packages[cur] = None
      /\ NoConflict(written, cur) /\ Agree(packages, owners)
  BY DEF IInv, Checked, SaveSteps, InstallSteps, Committing, TypeOK
<1>2. SUFFICES ASSUME NEW p \in Package, dPackages[p] # None, NEW g \in dPackages[p]
               PROVE  Kept(p, g)'
  OBVIOUS
<1>3. g \in File /\ owners[g] = p /\ p # cur
  BY <1>1, <1>2 DEF IInv, TypeOK, Agree
<1>4. g # f
  BY <1>1, <1>3, NoneAssumption DEF NoConflict
<1>5. root'[g] = root[g]
  BY <1>3, <1>4 DEF IInv, TypeOK
<1> QED BY <1>1, <1>2, <1>5 DEF KeptInv, Kept

\* A file that is moved to the backup, or back, is in one of the two places.
LEMMA KeptByMove ==
    ASSUME IInv, KeptInv, NEW f \in File, BackupFile(f) \/ UndoRemovalFile(f)
    PROVE  /\ \A p \in Package, g \in File : backup'[p][g] \in {None, p}
           /\ \A p \in Package : dPackages[p] # None => \A g \in dPackages[p] : Kept(p, g)'
           /\ pc = "undo_removal" => root'[f] = cur
<1>1. /\ cur \in Package /\ f \in written /\ packages = dPackages /\ packages[cur] = written
      /\ written # None /\ ~\E p \in Package : Committing(p)
      /\ UNCHANGED <<cur, written, dPackages>>
  BY NoneAssumption DEF IInv, TypeOK, BackupFile, UndoRemovalFile, SaveSteps, RemoveSteps,
                        Committing, Goto, disk
<1>2. Kept(cur, f) /\ backup[cur][f] \in {None, cur} /\ cur # None
  BY <1>1, NoneAssumption DEF KeptInv
<1>3. /\ backup \in [Package -> [File -> Bytes]] /\ root \in [File -> Bytes]
      /\ backup[cur] \in [File -> Bytes]
  BY <1>1 DEF IInv, TypeOK
<1>4. \A p \in Package, g \in File : p # cur \/ g # f =>
         backup'[p][g] = backup[p][g] /\ (g # f => root'[g] = root[g])
  <2> SUFFICES ASSUME NEW p \in Package, NEW g \in File, p # cur \/ g # f
               PROVE  backup'[p][g] = backup[p][g] /\ (g # f => root'[g] = root[g])
    OBVIOUS
  <2>1. CASE UNCHANGED <<root, backup>>
    BY <2>1
  <2>2. CASE \E x, y : /\ backup' = [backup EXCEPT ![cur] = [backup[cur] EXCEPT ![f] = x]]
                       /\ root' = [root EXCEPT ![f] = y]
    BY <1>3, <2>2
  <2> QED BY <2>1, <2>2 DEF BackupFile, UndoRemovalFile
<1>5. /\ backup'[cur][f] \in {None, cur}
      /\ root'[f] = cur \/ (root'[f] = None /\ backup'[cur][f] = cur)
      /\ pc = "undo_removal" => root'[f] = cur
  <2>1. CASE BackupFile(f) /\ root[f] = None
    BY <1>1, <1>2, <2>1 DEF BackupFile, Kept
  <2>2. CASE BackupFile(f) /\ root[f] # None
    <3>1. /\ backup' = [backup EXCEPT ![cur] = [backup[cur] EXCEPT ![f] = root[f]]]
          /\ root' = [root EXCEPT ![f] = None] /\ root[f] = cur /\ pc = "backup"
      BY <1>2, <2>2 DEF BackupFile, Kept
    <3>2. backup'[cur][f] = cur /\ root'[f] = None
      BY <1>1, <1>3, <3>1
    <3> QED BY <1>1, <3>1, <3>2
  <2>3. CASE UndoRemovalFile(f) /\ backup[cur][f] = None
    BY <1>1, <1>2, <2>3, NoneAssumption DEF UndoRemovalFile, Kept
  <2>4. CASE UndoRemovalFile(f) /\ backup[cur][f] # None
    <3>1. /\ backup' = [backup EXCEPT ![cur] = [backup[cur] EXCEPT ![f] = None]]
          /\ root' = [root EXCEPT ![f] = cur]
      BY <1>2, <2>4 DEF UndoRemovalFile
    <3>2. backup'[cur][f] = None /\ root'[f] = cur
      BY <1>1, <1>3, <3>1
    <3> QED BY <1>1, <3>2
  <2> QED BY <2>1, <2>2, <2>3, <2>4
<1>6. \A p \in Package, g \in File : backup'[p][g] \in {None, p}
  BY <1>4, <1>5 DEF KeptInv
<1>7. ASSUME NEW p \in Package, dPackages[p] # None, NEW g \in dPackages[p]
      PROVE  Kept(p, g)'
  <2>1. g \in File /\ owners[g] = p
    BY <1>1, <1>7 DEF IInv, TypeOK, Agree
  <2>2. owners[f] = cur
    BY <1>1 DEF IInv, Agree
  <2>3. CASE g = f
    <3>1. p = cur
      BY <2>1, <2>2, <2>3
    <3> QED BY <1>5, <2>3, <3>1 DEF Kept
  <2>4. CASE g # f
    <3>1. Kept(p, g) /\ backup'[p][g] = backup[p][g] /\ root'[g] = root[g]
      BY <1>1, <1>4, <1>7, <2>1, <2>4 DEF KeptInv
    <3> QED BY <3>1 DEF Kept
  <2> QED BY <2>3, <2>4
<1> QED BY <1>5, <1>6, <1>7

\* A backup is only dropped when all it held is back, or by a removal that has
\* come to its end.
LEMMA KeptWithout ==
    ASSUME IInv, KeptInv, DropBackup, cur \in Package, UNCHANGED <<root, dPackages>>,
           (pc' = "release" /\ cur' = cur) \/ \A f \in written : root[f] = cur,
           pc \in RemoveSteps, pc' \in {"idle", "release"}
    PROVE  /\ \A p \in Package, f \in File : backup'[p][f] \in {None, p}
           /\ \A p \in Package : dPackages'[p] # None /\ ~Committing(p)' =>
                \A f \in dPackages'[p] : Kept(p, f)'
<1>1. /\ \A p \in Package \ {cur} : backup'[p] = backup[p]
      /\ \A f \in File : backup'[cur][f] = None
  BY DEF IInv, TypeOK, DropBackup, NoBackup
<1>2. ~\E p \in Package \ {cur} : Committing(p)
  BY DEF Committing
<1>3. dPackages[cur] = written
  BY DEF IInv, RemoveSteps, SaveSteps
<1>4. \A p \in Package : dPackages[p] # None => dPackages[p] \subseteq File
  BY DEF IInv, TypeOK
<1> QED BY <1>1, <1>2, <1>3, <1>4 DEF KeptInv, Kept, Committing

LEMMA KeptInstalling ==
    ASSUME IInv, KeptInv, TypeOK', InstallStep PROVE KeptInv'
<1> USE DEF mem, disk
<1>1. /\ cur \in Package /\ pc # "idle" /\ written \subseteq File /\ todo \subseteq written
      /\ pc \notin {"release", "save_packages"} /\ TypeOK /\ packages[cur] = None
      /\ packages = dPackages
  BY DEF IInv, TypeOK, InstallSteps, SaveSteps, InstallStep, Extract, Check, PreInstall,
         ActivateFile, ActivateFails, ActivateDone, PostInstall, UndoInstallFile, UndoInstallDone, Claim
<1>2. CASE Extract \/ Check \/ ActivateFails \/ UndoInstallDone
  BY <1>1, <1>2, KeptElsewhere
     DEF Extract, Check, ActivateFails, UndoInstallDone, Goto, Return, SaveSteps
<1>3. CASE PreInstall
  <2>1. CASE pc' = "idle"
    BY <1>3, <2>1, <1>1, KeptElsewhere DEF PreInstall, Return
  <2>2. CASE pc' = "activate"
    BY <1>1, <1>3, <2>2 DEF PreInstall, Return, Goto, KeptInv, Kept, Committing, SaveSteps
  <2> QED BY <1>3, <2>1, <2>2 DEF PreInstall, Return, Goto
<1>4. ASSUME NEW f \in File, ActivateFile(f) PROVE KeptInv'
  <2>1. /\ f \in written /\ pc = "activate" /\ pc' = "activate" /\ root' = [root EXCEPT ![f] = cur]
        /\ todo' = todo \ {f} /\ UNCHANGED <<backup, dPackages, cur, written>>
    BY <1>1, <1>4 DEF ActivateFile, Goto
  <2>2. \A p \in Package : dPackages'[p] # None => \A g \in dPackages'[p] : Kept(p, g)'
    BY <1>1, <2>1, KeptByInstall DEF Checked
  <2>3. \A g \in written' \ todo' : root'[g] = cur'
    BY <1>1, <2>1 DEF KeptInv, TypeOK
  <2> QED BY <2>1, <2>2, <2>3 DEF KeptInv, SaveSteps
<1>5. CASE ActivateDone \/ PostInstall
  <2>1. /\ UNCHANGED <<root, backup, packages, dPackages>>
        /\ \/ /\ pc' \in {"post_install", "claim"} /\ UNCHANGED <<cur, written>>
              /\ \A f \in written : root[f] = cur
           \/ pc' = "undo_install" /\ cur' = cur
    BY <1>5 DEF ActivateDone, PostInstall, Goto, KeptInv
  <2>2. CASE pc' = "undo_install"
    BY <1>1, <1>5, <2>1, <2>2, KeptElsewhere DEF SaveSteps, ActivateDone, PostInstall
  <2>3. CASE pc' \in {"post_install", "claim"}
    <3>1. \A p \in Package, f \in File : backup'[p][f] \in {None, p}
      BY <2>1 DEF KeptInv
    <3>2. UNCHANGED <<root, backup, dPackages>>
      BY <2>1
    <3>3. \A p \in Package : dPackages[p] # None => \A f \in dPackages[p] : Kept(p, f)
      BY <1>1 DEF KeptInv, Committing
    <3>4. \A p \in Package : dPackages'[p] # None => \A f \in dPackages'[p] : Kept(p, f)'
      BY <3>2, <3>3 DEF Kept
    <3>5. \A f \in written' : root'[f] = cur'
      BY <2>1, <2>3
    <3> QED BY <2>3, <3>1, <3>4, <3>5 DEF KeptInv, SaveSteps
  <2> QED BY <2>1, <2>2, <2>3
<1>6. ASSUME NEW f \in File, UndoInstallFile(f) PROVE KeptInv'
  <2>1. /\ f \in written /\ pc = "undo_install" /\ pc' = "undo_install"
        /\ UNCHANGED <<backup, packages, dPackages, cur, written>>
        /\ root' = [root EXCEPT ![f] = None] \/ UNCHANGED root
    BY <1>1, <1>6 DEF UndoInstallFile, Goto
  <2>2. \A p \in Package : dPackages'[p] # None => \A g \in dPackages'[p] : Kept(p, g)'
    <3>1. CASE UNCHANGED root
      BY <1>1, <2>1, <3>1 DEF KeptInv, Kept, Committing
    <3>2. CASE root' = [root EXCEPT ![f] = None]
      BY <1>1, <2>1, <3>2, KeptByInstall DEF Checked
    <3> QED BY <2>1, <3>1, <3>2
  <2> QED BY <2>1, <2>2 DEF KeptInv, SaveSteps
<1>7. CASE Claim
  <2>1. /\ pc' = "save_packages" /\ UNCHANGED <<root, backup, dPackages, cur, written>>
        /\ packages' = [packages EXCEPT ![cur] = written] /\ \A f \in written : root[f] = cur
    BY <1>7 DEF Claim, Goto, KeptInv
  <2>2. /\ packages'[cur] = written
        /\ \A p \in Package \ {cur} : packages'[p] = dPackages[p]
    BY <1>1, <2>1 DEF TypeOK
  <2> QED BY <1>1, <2>1, <2>2 DEF KeptInv, Kept, Committing, SaveSteps
<1> QED BY <1>2, <1>3, <1>4, <1>5, <1>6, <1>7 DEF InstallStep

LEMMA KeptRemoving ==
    ASSUME IInv, KeptInv, TypeOK', RemoveStep, GapsClosed PROVE KeptInv'
<1> USE DEF mem, disk
<1>1. /\ cur \in Package /\ pc \in RemoveSteps /\ written \subseteq File /\ todo \subseteq written
      /\ TypeOK /\ packages[cur] = written /\ packages = dPackages /\ pc # "save_packages"
  BY DEF IInv, TypeOK, RemoveSteps, SaveSteps, RemoveStep, PreRemove, BackupFile,
         BackupFails, BackupDone, UndoRemovalFile, UndoRemovalEnds, PostRemove, Release
<1>2. CASE PreRemove \/ BackupDone
  <2>1. /\ UNCHANGED <<root, backup, packages, dPackages>> /\ pc \in {"pre_remove", "backup"}
        /\ pc' = "idle" \/ (pc' \in {"backup", "post_remove"} /\ cur' = cur)
    BY <1>2 DEF PreRemove, BackupDone, Goto, Return
  <2> QED BY <1>1, <2>1, KeptElsewhere DEF SaveSteps
<1>3. CASE BackupFails
  BY <1>1, <1>3 DEF BackupFails, Goto, KeptInv, Kept, Committing, SaveSteps
<1>4. ASSUME NEW f \in File, BackupFile(f) \/ UndoRemovalFile(f) PROVE KeptInv'
  <2>1. /\ \A p \in Package, g \in File : backup'[p][g] \in {None, p}
        /\ \A p \in Package : dPackages[p] # None => \A g \in dPackages[p] : Kept(p, g)'
        /\ pc = "undo_removal" => root'[f] = cur
    BY <1>4, KeptByMove
  <2>2. /\ pc' = pc /\ pc \in {"backup", "undo_removal"} /\ todo' = todo \ {f}
        /\ UNCHANGED <<packages, dPackages, cur, written>>
        /\ \A g \in File \ {f} : root'[g] = root[g]
    BY <1>1, <1>4 DEF BackupFile, UndoRemovalFile, Goto, TypeOK
  <2>3. pc = "undo_removal" => \A g \in written' \ todo' : root'[g] = cur'
    BY <1>1, <2>1, <2>2 DEF KeptInv
  <2> QED BY <2>1, <2>2, <2>3 DEF KeptInv, SaveSteps
<1>5. CASE UndoRemovalEnds
  <2>1. /\ todo = {} /\ pc = "undo_removal" /\ pc' = "idle" /\ DropBackup
        /\ UNCHANGED <<root, dPackages>>
    BY <1>5 DEF UndoRemovalEnds, CanFail, GapsClosed, Return
  <2>2. \A f \in written : root[f] = cur
    BY <2>1 DEF KeptInv
  <2> QED BY <1>1, <2>1, <2>2, KeptWithout DEF KeptInv, SaveSteps
<1>6. CASE PostRemove
  <2>1. pc' = "release" /\ cur' = cur /\ DropBackup /\ UNCHANGED <<root, dPackages>>
    BY <1>6 DEF PostRemove, Goto
  <2> QED BY <1>1, <2>1, KeptWithout DEF KeptInv, SaveSteps
<1>7. CASE Release
  <2>1. /\ pc' = "save_packages" /\ UNCHANGED <<root, backup, dPackages, cur>> /\ pc = "release"
        /\ packages' = [packages EXCEPT ![cur] = None]
    BY <1>7 DEF Release, Goto
  <2>2. packages'[cur] = None /\ \A p \in Package \ {cur} : packages'[p] = dPackages[p]
    BY <1>1, <2>1 DEF TypeOK
  <2> QED BY <1>1, <2>1, <2>2 DEF KeptInv, Kept, Committing, SaveSteps
<1> QED BY <1>2, <1>3, <1>4, <1>5, <1>6, <1>7 DEF RemoveStep

\* A file the database on disk lists is in the install root, or in the backup
\* of its package: through every failure but that of a save or a restore, and
\* crashes up to the point where a removal deletes the backup.
THEOREM PayloadStaysRecoverable == GapsClosed => (Spec => []PayloadRecoverable)
<1> SUFFICES ASSUME GapsClosed PROVE Spec => []PayloadRecoverable
  OBVIOUS
<1> USE DEF mem, disk
<1>1. SavesComplete
  BY DEF GapsClosed, SavesComplete
<1>2. Init => KeptInv
  BY DEF Init, KeptInv, NoBackup, SaveSteps
<1>3. IInv /\ KeptInv /\ TypeOK' /\ [Next]_vars => KeptInv'
  <2> SUFFICES ASSUME IInv, KeptInv, TypeOK', [Next]_vars PROVE KeptInv'
    OBVIOUS
  <2>0. TypeOK
    BY DEF IInv
  <2>1. CASE BeginTransaction
    BY <2>0, <2>1, KeptElsewhere
       DEF BeginTransaction, BeginRemove, BeginInstall, Begin, SaveSteps
  <2>2. CASE InstallStep
    BY <2>2, KeptInstalling
  <2>3. CASE RemoveStep
    BY <2>3, KeptRemoving
  <2>4. CASE SavePackages
    <3>1. /\ pc = "save_packages" /\ pc' = "save_files" /\ dPackages' = packages
          /\ UNCHANGED <<root, backup, packages, cur, written>>
      BY <2>4 DEF SavePackages, CanFail, GapsClosed, Goto
    <3>2. /\ \A p \in Package \ {cur} : packages[p] = dPackages[p]
          /\ packages[cur] # None => packages[cur] = written /\ \A f \in written : root[f] = cur
          /\ cur \in Package
      BY <2>0, <3>1 DEF KeptInv, SaveSteps, TypeOK
    <3> QED BY <3>1, <3>2 DEF KeptInv, Kept, Committing, SaveSteps
  <2>5. CASE SaveFiles
    BY <2>0, <2>5, KeptElsewhere DEF SaveFiles, Return
  <2>6. CASE Reopen
    <3>1. pc \notin SaveSteps /\ pc # "release"
      BY <2>6 DEF Reopen, GapsClosed, SaveSteps
    <3> QED BY <2>0, <2>6, <3>1, KeptElsewhere DEF Reopen, IInv, SaveSteps
  <2>7. CASE UNCHANGED vars
    BY <2>0, <2>7, KeptElsewhere DEF vars
  <2> QED BY <2>1, <2>2, <2>3, <2>4, <2>5, <2>6, <2>7 DEF Next, Step, SaveStep
<1>4. TypeOK /\ KeptInv => PayloadRecoverable
  BY NoneAssumption DEF TypeOK, KeptInv, PayloadRecoverable, Kept, Committing
<1> QED BY <1>1, <1>2, <1>3, <1>4, Inductive, TypeCorrect, PTL DEF Spec

(***************************************************************************)
(* A transaction happens or does not.                                      *)
(***************************************************************************)
\* What fails can be undone: no save, restore or undo fails, no bytes of
\* others are in the way, and a crash comes before anything is changed.
Reversible ==
    /\ Faults \subseteq {"extract", "hash", "hook", "rename"}
    /\ CrashAt \subseteq {"extract", "check", "pre_install", "pre_remove"}
    /\ ForeignAt = {}

DbsUntouched ==
    /\ packages = before.packages /\ owners = before.owners
    /\ dPackages = before.dPackages /\ dOwners = before.dOwners

\* A file of the install root is where it was, or in the backup.
Moved(f) == root[f] = None /\ backup[cur][f] = before.root[f]
NotMoved(f) == root[f] = before.root[f] /\ backup[cur][f] = None

\* The whole transaction, in the terms of AtomicInstall.
Installed ==
    /\ before.packages[cur] = None /\ written \in Payload[cur]
    /\ \A f \in written : before.owners[f] = None
    /\ root = [f \in File |-> IF f \in written THEN cur ELSE before.root[f]]
    /\ owners = [f \in File |-> IF f \in written THEN cur ELSE before.owners[f]]
    /\ packages = [before.packages EXCEPT ![cur] = written]
Removed ==
    /\ before.packages[cur] # None
    /\ root = [f \in File |-> IF before.owners[f] = cur THEN None ELSE before.root[f]]
    /\ owners = [f \in File |-> IF before.owners[f] = cur THEN None ELSE before.owners[f]]
    /\ packages = [before.packages EXCEPT ![cur] = None]

\* Without foreign bytes the install root is the file database: every file is
\* its owner's.  From there each step is known by what it has done so far.
RollInv ==
    /\ before = [root |-> before.root, packages |-> before.packages, owners |-> before.owners,
                 dPackages |-> before.dPackages, dOwners |-> before.dOwners]
    /\ pc = "idle" => root = owners
    /\ pc # "idle" => before.root = before.owners
    /\ pc \in InstallSteps \cup RemoveSteps => DbsUntouched
    /\ pc \in InstallSteps => written \in Payload[cur]
    /\ pc \in {"extract", "check", "pre_install", "pre_remove"} => root = before.root
    /\ pc = "activate" =>
          \A f \in File : root[f] = IF f \in written \ todo THEN cur ELSE before.root[f]
    /\ pc \in {"post_install", "claim"} =>
          \A f \in File : root[f] = IF f \in written THEN cur ELSE before.root[f]
    /\ pc = "undo_install" =>
          \A f \in File : root[f] = IF f \in todo THEN cur ELSE before.root[f]
    /\ \A p \in Package : backup[p] = NoBackup
                            \/ (p = cur /\ pc \in {"backup", "undo_removal", "post_remove"})
    /\ pc \in {"backup", "undo_removal", "post_remove"} =>
          \A f \in File : NotMoved(f) \/ (f \in written /\ Moved(f))
    /\ pc = "backup" => \A f \in written \ todo : root[f] = None
    /\ pc = "post_remove" => \A f \in written : root[f] = None
    /\ pc = "undo_removal" => \A f \in File \ todo : NotMoved(f)
    /\ pc = "release" =>
          \A f \in File : root[f] = IF f \in written THEN None ELSE before.root[f]
    /\ pc \in SaveSteps => root = owners /\ (Installed \/ Removed)
    /\ outcome = "error" => pc = "idle" /\ Snapshot = before

LEMMA RollStarts == ASSUME Reversible, Init PROVE RollInv
<1> USE NoneAssumption
<1>1. root = owners
  BY DEF Reversible, Init
<1>2. before = Snapshot
  BY DEF Init
<1> QED BY <1>1, <1>2 DEF Init, RollInv, InstallSteps, RemoveSteps, SaveSteps, Snapshot

LEMMA RollBegins == ASSUME IInv, RollInv, BeginTransaction PROVE RollInv'
<1>1. /\ pc = "idle" /\ root = owners /\ \A p \in Package : backup[p] = NoBackup
      /\ UNCHANGED <<root, backup, packages, owners, dPackages, dOwners>>
      /\ before' = Snapshot /\ outcome' = "none"
  BY DEF BeginTransaction, BeginInstall, BeginRemove, Begin, RollInv, mem, disk
<1>2. /\ \A p \in Package : backup'[p] = NoBackup
      /\ before' = [root |-> root', packages |-> packages', owners |-> owners',
                    dPackages |-> dPackages', dOwners |-> dOwners']
      /\ before'.root = before'.owners /\ root' = before'.root /\ DbsUntouched'
  BY <1>1 DEF Snapshot, DbsUntouched, NoBackup
<1>3. pc' = "pre_remove" \/ (pc' = "extract" /\ written' \in Payload[cur'])
  BY DEF BeginTransaction, BeginInstall, BeginRemove, Begin
<1> QED BY <1>1, <1>2, <1>3 DEF RollInv, SaveSteps, InstallSteps, RemoveSteps, NoBackup

\* A transaction that fails leaves everything as it was, and the next can start.
LEMMA RollReturns ==
    ASSUME RollInv, pc \in InstallSteps \cup RemoveSteps, root = before.root, Return("error"),
           UNCHANGED <<root, packages, owners, dPackages, dOwners>>,
           \A p \in Package : backup'[p] = NoBackup
    PROVE  RollInv'
<1>1. DbsUntouched /\ before.root = before.owners /\ before' = before
      /\ before = [root |-> before.root, packages |-> before.packages, owners |-> before.owners,
                   dPackages |-> before.dPackages, dOwners |-> before.dOwners]
  BY DEF RollInv, Return, InstallSteps, RemoveSteps
<1>2. root' = owners' /\ Snapshot' = before'
  BY <1>1 DEF DbsUntouched, Snapshot
<1> QED BY <1>1, <1>2
        DEF RollInv, Return, InstallSteps, RemoveSteps, SaveSteps, NoBackup

LEMMA RollInstalls == ASSUME Reversible, IInv, RollInv, TypeOK', InstallStep PROVE RollInv'
<1> USE NoneAssumption DEF mem, disk, hist
<1>1. /\ TypeOK /\ cur \in Package /\ pc \in InstallSteps /\ written \in Payload[cur]
      /\ packages[cur] = None /\ DbsUntouched /\ before.root = before.owners
      /\ written \subseteq File /\ todo \subseteq written
      /\ \A p \in Package : backup[p] = NoBackup
  BY DEF IInv, TypeOK, RollInv, InstallSteps, InstallStep, Extract, Check, PreInstall, ActivateFile,
         ActivateFails, ActivateDone, PostInstall, UndoInstallFile, UndoInstallDone, Claim
<1>2. /\ UNCHANGED <<backup, dPackages, dOwners, before>>
      /\ \A p \in Package : backup'[p] = NoBackup
  BY <1>1 DEF InstallStep, Extract, Check, PreInstall, ActivateFile, ActivateFails, ActivateDone,
         PostInstall, UndoInstallFile, UndoInstallDone, Claim, Goto, Return, NoBackup
<1>3. root \in [File -> Bytes] /\ before.root \in [File -> Package \cup {None}]
  BY <1>1 DEF TypeOK, DbsUntouched
<1>4. pc \in Checked => \A f \in written : before.root[f] = None
  BY <1>1 DEF IInv, NoConflict, Agree, DbsUntouched, TypeOK
<1>5. ASSUME UNCHANGED <<packages, owners, cur, written, outcome>>,
             pc' \in InstallSteps,
             pc' \in {"check", "pre_install"} => root' = before.root,
             pc' = "activate" => \A f \in File :
                root'[f] = IF f \in written \ todo' THEN cur ELSE before.root[f],
             pc' \in {"post_install", "claim"} => \A f \in File :
                root'[f] = IF f \in written THEN cur ELSE before.root[f],
             pc' = "undo_install" => \A f \in File :
                root'[f] = IF f \in todo' THEN cur ELSE before.root[f],
             pc' # "extract"
      PROVE  RollInv'
  <2>1. DbsUntouched' /\ outcome # "error"
    BY <1>1, <1>2, <1>5 DEF DbsUntouched, RollInv, InstallSteps
  <2> QED BY <1>1, <1>2, <1>5, <2>1 DEF RollInv, InstallSteps, RemoveSteps, SaveSteps, NoBackup
<1>6. CASE Extract \/ Check \/ PreInstall
  <2>1. root = before.root /\ UNCHANGED <<root, packages, owners>>
    BY <1>6 DEF RollInv, Extract, Check, PreInstall
  <2>2. CASE Return("error")
    BY <1>1, <1>2, <2>1, <2>2, RollReturns
  <2>3. CASE Goto("check", {}) \/ Goto("pre_install", {}) \/ Goto("activate", written)
    BY <1>5, <2>1, <2>3 DEF Goto, InstallSteps
  <2> QED BY <1>6, <2>2, <2>3 DEF Extract, Check, PreInstall
<1>7. ASSUME NEW f \in File, ActivateFile(f) PROVE RollInv'
  <2>1. \A g \in File : root'[g] = IF g \in written \ todo' THEN cur ELSE before.root[g]
    BY <1>1, <1>3, <1>7 DEF RollInv, ActivateFile, Goto
  <2> QED BY <1>5, <1>7, <2>1 DEF ActivateFile, Goto, InstallSteps
<1>8. CASE ActivateFails \/ ActivateDone \/ PostInstall
  BY <1>1, <1>5, <1>8 DEF RollInv, ActivateFails, ActivateDone, PostInstall, Goto, InstallSteps
<1>9. ASSUME NEW f \in File, UndoInstallFile(f) PROVE RollInv'
  <2>1. /\ root' = [root EXCEPT ![f] = None] /\ f \in todo /\ pc = "undo_install"
        /\ Goto("undo_install", todo \ {f}) /\ UNCHANGED <<packages, owners>>
    BY <1>9 DEF UndoInstallFile, CanFail, Reversible
  <2>2. before.root[f] = None
    BY <1>1, <1>4, <2>1 DEF Checked
  <2>3. \A g \in File : root'[g] = IF g \in todo' THEN cur ELSE before.root[g]
    BY <1>3, <2>1, <2>2 DEF RollInv, Goto
  <2> QED BY <1>5, <2>1, <2>3 DEF Goto, InstallSteps
<1>10. CASE UndoInstallDone
  <2>1. root = before.root
    BY <1>3, <1>10 DEF RollInv, UndoInstallDone
  <2> QED BY <1>1, <1>2, <1>10, <2>1, RollReturns DEF UndoInstallDone
<1>11. CASE Claim
  <2>1. /\ pc = "claim" /\ pc' = "save_packages" /\ UNCHANGED <<root, cur, written, outcome>>
        /\ owners' = [f \in File |-> IF f \in written THEN cur ELSE owners[f]]
        /\ packages' = [packages EXCEPT ![cur] = written]
    BY <1>11 DEF Claim, Goto
  <2>2. root = [f \in File |-> IF f \in written THEN cur ELSE before.root[f]]
    BY <1>3, <2>1 DEF RollInv
  <2>3. root' = owners'
    BY <1>1, <2>1, <2>2 DEF DbsUntouched
  <2>4. \A f \in written : before.owners[f] = None
    BY <1>1, <1>4, <2>1 DEF Checked
  <2>5. Installed'
    BY <1>1, <1>2, <2>1, <2>2, <2>4 DEF Installed, DbsUntouched
  <2>6. outcome # "error"
    BY <2>1 DEF RollInv
  <2> QED BY <1>1, <1>2, <2>1, <2>3, <2>5, <2>6
          DEF RollInv, InstallSteps, RemoveSteps, SaveSteps, NoBackup
<1> QED BY <1>6, <1>7, <1>8, <1>9, <1>10, <1>11 DEF InstallStep

LEMMA RollRemoves == ASSUME Reversible, IInv, RollInv, TypeOK', RemoveStep PROVE RollInv'
<1> USE NoneAssumption DEF mem, disk, hist
<1>1. /\ TypeOK /\ cur \in Package /\ pc \in RemoveSteps /\ packages[cur] = written
      /\ DbsUntouched /\ before.root = before.owners
      /\ written \subseteq File /\ todo \subseteq written /\ outcome # "error"
      /\ \A p \in Package \ {cur} : backup[p] = NoBackup
  BY DEF IInv, TypeOK, RollInv, RemoveSteps, RemoveStep, PreRemove, BackupFile, BackupFails,
         BackupDone, UndoRemovalFile, UndoRemovalEnds, PostRemove, Release
<1>2. /\ UNCHANGED <<dPackages, dOwners, before>>
      /\ \A p \in Package \ {cur} : backup'[p] = NoBackup
  BY <1>1 DEF RemoveStep, PreRemove, BackupFile, BackupFails, BackupDone, UndoRemovalFile, UndoRemovalEnds,
         PostRemove, Release, DropBackup, Goto, Return, TypeOK
<1>3. /\ root \in [File -> Bytes] /\ before.root \in [File -> Package \cup {None}]
      /\ backup \in [Package -> [File -> Bytes]] /\ backup[cur] \in [File -> Bytes]
  BY <1>1 DEF TypeOK, DbsUntouched
<1>4. ASSUME UNCHANGED <<packages, owners, cur, written, outcome>>,
             pc' \in {"backup", "undo_removal", "post_remove"},
             \A f \in File : NotMoved(f)' \/ (f \in written /\ Moved(f)'),
             pc' = "backup" => \A f \in written \ todo' : root'[f] = None,
             pc' = "post_remove" => \A f \in written : root'[f] = None,
             pc' = "undo_removal" => \A f \in File \ todo' : NotMoved(f)'
      PROVE  RollInv'
  <2>1. DbsUntouched'
    BY <1>1, <1>2, <1>4 DEF DbsUntouched
  <2> QED BY <1>1, <1>2, <1>4, <2>1
          DEF RollInv, InstallSteps, RemoveSteps, SaveSteps, NoBackup
<1>5. CASE PreRemove
  <2>1. /\ root = before.root /\ backup[cur] = NoBackup
        /\ UNCHANGED <<root, backup, packages, owners>>
    BY <1>1, <1>5 DEF RollInv, PreRemove
  <2>2. CASE Return("error")
    BY <1>1, <1>2, <2>1, <2>2, RollReturns
  <2>3. CASE Goto("backup", written)
    BY <1>1, <1>2, <1>4, <2>1, <2>3 DEF Goto, NotMoved, NoBackup
  <2> QED BY <1>5, <2>2, <2>3 DEF PreRemove
<1>6. CASE BackupFails \/ BackupDone
  <2>1. /\ UNCHANGED <<root, backup, packages, owners>> /\ pc = "backup"
        /\ \/ pc' = "undo_removal" /\ todo' = written
           \/ pc' = "post_remove" /\ todo = {}
        /\ UNCHANGED <<cur, written, outcome>>
    BY <1>6 DEF BackupFails, BackupDone, Goto
  <2>2. \A f \in File : /\ NotMoved(f) \/ (f \in written /\ Moved(f))
                        /\ NotMoved(f)' <=> NotMoved(f)
                        /\ Moved(f)' <=> Moved(f)
    BY <1>2, <2>1 DEF RollInv, NotMoved, Moved
  <2> QED BY <1>4, <2>1, <2>2 DEF RollInv
<1>7. ASSUME NEW f \in File, BackupFile(f) PROVE RollInv'
  <2>1. /\ pc = "backup" /\ pc' = "backup" /\ todo' = todo \ {f} /\ f \in written
        /\ UNCHANGED <<packages, owners, cur, written, outcome>>
    BY <1>1, <1>7 DEF BackupFile, Goto
  <2>2. \A g \in File \ {f} : /\ root'[g] = root[g] /\ backup'[cur][g] = backup[cur][g]
    BY <1>3, <1>1, <1>7 DEF BackupFile
  <2>3. \A g \in File \ {f} : (NotMoved(g)' <=> NotMoved(g)) /\ (Moved(g)' <=> Moved(g))
    BY <1>2, <2>1, <2>2 DEF NotMoved, Moved
  <2>4. NotMoved(f) \/ (f \in written /\ Moved(f))
    BY <2>1 DEF RollInv
  <2>5. (NotMoved(f)' \/ Moved(f)') /\ root'[f] = None
    <3>1. CASE root[f] = None
      BY <1>2, <1>7, <2>1, <2>4, <3>1 DEF BackupFile, NotMoved, Moved
    <3>2. CASE root[f] # None
      <4>1. /\ backup' = [backup EXCEPT ![cur] = [backup[cur] EXCEPT ![f] = root[f]]]
            /\ root' = [root EXCEPT ![f] = None] /\ root[f] = before.root[f]
        BY <1>7, <2>4, <3>2 DEF BackupFile, NotMoved, Moved
      <4>2. backup'[cur][f] = before.root[f] /\ root'[f] = None
        BY <1>1, <1>3, <4>1
      <4> QED BY <1>2, <2>1, <4>2 DEF Moved
    <3> QED BY <3>1, <3>2
  <2>6. \A g \in File : NotMoved(g)' \/ (g \in written /\ Moved(g)')
    BY <2>1, <2>3, <2>5 DEF RollInv
  <2>7. \A g \in written \ todo' : root'[g] = None
    BY <1>1, <2>1, <2>2, <2>5 DEF RollInv
  <2> QED BY <1>4, <2>1, <2>6, <2>7
<1>8. ASSUME NEW f \in File, UndoRemovalFile(f) PROVE RollInv'
  <2>1. /\ pc = "undo_removal" /\ pc' = "undo_removal" /\ todo' = todo \ {f} /\ f \in written
        /\ UNCHANGED <<packages, owners, cur, written, outcome>>
    BY <1>1, <1>8 DEF UndoRemovalFile, Goto
  <2>2. NotMoved(f) \/ (f \in written /\ Moved(f))
    BY <2>1 DEF RollInv
  <2>3. CASE backup[cur][f] = None
    <3>1. UNCHANGED <<root, backup>>
      BY <1>8, <2>3 DEF UndoRemovalFile
    <3>2. \A g \in File : (NotMoved(g)' <=> NotMoved(g)) /\ (Moved(g)' <=> Moved(g))
      BY <1>2, <2>1, <3>1 DEF NotMoved, Moved
    <3>3. NotMoved(f)
      BY <2>2, <2>3 DEF NotMoved, Moved
    <3> QED BY <1>1, <1>4, <2>1, <3>2, <3>3 DEF RollInv
  <2>4. CASE backup[cur][f] # None
    <3>1. /\ backup' = [backup EXCEPT ![cur] = [backup[cur] EXCEPT ![f] = None]]
          /\ root' = [root EXCEPT ![f] = before.root[f]]
      BY <1>8, <2>2, <2>4 DEF UndoRemovalFile, NotMoved, Moved
    <3>2. /\ backup'[cur][f] = None /\ root'[f] = before.root[f]
          /\ \A g \in File \ {f} : root'[g] = root[g] /\ backup'[cur][g] = backup[cur][g]
      BY <1>1, <1>3, <3>1
    <3>3. /\ NotMoved(f)'
          /\ \A g \in File \ {f} : (NotMoved(g)' <=> NotMoved(g)) /\ (Moved(g)' <=> Moved(g))
      BY <1>2, <2>1, <3>2 DEF NotMoved, Moved
    <3> QED BY <1>1, <1>4, <2>1, <3>3 DEF RollInv
  <2> QED BY <2>3, <2>4
<1>9. CASE UndoRemovalEnds
  <2>1. /\ todo = {} /\ pc = "undo_removal" /\ DropBackup /\ Return("error")
        /\ UNCHANGED <<root, packages, owners>>
    BY <1>9 DEF UndoRemovalEnds, CanFail, Reversible
  <2>2. \A f \in File : root[f] = before.root[f]
    BY <2>1 DEF RollInv, NotMoved
  <2>3. root = before.root
    BY <1>3, <2>2
  <2>4. backup'[cur] = NoBackup
    BY <1>1, <1>3, <2>1 DEF DropBackup
  <2>5. \A p \in Package : backup'[p] = NoBackup
    BY <1>2, <2>4
  <2> QED BY <1>1, <1>2, <2>1, <2>3, <2>5, RollReturns
<1>10. CASE PostRemove
  <2>1. /\ pc = "post_remove" /\ pc' = "release" /\ DropBackup
        /\ UNCHANGED <<root, packages, owners, cur, written, outcome>>
    BY <1>10 DEF PostRemove, Goto
  <2>2. \A f \in File : root[f] = IF f \in written THEN None ELSE before.root[f]
    BY <2>1 DEF RollInv, NotMoved
  <2>3. \A p \in Package : backup'[p] = NoBackup
    BY <1>1, <1>2, <1>3, <2>1 DEF DropBackup
  <2>4. DbsUntouched'
    BY <1>1, <1>2, <2>1 DEF DbsUntouched
  <2> QED BY <1>1, <1>2, <2>1, <2>2, <2>3, <2>4
          DEF RollInv, InstallSteps, RemoveSteps, SaveSteps, NoBackup
<1>11. CASE Release
  <2>1. /\ pc = "release" /\ pc' = "save_packages"
        /\ UNCHANGED <<root, backup, cur, written, outcome>>
        /\ owners' = [f \in File |-> IF f \in written THEN None ELSE owners[f]]
        /\ packages' = [packages EXCEPT ![cur] = None]
    BY <1>11 DEF Release, Goto
  <2>2. root = [f \in File |-> IF f \in written THEN None ELSE before.root[f]]
    BY <1>3, <2>1 DEF RollInv
  <2>3. root' = owners'
    BY <1>1, <2>1, <2>2 DEF DbsUntouched
  <2>4. written # None /\ \A f \in File : f \in written <=> before.owners[f] = cur
    BY <1>1 DEF IInv, Agree, DbsUntouched
  <2>5. Removed'
    BY <1>1, <1>2, <2>1, <2>2, <2>4 DEF Removed, DbsUntouched
  <2>6. \A p \in Package : backup'[p] = NoBackup
    BY <2>1 DEF RollInv
  <2> QED BY <1>1, <1>2, <2>1, <2>3, <2>5, <2>6
          DEF RollInv, InstallSteps, RemoveSteps, SaveSteps, NoBackup
<1> QED BY <1>5, <1>6, <1>7, <1>8, <1>9, <1>10, <1>11 DEF RemoveStep

LEMMA RollSaves == ASSUME Reversible, RollInv, SaveStep PROVE RollInv'
<1>1. CASE SavePackages
  <2>1. /\ pc = "save_packages" /\ pc' = "save_files"
        /\ UNCHANGED <<root, backup, packages, owners, cur, written, before, outcome>>
    BY <1>1 DEF SavePackages, CanFail, Reversible, Goto, mem, hist
  <2>2. (Installed \/ Removed) => (Installed \/ Removed)'
    BY <2>1 DEF Installed, Removed
  <2> QED BY <2>1, <2>2 DEF RollInv, InstallSteps, RemoveSteps, SaveSteps, NoBackup
<1>2. CASE SaveFiles
  <2>1. /\ pc = "save_files" /\ pc' = "idle" /\ outcome' = "ok"
        /\ UNCHANGED <<root, backup, packages, owners, before>>
    BY <1>2 DEF SaveFiles, CanFail, Reversible, Return, mem
  <2> QED BY <2>1 DEF RollInv, InstallSteps, RemoveSteps, SaveSteps, NoBackup
<1> QED BY <1>1, <1>2 DEF SaveStep

LEMMA RollReopens == ASSUME Reversible, IInv, RollInv, Reopen PROVE RollInv'
<1>1. /\ pc' = "idle" /\ outcome' = "none" /\ packages' = dPackages /\ owners' = dOwners
      /\ UNCHANGED <<root, backup, before>>
      /\ pc \in {"idle", "extract", "check", "pre_install", "pre_remove"}
  BY DEF Reopen, Reversible
<1>2. owners' = owners
  BY <1>1 DEF IInv, SaveSteps
<1>3. root = owners
  BY <1>1 DEF RollInv, DbsUntouched, InstallSteps, RemoveSteps
<1>4. \A p \in Package : backup[p] = NoBackup
  BY <1>1 DEF RollInv
<1> QED BY <1>1, <1>2, <1>3, <1>4
        DEF RollInv, InstallSteps, RemoveSteps, SaveSteps, NoBackup

\* The inductive invariant behind the next two theorems.
THEOREM RolledBack == Reversible => (Spec => []RollInv)
<1> SUFFICES ASSUME Reversible PROVE Spec => []RollInv
  OBVIOUS
<1>1. SavesComplete
  BY DEF Reversible, SavesComplete
<1>2. Init => RollInv
  BY RollStarts
<1>3. IInv /\ RollInv /\ TypeOK' /\ [Next]_vars => RollInv'
  <2> SUFFICES ASSUME IInv, RollInv, TypeOK', [Next]_vars PROVE RollInv'
    OBVIOUS
  <2>1. ASSUME UNCHANGED vars PROVE RollInv'
    <3>1. /\ (Installed \/ Removed)' <=> (Installed \/ Removed)
          /\ \A f : (Moved(f)' <=> Moved(f)) /\ (NotMoved(f)' <=> NotMoved(f))
      BY <2>1 DEF vars, Installed, Removed, Moved, NotMoved
    <3>2. /\ DbsUntouched' <=> DbsUntouched
          /\ Snapshot' = Snapshot /\ NoBackup' = NoBackup
      BY <2>1 DEF vars, DbsUntouched, Snapshot, NoBackup
    <3> QED BY <2>1, <3>1, <3>2 DEF vars, RollInv
  <2> QED BY <2>1, RollBegins, RollInstalls, RollRemoves, RollSaves, RollReopens DEF Next, Step
<1> QED BY <1>1, <1>2, <1>3, Inductive, TypeCorrect, PTL DEF Spec

\* "On any failure the filesystem and the two databases are left exactly as
\* they were", when what fails is an extraction, a hash, a hook or a rename.
THEOREM FailureIsRolledBack == Reversible => (Spec => []FailureRestores)
<1>1. RollInv => FailureRestores
  BY DEF RollInv, FailureRestores
<1> QED BY <1>1, RolledBack, PTL

\* Seen between its calls, a transaction is one step of AtomicInstall: the
\* payload and both databases change together when SaveFiles returns, or not
\* at all.  A new process after a crash finds nothing changed either.
THEOREM ImplementsAtomicInstall == Reversible => (Spec => AtomicSpec)
<1> SUFFICES ASSUME Reversible PROVE Spec => AtomicSpec
  OBVIOUS
<1>1. SavesComplete
  BY DEF Reversible, SavesComplete
<1>2. Init => Atomic!Init
  BY DEF Init, Atomic!Init, View, Snapshot
<1>3. IInv /\ RollInv /\ RollInv' /\ [Next]_vars
        => [Atomic!Next]_<<View.root, View.packages, View.owners>>
  <2> SUFFICES ASSUME IInv, RollInv, RollInv', [Next]_vars
               PROVE  Atomic!Next \/ UNCHANGED <<View.root, View.packages, View.owners>>
    OBVIOUS
  <2>1. CASE BeginTransaction
    BY <2>1 DEF BeginTransaction, BeginInstall, BeginRemove, Begin, View
  <2>2. ASSUME pc # "idle", pc' # "idle", before' = before
        PROVE  UNCHANGED <<View.root, View.packages, View.owners>>
    BY <2>2 DEF View
  <2>3. ASSUME pc # "idle", Return("error")
        PROVE  UNCHANGED <<View.root, View.packages, View.owners>>
    BY <2>3 DEF View, Return, RollInv
  <2>4. CASE InstallStep
    <3>1. pc # "idle" /\ before' = before
      BY <2>4 DEF InstallStep, Extract, Check, PreInstall, ActivateFile, ActivateFails, ActivateDone,
         PostInstall, UndoInstallFile, UndoInstallDone, Claim, Goto, Return, hist
    <3>2. pc' = "idle" => Return("error")
      BY <2>4 DEF InstallStep, Extract, Check, PreInstall, ActivateFile, ActivateFails, ActivateDone,
         PostInstall, UndoInstallFile, UndoInstallDone, Claim, Goto
    <3> QED BY <2>2, <2>3, <3>1, <3>2
  <2>5. CASE RemoveStep
    <3>1. pc # "idle" /\ before' = before
      BY <2>5 DEF RemoveStep, PreRemove, BackupFile, BackupFails, BackupDone, UndoRemovalFile,
         UndoRemovalEnds, PostRemove, Release, Goto, Return, hist
    <3>2. pc' = "idle" => Return("error")
      BY <2>5 DEF RemoveStep, PreRemove, BackupFile, BackupFails, BackupDone, UndoRemovalFile,
         UndoRemovalEnds, PostRemove, Release, Goto
    <3> QED BY <2>2, <2>3, <3>1, <3>2
  <2>6. CASE SavePackages
    BY <2>2, <2>6 DEF SavePackages, CanFail, Reversible, Goto, hist
  <2>7. CASE SaveFiles
    <3>1. /\ pc = "save_files" /\ pc' = "idle" /\ cur \in Package
          /\ UNCHANGED <<root, packages, owners>>
      BY <2>7 DEF SaveFiles, CanFail, Reversible, Return, mem, IInv, TypeOK
    <3>2. /\ View.root = before.root /\ View.packages = before.packages
          /\ View.owners = before.owners /\ View'.root = root /\ View'.packages = packages
          /\ View'.owners = owners
      BY <3>1 DEF View, Snapshot
    <3>3. CASE Installed
      <4>1. Atomic!Install(cur, written)
        BY <3>2, <3>3 DEF Installed, Atomic!Install
      <4> QED BY <3>1, <3>3, <4>1 DEF Atomic!Next, Installed
    <3>4. CASE Removed
      <4>1. Atomic!Remove(cur)
        BY <3>2, <3>4 DEF Removed, Atomic!Remove
      <4> QED BY <3>1, <4>1 DEF Atomic!Next
    <3> QED BY <3>1, <3>3, <3>4 DEF RollInv, SaveSteps
  <2>8. CASE Reopen
    <3>1. /\ pc' = "idle" /\ packages' = dPackages /\ owners' = dOwners /\ root' = root
          /\ pc \in {"idle", "extract", "check", "pre_install", "pre_remove"}
      BY <2>8 DEF Reopen, Reversible
    <3>2. dPackages = packages /\ dOwners = owners
      BY <3>1 DEF IInv, SaveSteps
    <3>3. pc # "idle" => root = before.root /\ DbsUntouched
      BY <3>1 DEF RollInv, InstallSteps, RemoveSteps
    <3> QED BY <3>1, <3>2, <3>3 DEF View, Snapshot, DbsUntouched
  <2>9. CASE UNCHANGED vars
    BY <2>9 DEF vars, View, Snapshot
  <2> QED BY <2>1, <2>4, <2>5, <2>6, <2>7, <2>8, <2>9 DEF Next, Step, SaveStep
<1> QED BY <1>1, <1>2, <1>3, Inductive, RolledBack, PTL DEF Spec, AtomicSpec, Atomic!Spec
=============================================================================
