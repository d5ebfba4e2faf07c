------------------------------ MODULE Lifecycle ------------------------------
(***************************************************************************)
(* service::lifecycle::PackageService: the commands that put packages on   *)
(* the system and replace them - install with its whole-plan rollback,     *)
(* install_local, upgrade of one package or of all, hold and unhold - and  *)
(* the history they log.                                                   *)
(*                                                                         *)
(* One package's transaction is one step, as AtomicInstall promises (its   *)
(* databases are saved by it).  The plan of a resolution is any order of   *)
(* any versions that has the property Resolver is proved to have: what     *)
(* answers each dependency is in place before it.  Commands that are       *)
(* refused, find nothing to do or are dry runs change nothing and are left *)
(* out.                                                                    *)
(***************************************************************************)
EXTENDS Naturals, Sequences, FiniteSets, SequencesExt

CONSTANTS
    Package,    \* real package names
    Virtual,    \* names only ever provided
    MaxVersion, \* versions are 1..MaxVersion, 0 is none
    Worlds,     \* repositories to consider
    Commands,   \* subset of CommandKinds
    Faults      \* subset of {"fetch", "install", "remove"}

CommandKinds == {"install", "install_local", "upgrade", "upgrade_all", "hold"}
Version == 1..MaxVersion
ASSUME LifecycleAssumption ==
    /\ Package \cap Virtual = {} /\ IsFiniteSet(Package)
    /\ Commands \subseteq CommandKinds /\ Faults \subseteq {"fetch", "install", "remove"}

\* The versions in its range, and those of them it matches: not a pre-release
\* it does not name.  No requirement is met by being absent: 0 is no version.
Requirement ==
    {r \in [name : Package \cup Virtual, fits : SUBSET Version, ok : SUBSET Version] : r.ok \subseteq r.fits}
ASSUME WorldAssumption ==
    /\ MaxVersion \in Nat
    /\ \A w \in Worlds :
          /\ w.avail \in [Package -> SUBSET Version]
          /\ w.deps \in [Package -> [Version -> SUBSET Requirement]]
          /\ w.provides \in [Package -> [Version -> SUBSET (Package \cup Virtual)]]

VARIABLES
    world,      \* [avail, deps, provides]: the index, and every manifest
    inst,       \* InstalledDb: version of a package, or 0
    explicit,   \* packages whose record says explicit
    held,       \* packages whose record says held
    log,        \* history.jsonl: the version last logged for a package, or 0
    pc,         \* "idle", "install", "rollback", "upgrade", "deps", "place"
    command,    \* the running or last command
    asked,      \* the package it names, if any
    force,      \* --ignore-hold
    stuck,      \* history: what its rollback could not remove
    queue,      \* planned installs left, in order: <<name, version>>
    done,       \* installed_this_call
    targets,    \* planned upgrades left
    cur,        \* the package being upgraded, and its two flags
    newDeps,    \* dependency names upgrade_one has not looked at yet
    before,     \* history: the records when the command began
    outcome     \* history: how it ended

records == <<inst, explicit, held>>
call == <<command, asked, force, stuck>>
vars == <<world, inst, explicit, held, log, pc, command, asked, force, stuck, queue, done,
          targets, cur, newDeps, before, outcome>>

NoOne == [name |-> {}, explicit |-> FALSE, held |-> FALSE]
Records == [inst |-> inst, explicit |-> explicit, held |-> held]

TypeOK ==
    /\ inst \in [Package -> 0..MaxVersion] /\ log \in [Package -> 0..MaxVersion]
    /\ explicit \subseteq Package /\ held \subseteq Package
    /\ \A p \in explicit \cup held : inst[p] # 0
    /\ pc \in {"idle", "install", "rollback", "upgrade", "deps", "place"}
    /\ command \in Commands \cup {"none"} /\ asked \cup stuck \subseteq Package /\ force \in BOOLEAN
    /\ queue \in Seq(Package \X Version) /\ done \in Seq(Package)
    /\ targets \subseteq Package /\ newDeps \subseteq Package \cup Virtual
    /\ cur.name \subseteq Package /\ outcome \in {"none", "ok", "error"}

Init ==
    /\ world \in Worlds
    /\ inst = [p \in Package |-> 0] /\ log = inst
    /\ explicit = {} /\ held = {} /\ before = Records
    /\ pc = "idle" /\ command = "none" /\ asked = {} /\ force = FALSE /\ stuck = {}
    /\ queue = <<>> /\ done = <<>> /\ targets = {} /\ cur = NoOne /\ newDeps = {}
    /\ outcome = "none"

(***************************************************************************)
(* Dependencies                                                            *)
(***************************************************************************)
Installed == {p \in Package : inst[p] # 0}
Newest(p) == CHOOSE v \in world.avail[p] : \A u \in world.avail[p] : u <= v

\* versions[p] is the version of p present, or 0.
Meets(versions, p, dep) ==
    \/ p = dep.name /\ versions[p] \in dep.ok
    \/ versions[p] # 0 /\ dep.name \in world.provides[p][versions[p]]
Met(versions, dep) == \E p \in Package : Meets(versions, p, dep)
AllMet(versions, p) == \A dep \in world.deps[p][versions[p]] : Met(versions, dep)

\* What a resolution takes p for: a version in the range, though maybe not one
\* the requirement matches, or a package of which a published version, though
\* maybe not this one, provides the name.  (Resolver's Answers.)
Publishes(p, d) == \E u \in world.avail[p] : d \in world.provides[p][u]
Answers(versions, p, dep) ==
    \/ p = dep.name /\ versions[p] \in dep.fits
    \/ versions[p] # 0 /\ Publishes(p, dep.name)
Answered(versions, dep) == \E p \in Package : Answers(versions, p, dep)

\* What Resolver::resolve_install may return for a name: packages not yet
\* installed, each taken for a dependency of the plan, and before it.
After(plan, n) ==
    [p \in Package |-> IF \E i \in 1..n : plan[i][1] = p
                       THEN (CHOOSE v \in Version : \E i \in 1..n : plan[i] = <<p, v>>)
                       ELSE inst[p]]
Picks(S) == {sel \in [S -> Version] : \A p \in S : sel[p] \in world.avail[p]}
Plans(name) ==
    {plan \in UNION {{[i \in DOMAIN s |-> <<s[i], sel[s[i]]>>] : s \in SetToSeqs(S), sel \in Picks(S)}
                       : S \in {T \in SUBSET (Package \ Installed) : name \in T}} :
        /\ \A i \in DOMAIN plan : \A dep \in world.deps[plan[i][1]][plan[i][2]] :
             Answered(After(plan, i - 1), dep)
        /\ \A i \in DOMAIN plan : plan[i][1] # name =>
             \E j \in DOMAIN plan : \E dep \in world.deps[plan[j][1]][plan[j][2]] :
                Answers(After(plan, Len(plan)), plan[i][1], dep)}

(***************************************************************************)
(* Calls, returns and single transactions                                  *)
(***************************************************************************)
CanFail(kind) == kind \in Faults

Begin(kind, names, f) ==
    /\ pc = "idle" /\ kind \in Commands
    /\ command' = kind /\ asked' = names /\ force' = f /\ stuck' = {}
    /\ before' = Records /\ outcome' = "none"

Return(result) ==
    /\ pc' = "idle" /\ outcome' = result
    /\ queue' = <<>> /\ done' = <<>> /\ targets' = {} /\ cur' = NoOne /\ newDeps' = {}
    /\ UNCHANGED <<world, call, before>>

Flag(set, p, on) == IF on THEN set \cup {p} ELSE set \ {p}

\* mutant of TxInstall: a fresh record is never on hold.
TxInstallUnheld(p, v, isExplicit, isHeld) ==
    /\ inst' = [inst EXCEPT ![p] = v]
    /\ explicit' = Flag(explicit, p, isExplicit) /\ held' = held \ {p}

TxInstall(p, v, isExplicit, isHeld) ==
    /\ inst' = [inst EXCEPT ![p] = v]
    /\ explicit' = Flag(explicit, p, isExplicit) /\ held' = Flag(held, p, isHeld)

\* mutant of TxRemove: the flags outlive the record.
TxRemoveKeepingFlags(p) ==
    inst' = [inst EXCEPT ![p] = 0] /\ UNCHANGED <<explicit, held>>

TxRemove(p) ==
    /\ inst' = [inst EXCEPT ![p] = 0]
    /\ explicit' = explicit \ {p} /\ held' = held \ {p}

(***************************************************************************)
(* install and install_local                                               *)
(***************************************************************************)
BeginInstall(p) ==
    /\ Begin("install", {p}, FALSE) /\ inst[p] = 0
    /\ \E plan \in Plans(p) : queue' = plan
    /\ pc' = "install"
    /\ UNCHANGED <<world, records, log, done, targets, cur, newDeps>>

\* install_one of the next planned package, for install or upgrade_one.
InstallNext ==
    /\ pc = "install" /\ queue # <<>>
    /\ LET p == Head(queue)[1]
       IN  TxInstall(p, Head(queue)[2], command = "install" /\ p \in asked, FALSE)
    /\ queue' = Tail(queue) /\ done' = Append(done, Head(queue)[1])
    /\ UNCHANGED <<world, log, pc, call, targets, cur, newDeps, before, outcome>>

\* mutant of InstallFails: nobody rolls back.
InstallFailsAtOnce ==
    /\ pc = "install" /\ queue # <<>> /\ CanFail("install")
    /\ Return("error") /\ UNCHANGED <<records, log>>

\* Only install rolls back; upgrade_one returns the error.
InstallFails ==
    /\ pc = "install" /\ queue # <<>> /\ CanFail("install")
    /\ \/ /\ command = "install" /\ pc' = "rollback" /\ queue' = <<>>
          /\ UNCHANGED <<world, call, done, targets, cur, newDeps, before, outcome>>
       \/ command # "install" /\ Return("error")
    /\ UNCHANGED <<records, log>>

\* mutant of UndoNext: the first one committed goes first.
UndoNextForwards ==
    /\ pc = "rollback" /\ done # <<>> /\ TxRemove(Head(done)) /\ done' = Tail(done)
    /\ UNCHANGED <<world, log, pc, call, queue, targets, cur, newDeps, before, outcome>>

\* The last one committed goes first; a removal that fails is warned about.
UndoNext ==
    /\ pc = "rollback" /\ done # <<>>
    /\ \/ TxRemove(Last(done)) /\ UNCHANGED stuck
       \/ CanFail("remove") /\ stuck' = stuck \cup {Last(done)} /\ UNCHANGED records
    /\ done' = Front(done)
    /\ UNCHANGED <<world, log, pc, command, asked, force, queue, targets, cur, newDeps, before, outcome>>

UndoDone ==
    pc = "rollback" /\ done = <<>> /\ Return("error") /\ UNCHANGED <<records, log>>

\* Every package of the plan is logged once all are in.
InstallDone ==
    /\ pc = "install" /\ queue = <<>> /\ command = "install"
    /\ log' = [p \in Package |-> IF \E i \in DOMAIN done : done[i] = p THEN inst[p] ELSE log[p]]
    /\ Return("ok") /\ UNCHANGED records

\* An archive from the file system: its dependencies are the caller's affair.
InstallLocal(p, v) ==
    /\ Begin("install_local", {p}, FALSE) /\ inst[p] = 0
    /\ TxInstall(p, v, TRUE, FALSE) /\ log' = [log EXCEPT ![p] = v]
    /\ UNCHANGED <<world, pc, queue, done, targets, cur, newDeps>>

(***************************************************************************)
(* upgrade                                                                 *)
(***************************************************************************)
\* mutants: no check of the dependents; holds overlooked.
AlwaysSafe(p, v) == TRUE
PlannedOnHold(names, f) ==
    {p \in names \cap Installed : world.avail[p] # {} /\ Newest(p) > inst[p]}

\* check_upgrade_safe, which asks the installed version of p what it provides.
UpgradeSafe(p, v) ==
    \A q \in Installed \ {p} : \A dep \in world.deps[q][inst[q]] :
        dep.name = p \/ dep.name \in world.provides[p][inst[p]] => v \in dep.ok

Planned(names, f) ==
    {p \in names \cap Installed :
        (p \notin held \/ f) /\ world.avail[p] # {} /\ Newest(p) > inst[p]}

\* The whole batch is checked against the system as it is now.
BeginUpgrade(kind, names, f) ==
    /\ Begin(kind, IF kind = "upgrade" THEN names ELSE {}, f)
    /\ Planned(names, f) # {}
    /\ \A p \in Planned(names, f) : UpgradeSafe(p, Newest(p))
    /\ targets' = Planned(names, f) /\ pc' = "upgrade"
    /\ UNCHANGED <<world, records, log, queue, done, cur, newDeps>>

\* upgrade_one fetches, verifies and checks for space before anything else.
UpgradeOne(p) ==
    /\ pc = "upgrade" /\ p \in targets
    /\ \/ /\ cur' = [name |-> {p}, explicit |-> p \in explicit, held |-> p \in held]
          /\ newDeps' = {dep.name : dep \in world.deps[p][Newest(p)]}
          /\ targets' = targets \ {p} /\ pc' = "deps"
          /\ UNCHANGED <<world, call, queue, done, before, outcome>>
       \/ CanFail("fetch") /\ Return("error")
    /\ UNCHANGED <<records, log>>

\* A dependency that is not installed under its own name is resolved as if it
\* had been asked for, whatever version the new manifest wants.
PullDependency(d) ==
    /\ pc = "deps" /\ d \in newDeps
    /\ \/ /\ d \notin Installed /\ Plans(d) = {} /\ Return("error")
       \/ /\ newDeps' = newDeps \ {d}
          /\ \/ d \in Installed /\ UNCHANGED <<pc, queue, done>>
             \/ /\ d \notin Installed
                /\ \E plan \in Plans(d) : queue' = plan
                /\ done' = <<>> /\ pc' = "install"
          /\ UNCHANGED <<world, call, targets, cur, before, outcome>>
    /\ UNCHANGED <<records, log>>

PullDone ==
    /\ pc = "install" /\ queue = <<>> /\ command # "install" /\ pc' = "deps"
    /\ UNCHANGED <<world, records, log, call, queue, done, targets, cur, newDeps, before, outcome>>

\* mutant of RemoveOld: the upgrade is logged before it is made.
RemoveOldLogging ==
    /\ pc = "deps" /\ newDeps = {} /\ pc' = "place"
    /\ \E p \in cur.name : TxRemove(p) /\ log' = [log EXCEPT ![p] = Newest(p)]
    /\ UNCHANGED <<world, call, queue, done, targets, cur, newDeps, before, outcome>>

\* The swap is two transactions: the old version goes ...
RemoveOld ==
    /\ pc = "deps" /\ newDeps = {}
    /\ \/ /\ \E p \in cur.name : TxRemove(p)
          /\ pc' = "place"
          /\ UNCHANGED <<world, call, queue, done, targets, cur, newDeps, before, outcome>>
       \/ CanFail("remove") /\ Return("error") /\ UNCHANGED records
    /\ UNCHANGED log

\* mutant of PlaceNew: an upgrade that fails goes on with the next package.
PlaceNewOrSkip(p) ==
    /\ pc = "place" /\ p \in cur.name /\ pc' = "upgrade" /\ cur' = NoOne
    /\ \/ TxInstall(p, Newest(p), cur.explicit, cur.held) /\ log' = [log EXCEPT ![p] = Newest(p)]
       \/ CanFail("install") /\ UNCHANGED <<records, log>>
    /\ UNCHANGED <<world, call, queue, done, targets, newDeps, before, outcome>>

\* ... and the new one comes, with the flags the old one had.
PlaceNew(p) ==
    /\ pc = "place" /\ p \in cur.name
    /\ \/ /\ TxInstall(p, Newest(p), cur.explicit, cur.held)
          /\ log' = [log EXCEPT ![p] = Newest(p)]
          /\ pc' = "upgrade" /\ cur' = NoOne
          /\ UNCHANGED <<world, call, queue, done, targets, newDeps, before, outcome>>
       \/ CanFail("install") /\ Return("error") /\ UNCHANGED <<records, log>>

UpgradeDone ==
    pc = "upgrade" /\ targets = {} /\ Return("ok") /\ UNCHANGED <<records, log>>

(***************************************************************************)
(* hold and unhold                                                         *)
(***************************************************************************)
SetHold(p, on) ==
    /\ Begin("hold", {p}, FALSE) /\ inst[p] # 0
    /\ held' = Flag(held, p, on)
    /\ UNCHANGED <<world, inst, explicit, log, pc, queue, done, targets, cur, newDeps>>

BeginCommand ==
    \/ \E p \in Package, v \in Version : BeginInstall(p) \/ InstallLocal(p, v)
    \/ \E p \in Package, f \in BOOLEAN :
          SetHold(p, f) \/ BeginUpgrade("upgrade", {p}, f) \/ BeginUpgrade("upgrade_all", Package, f)
Step ==
    \/ InstallNext \/ InstallFails \/ UndoNext \/ UndoDone \/ InstallDone
    \/ PullDone \/ RemoveOld \/ UpgradeDone
    \/ \E p \in Package : UpgradeOne(p) \/ PlaceNew(p)
    \/ \E d \in Package \cup Virtual : PullDependency(d)
Next == BeginCommand \/ Step

Spec == Init /\ [][Next]_vars

(***************************************************************************)
(* Properties                                                              *)
(***************************************************************************)
Present(versions) == {p \in Package : versions[p] # 0}
Sound(versions) == \A p \in Present(versions) : AllMet(versions, p)

\* install "is all-or-nothing for the whole plan": when it fails, the records
\* are the ones it found, but for what the rollback warned it could not remove.
InstallAllOrNothing ==
    command = "install" /\ outcome = "error" =>
        /\ \A p \in Package \ stuck : inst[p] = before.inst[p]
        /\ explicit \ stuck = before.explicit /\ held = before.held

\* Nothing that a resolution may take for dep is wrong for it.
Assured(dep) ==
    /\ dep.fits = dep.ok
    /\ \A q \in Package : Publishes(q, dep.name) =>
          \A v \in Version : dep.name \in world.provides[q][v]

\* At every step of an install, its rollback included, the packages it has put
\* in have what their dependencies were resolved to, which meets those that it
\* must: the plan runs forwards, the rollback backwards.
NewPackagesComplete ==
    command = "install" /\ pc # "idle" =>
        \A p \in Installed \ (Present(before.inst) \cup stuck) :
           \A dep \in world.deps[p][inst[p]] :
              Answered(inst, dep) /\ (Assured(dep) => Met(inst, dep))

\* A package on hold changes version only under --ignore-hold.
HoldRespected == [][\A p \in held : inst'[p] # inst[p] => force]_vars

\* A successful upgrade leaves every hold and every explicit mark as it was,
\* and what it pulls in is neither; a successful install adds only its own.
FlagsSurvive ==
    outcome = "ok" =>
        /\ held = before.held
        /\ explicit = before.explicit \cup (IF command = "install" THEN asked ELSE {})

\* An upgrade does not break a package it does not upgrade: what that package
\* depended on and had, it still has when the upgrade has succeeded - as long
\* as every new version provides what the old one provided.
NothingLost ==
    \A p \in Installed : inst[p] = before.inst[p] =>
        \A dep \in world.deps[p][inst[p]] : Met(before.inst, dep) => Met(inst, dep)
ProvidesKept ==
    \A p \in Installed : before.inst[p] # 0 =>
        world.provides[p][before.inst[p]] \subseteq world.provides[p][inst[p]]
OthersKeepDependencies ==
    outcome = "ok" /\ command \in {"upgrade", "upgrade_all"} /\ ProvidesKept => NothingLost

\* An upgrade, even of everything, even when it fails, costs the system at most
\* the package whose swap failed.
OneLossAtMost == Cardinality(Present(before.inst) \ Installed) <= 1

\* History is an "audit log of completed operations": an entry says which
\* version is there when it is written.
HistoryNotAhead == [][\A p \in Package : log'[p] # log[p] => log'[p] = inst'[p]]_vars

\* "a bad download or a breaking bump never leaves the system in a worse state
\* than before": what was installed still is, in some version.
NeverWorse == pc = "idle" => Present(before.inst) \subseteq Installed

\* upgrade "refuses a version bump that would break another installed package's
\* dependency on it": when the new version of p takes the place of the old, no
\* other package loses a dependency the old version let it have.
BumpBreaksNobody ==
    [][\A p \in cur.name : pc = "place" /\ inst'[p] # 0 =>
         \A q \in Installed : \A dep \in world.deps[q][inst[q]] :
            Met([inst EXCEPT ![p] = before.inst[p]], dep) => Met(inst', dep)]_vars

\* A successful upgrade takes no dependency from a package it leaves alone,
\* whatever the new versions provide.
UpgradeTakesNothing ==
    outcome = "ok" /\ command \in {"upgrade", "upgrade_all"} => NothingLost

\* A system whose dependencies were all met has them met after an upgrade.
UpgradeKeepsSound ==
    outcome = "ok" /\ command \in {"upgrade", "upgrade_all"} /\ Sound(before.inst) => Sound(inst)

\* upgrade pulls in "any dependency the new version introduces that the old one
\* didn't have": if the new version needs nothing that is not there already,
\* pulling in dependencies does not fail the upgrade.
NothingToPull ==
    \A p \in cur.name :
        (\A dep \in world.deps[p][Newest(p)] : Met(before.inst, dep)) =>
            \A d \in newDeps : d \in Installed \/ Plans(d) # {}

\* history shows the "completed operations" of the "whole system": the log's
\* last word on every installed package is the version installed.
HistoryComplete == pc = "idle" /\ outcome = "ok" => \A p \in Installed : log[p] = inst[p]
=============================================================================
