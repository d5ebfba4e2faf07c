--------------------------- MODULE LifecycleProofs ---------------------------
(***************************************************************************)
(* install, upgrade and hold for any packages, capabilities, versions and  *)
(* indexes: what a failed install puts back, what a failed upgrade can     *)
(* cost, and which flags and dependencies a command leaves as they were.   *)
(***************************************************************************)
EXTENDS Lifecycle, FiniteSetTheorems, SequenceTheorems, TLAPS

Upgrades == {"upgrade", "upgrade_all"}
Upgrading == command \in Upgrades /\ pc # "idle"
Installing == command = "install" /\ pc \in {"install", "rollback"}
DoneSet == {done[i] : i \in DOMAIN done}
Queued == {queue[i][1] : i \in DOMAIN queue}
Missing == IF pc = "place" THEN cur.name ELSE {}
Lost == Present(before.inst) \ Installed

Typed ==
    /\ TypeOK
    /\ world \in Worlds
    /\ cur \in [name : SUBSET Package, explicit : BOOLEAN, held : BOOLEAN]
    /\ before \in [inst : [Package -> 0..MaxVersion], explicit : SUBSET Package, held : SUBSET Package]
    /\ \A p \in targets \cup cur.name : world.avail[p] # {}

\* Which command is at which step, and what it has in hand there.
Phases ==
    /\ pc = "idle" => done = <<>> /\ targets = {} /\ cur = NoOne
    /\ pc = "rollback" => command = "install"
    /\ pc \in {"upgrade", "deps", "place"} => command \in Upgrades
    /\ pc = "install" => command \in {"install"} \cup Upgrades
    /\ pc # "install" => queue = <<>>
    /\ pc \in {"deps", "place"} \/ (pc = "install" /\ command # "install") =>
          \E p \in Package : cur.name = {p}
    /\ pc = "upgrade" => cur = NoOne
    /\ outcome # "none" => pc = "idle"
    /\ pc = "install" /\ command = "install" => stuck = {}
    /\ targets \cap cur.name = {}

\* What is planned is not there yet, and is planned once.
QueueNew ==
    /\ Queued \cap Installed = {}
    /\ \A i, j \in DOMAIN queue : queue[i][1] = queue[j][1] => i = j

\* Only the package between its two transactions is missing while a command
\* runs; an upgrade that fails there leaves it missing.
Losses ==
    /\ pc # "idle" => Lost \subseteq Missing
    /\ \A p, q \in Lost : p = q
    /\ Missing \cap Installed = {}

\* What an upgrade is about to replace is on hold only under --ignore-hold, and
\* what an install has put in was not there before and is not on hold.
Holds ==
    /\ \A p \in (targets \cup cur.name) \cap held : force
    /\ before.explicit \cup before.held \subseteq Present(before.inst)
    /\ Installing =>
          /\ DoneSet \subseteq Installed \ (held \cup Present(before.inst))
          /\ \A i, j \in DOMAIN done : done[i] = done[j] => i = j

CallInv == Typed /\ Phases /\ QueueNew /\ Losses /\ Holds

\* But for what an install has put in, and what its rollback has given up on,
\* the records are the ones it found.
Untouched ==
    Installing \/ (command = "install" /\ outcome = "error") =>
        /\ \A p \in Package \ (stuck \cup DoneSet) : inst[p] = before.inst[p]
        /\ explicit \ (stuck \cup DoneSet) = before.explicit /\ held = before.held

\* The flags while a command runs: an upgrade carries those of the package it
\* replaces, an install has marked what it was asked for and has put in.
Flags ==
    /\ command = "install" /\ pc = "install" =>
          explicit = before.explicit \cup (asked \cap DoneSet) /\ asked \subseteq DoneSet \cup Queued
    /\ Upgrading =>
          /\ held = before.held \ Missing /\ explicit = before.explicit \ Missing
          /\ \A p \in cur.name : /\ cur.held <=> p \in before.held
                                 /\ cur.explicit <=> p \in before.explicit

FlagInv == Flags /\ FlagsSurvive

\* Version v of package p satisfies the dependency.
Serves(p, v, dep) ==
    \/ p = dep.name /\ v \in dep.ok
    \/ dep.name \in world.provides[p][v]

\* Version v of package p is what a resolution takes for the dependency.
Taken(p, v, dep) ==
    \/ p = dep.name /\ v \in dep.fits
    \/ Publishes(p, dep.name)

\* What an install has put in needs only what was there and what it put in
\* before; what it plans needs only what is there and what it plans before.
Grounded ==
    /\ Installing =>
          \A i \in DOMAIN done : \A dep \in world.deps[done[i]][inst[done[i]]] :
              \E q \in Package : /\ inst[q] # 0 /\ Taken(q, inst[q], dep)
                                 /\ before.inst[q] # 0 \/ \E j \in 1..(i - 1) : done[j] = q
    /\ command = "install" =>
          \A i \in DOMAIN queue : \A dep \in world.deps[queue[i][1]][queue[i][2]] :
              \/ \E q \in Package : inst[q] # 0 /\ Taken(q, inst[q], dep)
              \/ \E j \in 1..(i - 1) : Taken(queue[j][1], queue[j][2], dep)

\* check_upgrade_safe of p, as it was when the command began.
SafeThen(p) ==
    \A q \in Present(before.inst) \ {p} : \A dep \in world.deps[q][before.inst[q]] :
        dep.name = p \/ dep.name \in world.provides[p][before.inst[p]] => Newest(p) \in dep.ok

\* An upgrade changes only what it found safe to change.
Replaced ==
    Upgrading \/ (command \in Upgrades /\ outcome = "ok") =>
        /\ \A p \in targets \cup cur.name : SafeThen(p)
        /\ Lost \subseteq Missing
        /\ \A p \in Present(before.inst) \ Missing :
              inst[p] = before.inst[p] \/ (inst[p] = Newest(p) /\ SafeThen(p))

(***************************************************************************)
(* The index.                                                              *)
(***************************************************************************)
\* A set of numbers with a bound has a least upper one.
LEMMA GreatestExists ==
    ASSUME NEW n \in Nat, NEW S \in SUBSET (1..n), S # {}
    PROVE  \E v \in S : \A u \in S : u <= v
<1> DEFINE U == {x \in Nat : \A u \in S : u <= x}
<1>1. U \subseteq Nat /\ n \in U
  OBVIOUS
<1>2. PICK m \in U : \A y \in U : ~(<<y, m>> \in OpToRel(<, Nat))
  <2> HIDE DEF U
  <2> QED BY <1>1, WFMin, NatLessThanWellFounded
<1>3. \A y \in U : ~(y < m)
  BY <1>1, <1>2 DEF OpToRel
<1>4. m \in S
  <2> SUFFICES ASSUME m \notin S PROVE FALSE
    OBVIOUS
  <2>1. \A u \in S : u <= m - 1 /\ m - 1 \in Nat
    OBVIOUS
  <2>2. m - 1 \in U
    BY <2>1
  <2> QED BY <1>3, <2>2
<1> QED BY <1>4

\* What the index publishes, and the manifests say, of one package.
LEMMA WorldType ==
    ASSUME Typed, NEW p \in Package
    PROVE  /\ world.avail[p] \subseteq Version
           /\ \A v \in Version : /\ world.deps[p][v] \subseteq Requirement
                                 /\ world.provides[p][v] \subseteq Package \cup Virtual
BY WorldAssumption DEF Typed

\* The newest version of a published package is one of those published.
LEMMA NewestPublished ==
    ASSUME Typed, NEW p \in Package, world.avail[p] # {}
    PROVE  Newest(p) \in Version
<1>1. world.avail[p] \in SUBSET (1..MaxVersion) /\ MaxVersion \in Nat
  BY WorldType, WorldAssumption DEF Version
<1>2. \E v \in world.avail[p] : \A u \in world.avail[p] : u <= v
  BY <1>1, GreatestExists
<1>3. Newest(p) \in world.avail[p]
  BY <1>2 DEF Newest
<1> QED BY <1>1, <1>3 DEF Version

\* What a version in place meets.
LEMMA MeetsServes ==
    ASSUME Typed, NEW p \in Package, NEW versions \in [Package -> 0..MaxVersion],
           NEW dep \in Requirement
    PROVE  Meets(versions, p, dep) <=> versions[p] # 0 /\ Serves(p, versions[p], dep)
<1>1. 0 \notin dep.ok
  BY DEF Requirement, Version
<1> QED BY <1>1 DEF Meets, Serves

LEMMA AnswersTaken ==
    ASSUME Typed, NEW p \in Package, NEW versions \in [Package -> 0..MaxVersion],
           NEW dep \in Requirement
    PROVE  Answers(versions, p, dep) <=> versions[p] # 0 /\ Taken(p, versions[p], dep)
<1>1. 0 \notin dep.fits
  BY DEF Requirement, Version
<1> QED BY <1>1 DEF Answers, Taken

(***************************************************************************)
(* Plans.                                                                  *)
(***************************************************************************)
\* An enumeration of a finite set leaves out nothing.
LEMMA EnumerationComplete ==
    ASSUME NEW S, IsFiniteSet(S), NEW s \in SetToSeqs(S), NEW x \in S
    PROVE  /\ Cardinality(S) \in Nat /\ s \in [1..Cardinality(S) -> S]
           /\ \A i, j \in 1..Cardinality(S) : s[i] = s[j] => i = j
           /\ \E i \in 1..Cardinality(S) : s[i] = x
<1> DEFINE D == 1..Cardinality(S)
<1>1. Cardinality(S) \in Nat
  BY FS_CardinalityType
<1>2. s \in [D -> S] /\ \A i, j \in D : s[i] = s[j] => i = j
  BY DEF SetToSeqs
<1>3. s \in Injection(D, S)
  BY <1>2 DEF Injection, IsInjective
<1>4. Cardinality(D) = Cardinality(S)
  BY <1>1, FS_Interval
<1> HIDE DEF D
<1>5. s \in Surjection(D, S)
  BY <1>3, <1>4, FS_Injection
<1>6. \E i \in D : s[i] = x
  BY <1>5 DEF Surjection
<1> QED BY <1>1, <1>2, <1>6 DEF D

\* A function on an initial segment of the naturals is a sequence.
LEMMA FunctionIsSeq ==
    ASSUME NEW T, NEW m \in Nat, NEW f \in [1..m -> T]
    PROVE  f \in Seq(T)
<1>1. f \in UNION {[1..k -> T] : k \in Nat}
  OBVIOUS
<1> QED BY <1>1, SeqDef

\* A plan is a sequence of packages not there, each once, the one asked for
\* among them.
LEMMA PlanNew ==
    ASSUME LifecycleAssumption, Typed, NEW d, NEW plan \in Plans(d)
    PROVE  /\ plan \in Seq(Package \X Version)
           /\ \A i \in DOMAIN plan : plan[i][1] \in Package \ Installed
           /\ \A i, j \in DOMAIN plan : plan[i][1] = plan[j][1] => i = j
           /\ \E i \in DOMAIN plan : plan[i][1] = d
<1>1. PICK S \in SUBSET (Package \ Installed) :
         /\ d \in S
         /\ plan \in {[i \in DOMAIN s |-> <<s[i], sel[s[i]]>>] : s \in SetToSeqs(S), sel \in Picks(S)}
  BY DEF Plans
<1>2. PICK s \in SetToSeqs(S), sel \in Picks(S) : plan = [i \in DOMAIN s |-> <<s[i], sel[s[i]]>>]
  BY <1>1
<1>3. IsFiniteSet(S) /\ S \subseteq Package
  BY FS_Subset DEF LifecycleAssumption
<1> DEFINE n == Cardinality(S)
<1>4. /\ n \in Nat /\ s \in [1..n -> S] /\ \A i, j \in 1..n : s[i] = s[j] => i = j
      /\ \E i \in 1..n : s[i] = d
  BY <1>1, <1>2, <1>3, EnumerationComplete
<1> HIDE DEF n
<1>5. \A i \in 1..n : s[i] \in Package \ Installed /\ sel[s[i]] \in Version
  BY <1>4 DEF Picks
<1>6. DOMAIN plan = 1..n /\ \A i \in 1..n : plan[i] = <<s[i], sel[s[i]]>>
  BY <1>2, <1>4
<1>7. plan \in [1..n -> Package \X Version]
  BY <1>2, <1>4, <1>5
<1>8. plan \in Seq(Package \X Version)
  BY <1>4, <1>7, FunctionIsSeq
<1>9. \A i \in DOMAIN plan : plan[i][1] = s[i]
  BY <1>6
<1>10. \A i \in DOMAIN plan : plan[i][1] \in Package \ Installed
  BY <1>5, <1>6
<1>11. \A i, j \in DOMAIN plan : plan[i][1] = plan[j][1] => i = j
  BY <1>4, <1>6, <1>9
<1>12. \E i \in DOMAIN plan : plan[i][1] = d
  BY <1>4, <1>6, <1>9
<1> QED BY <1>8, <1>10, <1>11, <1>12

\* What is taken for a dependency of a plan is there, or is planned before.
LEMMA PlanGrounded ==
    ASSUME LifecycleAssumption, Typed, NEW d, NEW plan \in Plans(d),
           NEW i \in DOMAIN plan, NEW dep \in world.deps[plan[i][1]][plan[i][2]]
    PROVE  \/ \E q \in Package : inst[q] # 0 /\ Taken(q, inst[q], dep)
           \/ \E j \in 1..(i - 1) : Taken(plan[j][1], plan[j][2], dep)
<1> DEFINE then == After(plan, i - 1)
<1>1. /\ plan \in Seq(Package \X Version) /\ i \in 1..Len(plan)
      /\ \A k \in 1..Len(plan) : plan[k] \in Package \X Version
      /\ \A k, j \in 1..Len(plan) : plan[k][1] = plan[j][1] => k = j
  <2>1. /\ plan \in Seq(Package \X Version)
        /\ \A k, j \in DOMAIN plan : plan[k][1] = plan[j][1] => k = j
    BY PlanNew
  <2> QED BY <2>1
<1>2. dep \in Requirement
  <2>1. plan[i][1] \in Package /\ plan[i][2] \in Version
    BY <1>1
  <2> QED BY <2>1, WorldType
<1>3. Answered(then, dep)
  BY DEF Plans
<1>4. ASSUME NEW p \in Package, NEW k \in 1..(i - 1), plan[k][1] = p
      PROVE  then[p] = plan[k][2] /\ then[p] \in Version
  <2>1. \E v \in Version : \E j \in 1..(i - 1) : plan[j] = <<p, v>>
    <3>1. plan[k] = <<p, plan[k][2]>> /\ plan[k][2] \in Version
      BY <1>1, <1>4
    <3> QED BY <3>1
  <2> DEFINE v == CHOOSE u \in Version : \E j \in 1..(i - 1) : plan[j] = <<p, u>>
  <2>2. v \in Version /\ \E j \in 1..(i - 1) : plan[j] = <<p, v>>
    BY <2>1
  <2>3. then[p] = v
    BY <1>4 DEF After
  <2> HIDE DEF v, then
  <2>4. PICK j \in 1..(i - 1) : plan[j] = <<p, v>>
    BY <2>2
  <2>5. j = k
    <3>1. plan[j][1] = plan[k][1] /\ j \in 1..Len(plan) /\ k \in 1..Len(plan)
      BY <1>1, <1>4, <2>4
    <3> QED BY <1>1, <3>1
  <2> QED BY <2>2, <2>3, <2>4, <2>5
<1>5. ASSUME NEW p \in Package, \A k \in 1..(i - 1) : plan[k][1] # p
      PROVE  then[p] = inst[p]
  BY <1>5 DEF After
<1>6. inst \in [Package -> 0..MaxVersion] /\ MaxVersion \in Nat
  BY WorldAssumption DEF Typed, TypeOK
<1>7. then \in [Package -> 0..MaxVersion]
  <2>1. ASSUME NEW p \in Package PROVE then[p] \in 0..MaxVersion
    <3> HIDE DEF then
    <3> QED BY <1>4, <1>5, <1>6 DEF Version
  <2>2. then = [p \in Package |-> then[p]]
    BY DEF After
  <2> HIDE DEF then
  <2> QED BY <2>1, <2>2
<1> HIDE DEF then
<1>8. PICK p \in Package : Answers(then, p, dep)
  BY <1>3 DEF Answered
<1>9. then[p] # 0 /\ Taken(p, then[p], dep)
  BY <1>2, <1>7, <1>8, AnswersTaken
<1>10. CASE \E k \in 1..(i - 1) : plan[k][1] = p
  BY <1>4, <1>9, <1>10
<1>11. CASE \A k \in 1..(i - 1) : plan[k][1] # p
  BY <1>5, <1>9, <1>11
<1> QED BY <1>10, <1>11

(***************************************************************************)
(* Type correctness.                                                       *)
(***************************************************************************)
\* The records after a transaction that installs or removes one package.
LEMMA RecordsType ==
    ASSUME Typed, NEW p \in Package, NEW v \in Version, NEW e, NEW h,
           TxInstall(p, v, e, h) \/ TxRemove(p)
    PROVE  /\ inst' \in [Package -> 0..MaxVersion]
           /\ explicit' \subseteq Package /\ held' \subseteq Package
           /\ \A q \in explicit' \cup held' : inst'[q] # 0
<1>1. /\ inst \in [Package -> 0..MaxVersion] /\ MaxVersion \in Nat
      /\ explicit \subseteq Package /\ held \subseteq Package
      /\ \A q \in explicit \cup held : inst[q] # 0
  BY WorldAssumption DEF Typed, TypeOK
<1> QED BY <1>1 DEF TxInstall, TxRemove, Flag, Version

\* The first of the queue is a package and a version of it; so are the others.
LEMMA QueueType ==
    ASSUME Typed, queue # <<>>
    PROVE  /\ queue \in Seq(Package \X Version) /\ Len(queue) \in Nat \ {0}
           /\ Head(queue) = queue[1] /\ queue[1][1] \in Package /\ queue[1][2] \in Version
           /\ Tail(queue) \in Seq(Package \X Version) /\ Len(Tail(queue)) = Len(queue) - 1
           /\ \A i \in 1..(Len(queue) - 1) : Tail(queue)[i] = queue[i + 1]
<1>1. queue \in Seq(Package \X Version)
  BY DEF Typed, TypeOK
<1>2. queue[1] \in Package \X Version
  BY <1>1
<1>3. queue[1][1] \in Package /\ queue[1][2] \in Version
  BY <1>2
<1> QED BY <1>1, <1>3, HeadTailProperties

\* What is left of installed_this_call when its last is taken away.
LEMMA DoneType ==
    ASSUME Typed, done # <<>>
    PROVE  /\ done \in Seq(Package) /\ Len(done) \in Nat \ {0}
           /\ Last(done) = done[Len(done)] /\ Last(done) \in Package
           /\ Front(done) \in Seq(Package) /\ Len(Front(done)) = Len(done) - 1
           /\ \A i \in 1..(Len(done) - 1) : Front(done)[i] = done[i]
<1>1. done \in Seq(Package)
  BY DEF Typed, TypeOK
<1>2. /\ Len(done) \in Nat \ {0} /\ done[Len(done)] \in Package
      /\ \A i \in 1..(Len(done) - 1) : done[i] \in Package
  BY <1>1
<1>3. /\ Front(done) \in Seq(Package) /\ Len(Front(done)) = Len(done) - 1
      /\ \A i \in 1..(Len(done) - 1) : Front(done)[i] = done[i]
  <2> DEFINE n == Len(done) - 1
  <2>1. n \in Nat /\ \A i \in 1..n : done[i] \in Package
    BY <1>2
  <2> HIDE DEF n
  <2>2. /\ SubSeq(done, 1, n) \in Seq(Package) /\ Len(SubSeq(done, 1, n)) = n
        /\ \A i \in 1..n : SubSeq(done, 1, n)[i] = done[i]
    BY <2>1, SubSeqProperties
  <2> QED BY <2>2 DEF Front, n
<1> QED BY <1>1, <1>2, <1>3 DEF Last

\* A command that returns has nothing left in hand.
LEMMA ReturnTyped ==
    ASSUME Typed, NEW result \in {"ok", "error"}, Return(result), UNCHANGED records,
           log' \in [Package -> 0..MaxVersion]
    PROVE  Typed'
BY EmptySeq DEF Typed, TypeOK, Return, records, call, NoOne

LEMMA TypedStep ==
    ASSUME LifecycleAssumption, Typed, Next
    PROVE  Typed'
<1>1. ASSUME NEW p \in Package, BeginInstall(p) PROVE Typed'
  <2>1. PICK plan \in Plans(p) : queue' = plan
    BY <1>1 DEF BeginInstall
  <2>2. queue' \in Seq(Package \X Version)
    BY <2>1, PlanNew
  <2> QED BY <1>1, <2>2 DEF BeginInstall, Begin, Typed, TypeOK, records, Records, CommandKinds, LifecycleAssumption
<1>2. ASSUME NEW p \in Package, NEW v \in Version, InstallLocal(p, v) PROVE Typed'
  <2>1. TxInstall(p, v, TRUE, FALSE)
    BY <1>2 DEF InstallLocal
  <2>2. /\ inst' \in [Package -> 0..MaxVersion]
        /\ explicit' \subseteq Package /\ held' \subseteq Package
        /\ \A q \in explicit' \cup held' : inst'[q] # 0
    BY <2>1, RecordsType
  <2>3. log' \in [Package -> 0..MaxVersion]
    BY <1>2, WorldAssumption DEF InstallLocal, Typed, TypeOK, Version
  <2> QED BY <1>2, <2>2, <2>3 DEF InstallLocal, Begin, Typed, TypeOK, Records
<1>3. ASSUME NEW p \in Package, NEW on \in BOOLEAN, SetHold(p, on) PROVE Typed'
  BY <1>3 DEF SetHold, Begin, Typed, TypeOK, Records, Flag
<1>4. ASSUME NEW kind \in {"upgrade", "upgrade_all"}, NEW names \in SUBSET Package,
             NEW f \in BOOLEAN, BeginUpgrade(kind, names, f)
      PROVE  Typed'
  BY <1>4 DEF BeginUpgrade, Begin, Planned, Typed, TypeOK, records, Records
<1>5. CASE InstallNext
  <2> DEFINE p == queue[1][1]
             v == queue[1][2]
  <2>1. /\ pc = "install" /\ TxInstall(p, v, command = "install" /\ p \in asked, FALSE)
        /\ p \in Package /\ v \in Version
        /\ queue' \in Seq(Package \X Version) /\ done' = Append(done, p)
        /\ UNCHANGED <<world, log, pc, call, targets, cur, newDeps, before, outcome>>
    BY <1>5, QueueType DEF InstallNext
  <2> HIDE DEF p, v
  <2>2. /\ inst' \in [Package -> 0..MaxVersion]
        /\ explicit' \subseteq Package /\ held' \subseteq Package
        /\ \A q \in explicit' \cup held' : inst'[q] # 0
    BY <2>1, RecordsType
  <2>3. done' \in Seq(Package)
    BY <2>1 DEF Typed, TypeOK
  <2> QED BY <2>1, <2>2, <2>3 DEF Typed, TypeOK, call
<1>6. CASE InstallFails
  <2>1. CASE Return("error")
    BY <1>6, <2>1, ReturnTyped DEF InstallFails, Typed, TypeOK
  <2>2. CASE ~Return("error")
    <3>1. /\ UNCHANGED <<world, call, done, targets, cur, newDeps, before, outcome, records, log>>
          /\ pc' = "rollback" /\ queue' = <<>>
      BY <1>6, <2>2 DEF InstallFails
    <3>2. queue' \in Seq(Package \X Version)
      BY <3>1, EmptySeq
    <3> QED BY <3>1, <3>2 DEF Typed, TypeOK, call, records
  <2> QED BY <2>1, <2>2
<1>7. CASE UndoNext
  <2>1. /\ pc = "rollback" /\ Last(done) \in Package /\ done' \in Seq(Package)
        /\ UNCHANGED <<world, log, pc, command, asked, force, queue, targets, cur, newDeps, before, outcome>>
    BY <1>7, DoneType DEF UndoNext
  <2>2. CASE TxRemove(Last(done)) /\ UNCHANGED stuck
    <3>1. \A v \in Version : /\ inst' \in [Package -> 0..MaxVersion]
                             /\ explicit' \subseteq Package /\ held' \subseteq Package
                             /\ \A q \in explicit' \cup held' : inst'[q] # 0
      BY <2>1, <2>2, RecordsType
    <3>2. inst' \in [Package -> 0..MaxVersion]
      BY <2>1, <2>2, WorldAssumption DEF TxRemove, Typed, TypeOK
    <3> QED BY <2>1, <2>2, <3>2 DEF TxRemove, Typed, TypeOK
  <2>3. CASE stuck' = stuck \cup {Last(done)} /\ UNCHANGED records
    BY <2>1, <2>3 DEF Typed, TypeOK, records
  <2> QED BY <1>7, <2>2, <2>3 DEF UndoNext
<1>8. CASE UndoDone
  BY <1>8, ReturnTyped DEF UndoDone, Typed, TypeOK
<1>9. CASE InstallDone
  <2>1. log' \in [Package -> 0..MaxVersion]
    BY <1>9 DEF InstallDone, Typed, TypeOK
  <2> QED BY <1>9, <2>1, ReturnTyped DEF InstallDone
<1>10. CASE PullDone
  BY <1>10 DEF PullDone, Typed, TypeOK, records, call
<1>11. CASE RemoveOld
  <2>1. CASE Return("error")
    BY <1>11, <2>1, ReturnTyped DEF RemoveOld, Return, Typed, TypeOK
  <2>2. CASE ~Return("error")
    <3>1. PICK p \in cur.name : TxRemove(p)
      BY <1>11, <2>2 DEF RemoveOld
    <3>2. inst' \in [Package -> 0..MaxVersion]
      BY <3>1, WorldAssumption DEF TxRemove, Typed, TypeOK
    <3>3. /\ pc' = "place"
          /\ UNCHANGED <<world, log, call, queue, done, targets, cur, newDeps, before, outcome>>
      BY <1>11, <2>2 DEF RemoveOld
    <3>4. /\ explicit' \subseteq Package /\ held' \subseteq Package
          /\ \A q \in explicit' \cup held' : inst'[q] # 0
      BY <3>1 DEF TxRemove, Typed, TypeOK
    <3>5. TypeOK'
      BY <3>2, <3>3, <3>4 DEF Typed, TypeOK, call
    <3> QED BY <3>3, <3>5 DEF Typed
  <2> QED BY <2>1, <2>2
<1>12. CASE UpgradeDone
  BY <1>12, ReturnTyped DEF UpgradeDone, Typed, TypeOK
<1>13. ASSUME NEW p \in Package, UpgradeOne(p) PROVE Typed'
  <2>1. CASE Return("error")
    BY <1>13, <2>1, ReturnTyped DEF UpgradeOne, Typed, TypeOK
  <2>2. CASE ~Return("error")
    <3>1. p \in targets /\ world.avail[p] # {}
      BY <1>13 DEF UpgradeOne, Typed
    <3>2. Newest(p) \in Version
      BY <3>1, NewestPublished
    <3>3. world.deps[p][Newest(p)] \subseteq Requirement
      BY <3>2, WorldType
    <3>4. newDeps' \subseteq Package \cup Virtual
      BY <1>13, <2>2, <3>3 DEF UpgradeOne, Requirement
    <3>5. cur' \in [name : SUBSET Package, explicit : BOOLEAN, held : BOOLEAN] /\ cur'.name = {p}
      <4>1. cur' = [name |-> {p}, explicit |-> p \in explicit, held |-> p \in held]
        BY <1>13, <2>2 DEF UpgradeOne
      <4>2. (p \in explicit) \in BOOLEAN /\ (p \in held) \in BOOLEAN
        OBVIOUS
      <4> QED BY <4>1, <4>2, Zenon
    <3> QED BY <1>13, <2>2, <3>1, <3>4, <3>5 DEF UpgradeOne, Typed, TypeOK, call, records
  <2> QED BY <2>1, <2>2
<1>14. ASSUME NEW p \in Package, PlaceNew(p) PROVE Typed'
  <2>1. CASE Return("error")
    BY <1>14, <2>1, ReturnTyped DEF PlaceNew, Return, Typed, TypeOK
  <2>2. CASE ~Return("error")
    <3>1. /\ TxInstall(p, Newest(p), cur.explicit, cur.held)
          /\ log' = [log EXCEPT ![p] = Newest(p)] /\ pc' = "upgrade" /\ cur' = NoOne
          /\ UNCHANGED <<world, call, queue, done, targets, newDeps, before, outcome>>
      BY <1>14, <2>2 DEF PlaceNew
    <3>2. Newest(p) \in Version
      BY <1>14, NewestPublished DEF PlaceNew, Typed
    <3>3. /\ inst' \in [Package -> 0..MaxVersion]
          /\ explicit' \subseteq Package /\ held' \subseteq Package
          /\ \A q \in explicit' \cup held' : inst'[q] # 0
      BY <3>1, <3>2, RecordsType
    <3>4. log' \in [Package -> 0..MaxVersion]
      BY <3>1, <3>2, WorldAssumption DEF Typed, TypeOK, Version
    <3> QED BY <3>1, <3>3, <3>4 DEF Typed, TypeOK, NoOne, call
  <2> QED BY <2>1, <2>2
<1>15. ASSUME NEW d \in Package \cup Virtual, PullDependency(d) PROVE Typed'
  <2>1. CASE Return("error")
    BY <1>15, <2>1, ReturnTyped DEF PullDependency, Typed, TypeOK
  <2>2. CASE ~Return("error")
    <3>1. queue' \in Seq(Package \X Version) /\ done' \in Seq(Package) /\ pc' \in {"deps", "install"}
      <4>1. CASE d \in Installed
        BY <1>15, <2>2, <4>1 DEF PullDependency, Typed, TypeOK
      <4>2. CASE d \notin Installed
        <5>1. PICK plan \in Plans(d) : queue' = plan
          BY <1>15, <2>2, <4>2 DEF PullDependency
        <5>2. plan \in Seq(Package \X Version)
          BY PlanNew
        <5> QED BY <1>15, <2>2, <4>2, <5>1, <5>2, EmptySeq DEF PullDependency
      <4> QED BY <4>1, <4>2
    <3> QED BY <1>15, <2>2, <3>1 DEF PullDependency, Typed, TypeOK, call, records
  <2> QED BY <2>1, <2>2
<1> QED BY <1>1, <1>2, <1>3, <1>4, <1>5, <1>6, <1>7, <1>8, <1>9, <1>10, <1>11, <1>12, <1>13, <1>14, <1>15
        DEF Next, BeginCommand, Step

(***************************************************************************)
(* What each step moves.                                                   *)
(***************************************************************************)
\* The first of the queue is put in, unmarked unless it was asked for.
LEMMA InstallMoves ==
    ASSUME CallInv, InstallNext
    PROVE  \E p \in Package, v \in Version :
              /\ pc = "install" /\ p \in Queued /\ p \notin Installed /\ queue[1] = <<p, v>>
              /\ inst' = [inst EXCEPT ![p] = v] /\ Installed' = Installed \cup {p}
              /\ held' = held
              /\ explicit' = explicit \cup (IF command = "install" THEN asked \cap {p} ELSE {})
              /\ done' = Append(done, p) /\ DoneSet' = DoneSet \cup {p}
              /\ queue' = Tail(queue) /\ Queued' = Queued \ {p}
              /\ UNCHANGED <<world, log, pc, command, asked, force, stuck, targets, cur,
                             newDeps, before, outcome>>
<1> DEFINE p == queue[1][1]
           v == queue[1][2]
           n == Len(queue) - 1
<1>1. /\ queue # <<>> /\ pc = "install" /\ done' = Append(done, p) /\ queue' = Tail(queue)
      /\ TxInstall(p, v, command = "install" /\ p \in asked, FALSE)
      /\ UNCHANGED <<world, log, pc, command, asked, force, stuck, targets, cur, newDeps, before, outcome>>
      /\ p \in Package /\ v \in Version
  BY QueueType DEF InstallNext, call, CallInv
<1>2. /\ n \in Nat /\ Len(queue) = n + 1 /\ DOMAIN queue = 1..(n + 1) /\ DOMAIN Tail(queue) = 1..n
      /\ \A i \in 1..n : Tail(queue)[i] = queue[i + 1]
      /\ queue[1] \in Package \X Version
  BY <1>1, QueueType DEF CallInv
<1>3. p \in Queued /\ p \notin Installed
  BY <1>2 DEF Queued, CallInv, QueueNew
<1>4. inst[p] = 0 /\ p \notin held /\ p \notin explicit
  BY <1>1, <1>3 DEF Installed, CallInv, Typed, TypeOK
<1>5. /\ inst' = [inst EXCEPT ![p] = v] /\ Installed' = Installed \cup {p} /\ held' = held
      /\ explicit' = explicit \cup (IF command = "install" THEN asked \cap {p} ELSE {})
  <2>1. inst \in [Package -> 0..MaxVersion] /\ p \in Package /\ v # 0
    BY <1>1 DEF CallInv, Typed, TypeOK, Version
  <2>2. inst' = [inst EXCEPT ![p] = v] /\ held' = held \ {p}
    BY <1>1 DEF TxInstall, Flag
  <2>3. explicit' = IF command = "install" /\ p \in asked THEN explicit \cup {p} ELSE explicit \ {p}
    BY <1>1 DEF TxInstall, Flag
  <2> HIDE DEF p, v
  <2>4. Installed' = Installed \cup {p}
    BY <2>1, <2>2 DEF Installed
  <2> QED BY <1>4, <2>2, <2>3, <2>4
<1>6. DoneSet' = DoneSet \cup {p}
  <2>1. /\ done \in Seq(Package) /\ DOMAIN done = 1..Len(done) /\ Len(done) \in Nat
        /\ DOMAIN done' = 1..(Len(done) + 1) /\ done'[Len(done) + 1] = p
        /\ \A i \in 1..Len(done) : done'[i] = done[i]
    BY <1>1, AppendProperties DEF CallInv, Typed, TypeOK
  <2> HIDE DEF p
  <2> QED BY <2>1 DEF DoneSet
<1>7. Queued' = Queued \ {p}
  <2>1. \A i, j \in 1..(n + 1) : queue[i][1] = queue[j][1] => i = j
    BY <1>2 DEF CallInv, QueueNew
  <2>2. ASSUME NEW i \in 1..n PROVE Tail(queue)[i][1] \in Queued \ {p}
    <3>1. Tail(queue)[i][1] = queue[i + 1][1] /\ i + 1 \in 1..(n + 1) /\ i + 1 # 1 /\ 1 \in 1..(n + 1)
      BY <1>2
    <3> QED BY <1>2, <2>1, <3>1 DEF Queued
  <2>3. ASSUME NEW i \in 1..(n + 1), queue[i][1] # p
        PROVE  \E j \in 1..n : Tail(queue)[j][1] = queue[i][1]
    <3>1. i - 1 \in 1..n /\ (i - 1) + 1 = i
      BY <1>2, <2>3
    <3> QED BY <1>2, <3>1
  <2>4. Queued' = {Tail(queue)[i][1] : i \in 1..n}
    BY <1>1, <1>2 DEF Queued
  <2>5. Queued = {queue[i][1] : i \in 1..(n + 1)}
    BY <1>2 DEF Queued
  <2> HIDE DEF p, n
  <2>6. Queued' \subseteq Queued \ {p}
    BY <2>2, <2>4
  <2>7. ASSUME NEW x \in Queued \ {p} PROVE x \in Queued'
    <3>1. PICK i \in 1..(n + 1) : x = queue[i][1]
      BY <2>5
    <3>2. \E j \in 1..n : Tail(queue)[j][1] = x
      BY <2>3, <2>7, <3>1
    <3> QED BY <2>4, <3>2
  <2> QED BY <2>6, <2>7
<1>8. queue[1] = <<p, v>>
  BY <1>2
<1> QED BY <1>1, <1>3, <1>5, <1>6, <1>7, <1>8

\* The last put in is taken out, or given up on.
LEMMA UndoMoves ==
    ASSUME CallInv, UndoNext
    PROVE  \E p \in DoneSet :
              /\ pc = "rollback" /\ p \in Package /\ p = done[Len(done)] /\ done' = Front(done)
              /\ DoneSet = DoneSet' \cup {p} /\ Len(done) \in Nat \ {0}
              /\ \/ /\ inst' = [inst EXCEPT ![p] = 0] /\ Installed' = Installed \ {p}
                    /\ explicit' = explicit \ {p} /\ held' = held \ {p} /\ stuck' = stuck
                 \/ stuck' = stuck \cup {p} /\ UNCHANGED <<inst, explicit, held>>
              /\ UNCHANGED <<world, log, pc, command, asked, force, queue, targets, cur,
                             newDeps, before, outcome>>
<1> DEFINE n == Len(done)
           p == done[n]
<1>1. /\ pc = "rollback" /\ done # <<>> /\ done' = Front(done)
      /\ Last(done) = p /\ p \in Package /\ n \in Nat \ {0}
      /\ DOMAIN done = 1..n /\ DOMAIN Front(done) = 1..(n - 1)
      /\ \A i \in 1..(n - 1) : Front(done)[i] = done[i]
      /\ UNCHANGED <<world, log, pc, command, asked, force, queue, targets, cur, newDeps, before, outcome>>
  BY DoneType DEF UndoNext, CallInv
<1>2. p \in DoneSet /\ DoneSet = DoneSet' \cup {p}
  BY <1>1 DEF DoneSet
<1>3. \/ /\ inst' = [inst EXCEPT ![p] = 0] /\ Installed' = Installed \ {p}
         /\ explicit' = explicit \ {p} /\ held' = held \ {p} /\ stuck' = stuck
      \/ stuck' = stuck \cup {p} /\ UNCHANGED <<inst, explicit, held>>
  BY <1>1 DEF UndoNext, TxRemove, records, Installed, CallInv, Typed, TypeOK
<1> QED BY <1>1, <1>2, <1>3

\* A plan fills the queue with packages that are not there.
LEMMA PlanMoves ==
    ASSUME LifecycleAssumption, CallInv, NEW d, NEW plan \in Plans(d), queue' = plan,
           UNCHANGED inst
    PROVE  QueueNew' /\ d \in Queued'
BY PlanNew DEF QueueNew, Queued, Installed, CallInv

\* A command that returns without touching the records loses nothing more.
LEMMA ReturnMoves ==
    ASSUME CallInv, NEW result \in {"ok", "error"}, Return(result), UNCHANGED records
    PROVE  Phases' /\ QueueNew' /\ Losses' /\ Holds'
<1>1. Phases' /\ QueueNew'
  BY DEF Return, Phases, QueueNew, Queued, call
<1>2. Losses'
  BY DEF CallInv, Losses, Lost, Missing, Installed, Present, Return, records
<1>3. Holds'
  BY DEF CallInv, Holds, Installing, Present, Return, records, NoOne
<1> QED BY <1>1, <1>2, <1>3

(***************************************************************************)
(* The invariant of a call.                                                *)
(***************************************************************************)
\* No package of installed_this_call is left in it once it is taken away.
LEMMA UndoneOnce ==
    ASSUME CallInv, UndoNext
    PROVE  /\ done[Len(done)] \notin DoneSet'
           /\ \A i, j \in DOMAIN done' : done'[i] = done'[j] => i = j
<1> DEFINE n == Len(done)
<1>1. /\ done' = Front(done) /\ n \in Nat \ {0} /\ DOMAIN done = 1..n /\ DOMAIN Front(done) = 1..(n - 1)
      /\ \A i \in 1..(n - 1) : Front(done)[i] = done[i]
  BY DoneType DEF UndoNext, CallInv
<1>2. \A i, j \in 1..n : done[i] = done[j] => i = j
  BY <1>1 DEF UndoNext, CallInv, Holds, Installing, Phases
<1>3. DOMAIN done' = 1..(n - 1) /\ \A i \in 1..(n - 1) : done'[i] = done[i]
  BY <1>1
<1>4. DoneSet' = {done[i] : i \in 1..(n - 1)}
  BY <1>3 DEF DoneSet
<1> HIDE DEF n
<1>5. \A i \in 1..(n - 1) : i \in 1..n /\ i # n /\ n \in 1..n
  BY <1>1
<1>6. done[n] \notin DoneSet'
  BY <1>2, <1>4, <1>5
<1>7. \A i, j \in DOMAIN done' : done'[i] = done'[j] => i = j
  BY <1>2, <1>3, <1>5
<1> QED BY <1>6, <1>7 DEF n

LEMMA CallStep ==
    ASSUME LifecycleAssumption, CallInv, Next, Typed'
    PROVE  CallInv'
<1> USE DEF CallInv
<1>1. ASSUME NEW p \in Package, BeginInstall(p) PROVE CallInv'
  <2>1. PICK plan \in Plans(p) : queue' = plan
    BY <1>1 DEF BeginInstall
  <2>2. /\ pc = "idle" /\ pc' = "install" /\ command' = "install" /\ before' = Records /\ outcome' = "none" /\ stuck' = {}
        /\ UNCHANGED <<world, inst, explicit, held, done, targets, cur, newDeps>>
    BY <1>1 DEF BeginInstall, Begin, records
  <2>3. QueueNew'
    BY <2>1, <2>2, PlanMoves
  <2>4. Phases'
    BY <2>2 DEF Phases
  <2>5. Losses'
    BY <2>2 DEF Phases, Losses, Lost, Missing, Installed, Present, Records, NoOne
  <2>6. Holds'
    BY <2>2 DEF Phases, Holds, Installing, DoneSet, Present, Records, NoOne, Typed, TypeOK
  <2> QED BY <2>3, <2>4, <2>5, <2>6
<1>2. ASSUME NEW p \in Package, NEW v \in Version, InstallLocal(p, v) PROVE CallInv'
  <2>1. /\ pc = "idle" /\ before' = Records /\ command' = "install_local"
        /\ inst' = [inst EXCEPT ![p] = v]
        /\ UNCHANGED <<world, pc, queue, done, targets, cur, newDeps>>
    BY <1>2 DEF InstallLocal, Begin, TxInstall
  <2>2. Lost' = {}
    BY <2>1 DEF Lost, Present, Installed, Records, Version, Typed, TypeOK
  <2>3. Phases' /\ QueueNew' /\ Losses'
    BY <2>1, <2>2 DEF Phases, QueueNew, Queued, Losses, Missing
  <2>4. Holds'
    BY <2>1 DEF Phases, Holds, Installing, Present, Records, NoOne, Typed, TypeOK
  <2> QED BY <2>3, <2>4
<1>3. ASSUME NEW p \in Package, NEW on \in BOOLEAN, SetHold(p, on) PROVE CallInv'
  <2>1. /\ pc = "idle" /\ before' = Records /\ command' = "hold"
        /\ UNCHANGED <<world, inst, pc, queue, done, targets, cur, newDeps>>
    BY <1>3 DEF SetHold, Begin
  <2>2. Phases' /\ QueueNew' /\ Losses'
    BY <2>1 DEF Phases, QueueNew, Queued, Losses, Missing, Lost, Present, Installed, Records
  <2>3. Holds'
    BY <2>1 DEF Phases, Holds, Installing, Present, Records, NoOne, Typed, TypeOK
  <2> QED BY <2>2, <2>3
<1>4. ASSUME NEW kind \in Upgrades, NEW names \in SUBSET Package,
             NEW f \in BOOLEAN, BeginUpgrade(kind, names, f)
      PROVE  CallInv'
  <2>1. /\ pc = "idle" /\ pc' = "upgrade" /\ before' = Records /\ command' \in Upgrades /\ outcome' = "none"
        /\ force' = f /\ targets' = Planned(names, f)
        /\ UNCHANGED <<world, inst, explicit, held, queue, done, cur, newDeps>>
    BY <1>4 DEF BeginUpgrade, Begin, records
  <2>2. Phases' /\ QueueNew' /\ Losses'
    BY <2>1 DEF Phases, QueueNew, Queued, Losses, Missing, Lost, Present, Installed, Records, Upgrades, NoOne
  <2>3. \A p \in targets' : p \in held' => force'
    BY <2>1 DEF Planned
  <2>4. Holds'
    BY <2>1, <2>3 DEF Phases, Holds, Installing, Present, Records, NoOne, Typed, TypeOK, Upgrades
  <2> QED BY <2>2, <2>4
<1>5. CASE InstallNext
  <2>1. PICK p \in Package, v \in Version :
              /\ pc = "install" /\ p \in Queued /\ p \notin Installed /\ queue[1] = <<p, v>>
              /\ inst' = [inst EXCEPT ![p] = v] /\ Installed' = Installed \cup {p}
              /\ held' = held
              /\ explicit' = explicit \cup (IF command = "install" THEN asked \cap {p} ELSE {})
              /\ done' = Append(done, p) /\ DoneSet' = DoneSet \cup {p}
              /\ queue' = Tail(queue) /\ Queued' = Queued \ {p}
              /\ UNCHANGED <<world, log, pc, command, asked, force, stuck, targets, cur,
                             newDeps, before, outcome>>
    BY <1>5, InstallMoves
  <2>2. Phases'
    BY <2>1 DEF Phases
  <2>3. QueueNew'
    <3>1. queue # <<>>
      BY <1>5 DEF InstallNext
    <3>2. /\ Len(queue) \in Nat /\ DOMAIN queue = 1..Len(queue) /\ DOMAIN Tail(queue) = 1..(Len(queue) - 1)
          /\ \A i \in 1..(Len(queue) - 1) : Tail(queue)[i] = queue[i + 1]
      BY <3>1, QueueType
    <3>3. \A i, j \in DOMAIN Tail(queue) : Tail(queue)[i][1] = Tail(queue)[j][1] => i = j
      <4> SUFFICES ASSUME NEW i \in 1..(Len(queue) - 1), NEW j \in 1..(Len(queue) - 1),
                          queue[i + 1][1] = queue[j + 1][1]
                   PROVE  i = j
        BY <3>2
      <4>1. i + 1 \in DOMAIN queue /\ j + 1 \in DOMAIN queue
        BY <3>2
      <4>2. i + 1 = j + 1
        BY <4>1 DEF QueueNew
      <4> QED BY <4>2
    <3> QED BY <2>1, <3>3 DEF QueueNew
  <2>4. Losses'
    BY <2>1 DEF Losses, Lost, Missing, Present
  <2>5. ASSUME Installing
        PROVE  /\ DoneSet' \subseteq (Installed \ (held \cup Present(before.inst)))'
               /\ \A i, j \in DOMAIN done' : done'[i] = done'[j] => i = j
    <3>1. p \notin held /\ p \notin Present(before.inst) /\ p \notin DoneSet
      BY <2>1, <2>5 DEF Holds, Losses, Lost, Missing, Installed, Typed, TypeOK
    <3>2. DoneSet' \subseteq (Installed \ (held \cup Present(before.inst)))'
      BY <2>1, <2>5, <3>1 DEF Holds, Present
    <3>3. /\ DOMAIN done = 1..Len(done) /\ Len(done) \in Nat
          /\ DOMAIN done' = 1..(Len(done) + 1) /\ done'[Len(done) + 1] = p
          /\ \A i \in 1..Len(done) : done'[i] = done[i]
      BY <2>1, AppendProperties DEF Typed, TypeOK
    <3>4. \A i \in 1..Len(done) : done[i] # p
      BY <3>1, <3>3 DEF DoneSet
    <3> QED BY <2>5, <3>2, <3>3, <3>4 DEF Holds
  <2>6. Holds'
    BY <2>1, <2>5 DEF Holds, Installing, Present
  <2> QED BY <2>2, <2>3, <2>4, <2>6
<1>6. CASE InstallFails
  <2>1. CASE Return("error")
    BY <1>6, <2>1, ReturnMoves DEF InstallFails
  <2>2. CASE ~Return("error")
    <3>1. /\ pc = "install" /\ pc' = "rollback" /\ queue' = <<>> /\ command = "install"
          /\ UNCHANGED <<world, inst, explicit, held, log, call, done, targets, cur, newDeps, before, outcome>>
      BY <1>6, <2>2 DEF InstallFails, records
    <3>2. Phases' /\ QueueNew'
      BY <3>1 DEF Phases, QueueNew, Queued, call
    <3>3. Losses'
      BY <3>1 DEF Losses, Lost, Missing, Present, Installed
    <3>4. Holds'
      BY <3>1 DEF Holds, Installing, DoneSet, Present, Installed, call
    <3> QED BY <3>2, <3>3, <3>4
  <2> QED BY <2>1, <2>2
<1>7. CASE UndoNext
  <2>1. PICK p \in DoneSet :
              /\ pc = "rollback" /\ p \in Package /\ p = done[Len(done)] /\ done' = Front(done)
              /\ DoneSet = DoneSet' \cup {p} /\ Len(done) \in Nat \ {0}
              /\ \/ /\ inst' = [inst EXCEPT ![p] = 0] /\ Installed' = Installed \ {p}
                    /\ explicit' = explicit \ {p} /\ held' = held \ {p} /\ stuck' = stuck
                 \/ stuck' = stuck \cup {p} /\ UNCHANGED <<inst, explicit, held>>
              /\ UNCHANGED <<world, log, pc, command, asked, force, queue, targets, cur,
                             newDeps, before, outcome>>
    BY <1>7, UndoMoves
  <2>2. /\ Installed' \in {Installed, Installed \ {p}} /\ held' \subseteq held
        /\ p \notin Present(before.inst) /\ Installing
    BY <2>1 DEF Installed, Holds, Installing, Phases
  <2>3. Phases' /\ QueueNew' /\ Losses'
    BY <2>1, <2>2 DEF Phases, QueueNew, Queued, Losses, Lost, Missing, Present
  <2>4. Holds'
    BY <1>7, <2>1, <2>2, UndoneOnce DEF Holds, Installing, Present
  <2> QED BY <2>3, <2>4
<1>8. CASE UndoDone
  BY <1>8, ReturnMoves DEF UndoDone
<1>9. CASE InstallDone
  BY <1>9, ReturnMoves DEF InstallDone
<1>10. CASE PullDone
  <2>1. /\ pc = "install" /\ pc' = "deps" /\ queue = <<>> /\ command # "install"
        /\ UNCHANGED <<world, inst, explicit, held, log, call, queue, done, targets, cur, newDeps, before, outcome>>
    BY <1>10 DEF PullDone, records
  <2> QED BY <2>1 DEF Phases, QueueNew, Queued, Losses, Lost, Missing, Present, Installed, Holds, Installing, call
<1>11. CASE RemoveOld
  <2>1. CASE Return("error")
    BY <1>11, <2>1, ReturnMoves DEF RemoveOld, Return
  <2>2. CASE ~Return("error")
    <3>1. PICK p \in cur.name : TxRemove(p)
      BY <1>11, <2>2 DEF RemoveOld
    <3>2. /\ pc = "deps" /\ pc' = "place" /\ p \in Package /\ cur.name = {p}
          /\ UNCHANGED <<world, log, call, queue, done, targets, cur, newDeps, before, outcome>>
      BY <1>11, <2>2, <3>1 DEF RemoveOld, Phases, Typed, TypeOK
    <3>3. Installed' = Installed \ {p} /\ held' = held \ {p}
      BY <3>1, <3>2 DEF TxRemove, Installed, Typed, TypeOK
    <3>4. Phases' /\ QueueNew'
      BY <3>2, <3>3 DEF Phases, QueueNew, Queued, call
    <3>5. Losses'
      BY <3>2, <3>3 DEF Losses, Lost, Missing, Present
    <3>6. Holds'
      BY <3>2, <3>3 DEF Holds, Installing, Present, call
    <3> QED BY <3>4, <3>5, <3>6
  <2> QED BY <2>1, <2>2
<1>12. CASE UpgradeDone
  BY <1>12, ReturnMoves DEF UpgradeDone
<1>13. ASSUME NEW p \in Package, UpgradeOne(p) PROVE CallInv'
  <2>1. CASE Return("error")
    BY <1>13, <2>1, ReturnMoves DEF UpgradeOne, Return
  <2>2. CASE ~Return("error")
    <3>1. /\ pc = "upgrade" /\ pc' = "deps" /\ p \in targets /\ targets' = targets \ {p} /\ cur'.name = {p}
          /\ UNCHANGED <<world, inst, explicit, held, log, call, queue, done, before, outcome>>
      BY <1>13, <2>2 DEF UpgradeOne, records
    <3> QED BY <3>1 DEF Phases, QueueNew, Queued, Losses, Lost, Missing, Present, Installed, Holds, Installing, call
  <2> QED BY <2>1, <2>2
<1>14. ASSUME NEW p \in Package, PlaceNew(p) PROVE CallInv'
  <2>1. CASE Return("error")
    BY <1>14, <2>1, ReturnMoves DEF PlaceNew, Return
  <2>2. CASE ~Return("error")
    <3>1. /\ pc = "place" /\ pc' = "upgrade" /\ p \in cur.name /\ cur.name = {p} /\ cur' = NoOne
          /\ TxInstall(p, Newest(p), cur.explicit, cur.held)
          /\ UNCHANGED <<world, call, queue, done, targets, newDeps, before, outcome>>
      BY <1>14, <2>2 DEF PlaceNew, Phases
    <3>2. Newest(p) \in Version
      BY <3>1, NewestPublished DEF Typed
    <3>3. Installed' = Installed \cup {p}
      BY <3>1, <3>2 DEF TxInstall, Installed, Version, Typed, TypeOK
    <3>4. held' \subseteq held \cup {p} /\ p \notin targets
      BY <3>1 DEF TxInstall, Flag, Phases
    <3>5. Phases' /\ QueueNew'
      BY <3>1 DEF Phases, QueueNew, Queued, NoOne, call
    <3>6. Losses'
      BY <3>1, <3>3 DEF Losses, Lost, Missing, Present
    <3>7. Holds'
      BY <3>1, <3>4 DEF Holds, Installing, Present, NoOne, call
    <3> QED BY <3>5, <3>6, <3>7
  <2> QED BY <2>1, <2>2
<1>15. ASSUME NEW d \in Package \cup Virtual, PullDependency(d) PROVE CallInv'
  <2>1. CASE Return("error")
    BY <1>15, <2>1, ReturnMoves DEF PullDependency, Return
  <2>2. CASE ~Return("error")
    <3>1. /\ pc = "deps" /\ command' = command /\ force' = force
          /\ UNCHANGED <<world, inst, explicit, held, log, call, targets, cur, before, outcome>>
      BY <1>15, <2>2 DEF PullDependency, records, call
    <3>2. CASE d \in Installed
      <4>1. UNCHANGED <<pc, queue, done>>
        BY <1>15, <2>2, <3>2 DEF PullDependency
      <4> QED BY <3>1, <4>1 DEF Phases, QueueNew, Queued, Losses, Lost, Missing, Present, Installed, Holds, Installing, call
    <3>3. CASE d \notin Installed
      <4>1. PICK plan \in Plans(d) : queue' = plan /\ pc' = "install"
        BY <1>15, <2>2, <3>3 DEF PullDependency
      <4>2. QueueNew'
        BY <3>1, <4>1, PlanMoves
      <4>3. Phases'
        BY <3>1, <4>1 DEF Phases, Upgrades
      <4>4. Losses'
        BY <3>1, <4>1 DEF Losses, Lost, Missing, Present, Installed
      <4>5. Holds'
        BY <3>1, <4>1 DEF Phases, Holds, Installing, Present, Upgrades
      <4> QED BY <4>2, <4>3, <4>4, <4>5
    <3> QED BY <3>2, <3>3
  <2> QED BY <2>1, <2>2
<1> QED BY <1>1, <1>2, <1>3, <1>4, <1>5, <1>6, <1>7, <1>8, <1>9, <1>10, <1>11, <1>12, <1>13, <1>14, <1>15
        DEF Next, BeginCommand, Step, Upgrades

LEMMA CallInit ==
    ASSUME LifecycleAssumption, Init PROVE CallInv
<1>1. Typed
  <2>1. inst \in [Package -> 0..MaxVersion] /\ log \in [Package -> 0..MaxVersion]
    BY WorldAssumption DEF Init
  <2>2. queue \in Seq(Package \X Version) /\ done \in Seq(Package)
    BY EmptySeq DEF Init
  <2>3. TypeOK
    BY <2>1, <2>2 DEF Init, TypeOK, NoOne
  <2>4. cur \in [name : SUBSET Package, explicit : BOOLEAN, held : BOOLEAN] /\ targets \cup cur.name = {}
    BY DEF Init, NoOne
  <2>5. before \in [inst : [Package -> 0..MaxVersion], explicit : SUBSET Package, held : SUBSET Package]
    BY <2>1 DEF Init, Records
  <2> QED BY <2>3, <2>4, <2>5 DEF Typed, Init
<1>2. Phases /\ QueueNew /\ Losses /\ Holds
  BY DEF Init, Phases, QueueNew, Queued, Losses, Lost, Missing, Installed, Present, Holds, Installing, Records, NoOne
<1> QED BY <1>1, <1>2 DEF CallInv

LEMMA CallStutter ==
    ASSUME CallInv, UNCHANGED vars PROVE CallInv'
<1>1. Typed'
  <2>1. TypeOK'
    BY DEF CallInv, Typed, TypeOK, vars, records, call
  <2> QED BY <2>1 DEF CallInv, Typed, vars
<1>2. Phases'
  BY DEF CallInv, Phases, vars, records, call
<1>3. QueueNew' /\ Losses'
  BY DEF CallInv, QueueNew, Queued, Losses, Lost, Missing, Installed, Present, vars, records, call
<1>4. Holds'
  BY DEF CallInv, Holds, Installing, Installed, Present, DoneSet, vars, records, call
<1> QED BY <1>1, <1>2, <1>3, <1>4 DEF CallInv

\* The invariant of a call: types, what is in hand at which step, and that a
\* running command has taken away nothing but the package it is replacing.
THEOREM CallInvariant == Spec => []CallInv
<1>1. Init => CallInv
  BY LifecycleAssumption, CallInit
<1>2. CallInv /\ [Next]_vars => CallInv'
  BY LifecycleAssumption, TypedStep, CallStep, CallStutter DEF CallInv
<1> QED BY <1>1, <1>2, PTL DEF Spec

\* The records, the log and what a command has in hand are of their types, and
\* only an installed package is marked explicit or held.
THEOREM LifecycleTypes == Spec => []TypeOK
<1>1. CallInv => TypeOK
  BY DEF CallInv, Typed
<1> QED BY <1>1, CallInvariant, PTL

\* Whatever fails of an install or an upgrade, of one package or of all, and
\* wherever, the system is short of one package at most of those it had.
THEOREM OnlyTheSwappedIsLost == Spec => []OneLossAtMost
<1>1. CallInv => OneLossAtMost
  <2> SUFFICES ASSUME CallInv PROVE Cardinality(Lost) <= 1
    BY DEF OneLossAtMost, Lost
  <2>1. CASE Lost = {}
    BY <2>1, FS_EmptySet
  <2>2. CASE Lost # {}
    <3>1. PICK p \in Lost : Lost = {p}
      BY <2>2 DEF CallInv, Losses
    <3>2. Cardinality({p}) = 1
      BY FS_Singleton
    <3> QED BY <3>1, <3>2
  <2> QED BY <2>1, <2>2
<1> QED BY <1>1, CallInvariant, PTL

(***************************************************************************)
(* What a step may do.                                                     *)
(***************************************************************************)
\* A package on hold is replaced, removed or installed anew only by an upgrade
\* told to ignore holds: plans hold only what is not installed, a rollback takes
\* away only what its own install put in, and the hold goes with the record.
THEOREM HoldsRespected == Spec => HoldRespected
<1>1. ASSUME CallInv, Next, NEW p \in held, inst'[p] # inst[p] PROVE force
  <2> USE DEF CallInv
  <2>1. p \in Package /\ p \in Installed /\ inst[p] # 0
    BY <1>1 DEF Typed, TypeOK, Installed
  <2>2. CASE InstallNext
    <3>1. \E q \in Package, v \in Version : q \notin Installed /\ inst' = [inst EXCEPT ![q] = v]
      BY <1>1, <2>2, InstallMoves
    <3> QED BY <1>1, <2>1, <3>1 DEF Typed, TypeOK
  <2>3. CASE UndoNext
    <3>1. \E q \in DoneSet : pc = "rollback" /\ (inst' = inst \/ inst' = [inst EXCEPT ![q] = 0])
      BY <1>1, <2>3, UndoMoves
    <3>2. p \notin DoneSet
      BY <1>1, <3>1 DEF Holds, Installing, Phases
    <3> QED BY <1>1, <2>1, <3>1, <3>2 DEF Typed, TypeOK
  <2>4. CASE RemoveOld
    <3>1. \E q \in cur.name : inst' = [inst EXCEPT ![q] = 0]
      BY <1>1, <2>4 DEF RemoveOld, TxRemove, records
    <3> QED BY <1>1, <2>1, <3>1 DEF Holds, Typed, TypeOK
  <2>5. ASSUME NEW q \in Package, PlaceNew(q) PROVE force
    <3>1. q \in cur.name /\ (inst' = inst \/ inst' = [inst EXCEPT ![q] = Newest(q)])
      BY <2>5 DEF PlaceNew, TxInstall, records
    <3> QED BY <1>1, <2>1, <3>1 DEF Holds, Typed, TypeOK
  <2>6. ASSUME NEW q \in Package, NEW v \in Version, InstallLocal(q, v) PROVE force
    <3>1. inst[q] = 0 /\ inst' = [inst EXCEPT ![q] = v]
      BY <2>6 DEF InstallLocal, TxInstall
    <3> QED BY <1>1, <2>1, <3>1 DEF Typed, TypeOK
  <2> QED BY <1>1, <2>2, <2>3, <2>4, <2>5, <2>6
          DEF Next, BeginCommand, Step, BeginInstall, SetHold, BeginUpgrade, InstallFails, UndoDone,
              InstallDone, PullDone, UpgradeDone, UpgradeOne, PullDependency, records
<1>2. CallInv /\ [Next]_vars => [\A p \in held : inst'[p] # inst[p] => force]_vars
  BY <1>1
<1> QED BY <1>2, CallInvariant, PTL DEF Spec, HoldRespected

\* A version is logged by the step that leaves it installed, never before.
THEOREM LogTellsTruth == Spec => HistoryNotAhead
<1>1. ASSUME CallInv, Next, NEW p \in Package, log'[p] # log[p] PROVE log'[p] = inst'[p]
  <2> USE DEF CallInv, Typed, TypeOK
  <2>1. CASE InstallDone
    BY <1>1, <2>1 DEF InstallDone, records
  <2>2. ASSUME NEW q \in Package, PlaceNew(q) PROVE log'[p] = inst'[p]
    BY <1>1, <2>2 DEF PlaceNew, TxInstall
  <2>3. ASSUME NEW q \in Package, NEW v \in Version, InstallLocal(q, v) PROVE log'[p] = inst'[p]
    BY <1>1, <2>3 DEF InstallLocal, TxInstall
  <2> QED BY <1>1, <2>1, <2>2, <2>3
          DEF Next, BeginCommand, Step, BeginInstall, SetHold, BeginUpgrade, InstallNext, InstallFails,
              UndoNext, UndoDone, RemoveOld, PullDone, UpgradeDone, UpgradeOne, PullDependency
<1>2. CallInv /\ [Next]_vars => [\A p \in Package : log'[p] # log[p] => log'[p] = inst'[p]]_vars
  BY <1>1
<1> QED BY <1>2, CallInvariant, PTL DEF Spec, HistoryNotAhead

(***************************************************************************)
(* A failed install.                                                       *)
(***************************************************************************)
LEMMA UntouchedStep ==
    ASSUME CallInv, Untouched, Next
    PROVE  Untouched'
<1> USE DEF CallInv
<1>1. ASSUME NEW p \in Package, BeginInstall(p) PROVE Untouched'
  <2>1. /\ pc = "idle" /\ before' = Records /\ outcome' = "none" /\ stuck' = {} /\ done' = <<>>
        /\ UNCHANGED <<inst, explicit, held>>
    BY <1>1 DEF BeginInstall, Begin, records, Phases
  <2> QED BY <2>1 DEF Untouched, DoneSet, Records
<1>2. ASSUME NEW p \in Package, NEW v \in Version, InstallLocal(p, v) PROVE Untouched'
  BY <1>2 DEF InstallLocal, Begin, Untouched, Installing
<1>3. ASSUME NEW p \in Package, NEW on \in BOOLEAN, SetHold(p, on) PROVE Untouched'
  BY <1>3 DEF SetHold, Begin, Untouched, Installing
<1>4. ASSUME NEW kind \in Upgrades, NEW names \in SUBSET Package,
             NEW f \in BOOLEAN, BeginUpgrade(kind, names, f)
      PROVE  Untouched'
  BY <1>4 DEF BeginUpgrade, Begin, Untouched, Installing, Upgrades
<1>5. CASE InstallNext
  <2>1. PICK p \in Package, v \in Version :
              /\ pc = "install" /\ p \notin Installed
              /\ inst' = [inst EXCEPT ![p] = v] /\ held' = held
              /\ explicit' = explicit \cup (IF command = "install" THEN asked \cap {p} ELSE {})
              /\ DoneSet' = DoneSet \cup {p}
              /\ UNCHANGED <<pc, command, stuck, before, outcome>>
    BY <1>5, InstallMoves
  <2>2. p \notin Present(before.inst) /\ p \notin before.explicit /\ p \notin explicit
    BY <2>1 DEF Losses, Lost, Missing, Holds, Installed, Typed, TypeOK
  <2>3. Installing' => Installing
    BY <2>1 DEF Installing
  <2>4. ~(command' = "install" /\ outcome' = "error")
    BY <2>1 DEF Phases
  <2>5. ASSUME Installing PROVE explicit' \ (stuck' \cup DoneSet') = before'.explicit
    <3>1. explicit \ (stuck \cup DoneSet) = before.explicit
      BY <2>5 DEF Untouched
    <3> QED BY <2>1, <2>2, <3>1
  <2>6. ASSUME Installing PROVE \A q \in Package \ (stuck' \cup DoneSet') : inst'[q] = before'.inst[q]
    BY <2>1, <2>6 DEF Untouched, Typed, TypeOK
  <2>7. Installing => held' = before'.held
    BY <2>1 DEF Untouched
  <2> QED BY <2>3, <2>4, <2>5, <2>6, <2>7 DEF Untouched
<1>6. CASE InstallFails
  BY <1>6 DEF InstallFails, Return, records, call, Untouched, Installing, DoneSet
<1>7. CASE UndoNext
  <2>1. PICK p \in DoneSet :
              /\ pc = "rollback" /\ p \in Package
              /\ DoneSet = DoneSet' \cup {p}
              /\ \/ /\ inst' = [inst EXCEPT ![p] = 0]
                    /\ explicit' = explicit \ {p} /\ held' = held \ {p} /\ stuck' = stuck
                 \/ stuck' = stuck \cup {p} /\ UNCHANGED <<inst, explicit, held>>
              /\ UNCHANGED <<command, before, outcome>>
    BY <1>7, UndoMoves
  <2>2. Installing /\ p \notin Present(before.inst) /\ p \notin held
    BY <2>1 DEF Installing, Phases, Holds
  <2>3. before.inst[p] = 0 /\ before.inst \in [Package -> 0..MaxVersion] /\ inst \in [Package -> 0..MaxVersion]
    BY <2>1, <2>2 DEF Present, Typed, TypeOK
  <2>4. /\ \A q \in Package \ (stuck \cup DoneSet) : inst[q] = before.inst[q]
        /\ explicit \ (stuck \cup DoneSet) = before.explicit /\ held = before.held
    BY <2>2 DEF Untouched
  <2>5. p \notin before.explicit
    BY <2>2 DEF Holds
  <2>6. CASE inst' = [inst EXCEPT ![p] = 0] /\ explicit' = explicit \ {p} /\ held' = held \ {p} /\ stuck' = stuck
    <3>1. \A q \in Package \ (stuck' \cup DoneSet') : inst'[q] = before'.inst[q]
      BY <2>1, <2>3, <2>4, <2>6
    <3>2. explicit' \ (stuck' \cup DoneSet') = before'.explicit
      BY <2>1, <2>4, <2>5, <2>6
    <3>3. held' = before'.held
      BY <2>1, <2>2, <2>4, <2>6
    <3> QED BY <3>1, <3>2, <3>3 DEF Untouched
  <2>7. CASE stuck' = stuck \cup {p} /\ UNCHANGED <<inst, explicit, held>>
    <3>1. stuck' \cup DoneSet' = stuck \cup DoneSet
      BY <2>1, <2>7
    <3> QED BY <2>1, <2>4, <2>7, <3>1 DEF Untouched
  <2> QED BY <2>1, <2>6, <2>7
<1>8. CASE UndoDone
  BY <1>8 DEF UndoDone, Return, records, call, Untouched, Installing, DoneSet, Phases
<1>9. CASE InstallDone
  BY <1>9 DEF InstallDone, Return, Untouched, Installing
<1>10. CASE PullDone
  BY <1>10 DEF PullDone, call, Untouched, Installing, Phases
<1>11. CASE RemoveOld
  BY <1>11 DEF RemoveOld, Return, call, Untouched, Installing, Phases, Upgrades
<1>12. CASE UpgradeDone
  BY <1>12 DEF UpgradeDone, Return, call, Untouched, Installing
<1>13. ASSUME NEW p \in Package, UpgradeOne(p) PROVE Untouched'
  BY <1>13 DEF UpgradeOne, Return, call, Untouched, Installing, Phases, Upgrades
<1>14. ASSUME NEW p \in Package, PlaceNew(p) PROVE Untouched'
  BY <1>14 DEF PlaceNew, Return, call, Untouched, Installing, Phases, Upgrades
<1>15. ASSUME NEW d \in Package \cup Virtual, PullDependency(d) PROVE Untouched'
  BY <1>15 DEF PullDependency, Return, call, Untouched, Installing, Phases, Upgrades
<1> QED BY <1>1, <1>2, <1>3, <1>4, <1>5, <1>6, <1>7, <1>8, <1>9, <1>10, <1>11, <1>12, <1>13, <1>14, <1>15
        DEF Next, BeginCommand, Step, Upgrades

\* But for what an install has put in, and what its rollback has given up on,
\* the records are the ones it found.
LEMMA UntouchedInvariant == Spec => []Untouched
<1>1. Init => Untouched
  BY DEF Init, Untouched, Installing
<1>2. CallInv /\ Untouched /\ [Next]_vars => Untouched'
  <2>1. ASSUME Untouched, UNCHANGED vars PROVE Untouched'
    BY <2>1 DEF Untouched, Installing, DoneSet, vars, records, call
  <2> QED BY <2>1, UntouchedStep
<1> QED BY <1>1, <1>2, CallInvariant, PTL DEF Spec

\* An install that fails leaves every record as it found it, flags included,
\* but for the packages its rollback could not remove: what the plan puts in
\* was not there before, and the rollback goes through all of it.
THEOREM FailedInstallIsUndone == Spec => []InstallAllOrNothing
<1>1. CallInv /\ Untouched => InstallAllOrNothing
  <2> SUFFICES ASSUME CallInv, Untouched, command = "install", outcome = "error"
               PROVE  /\ \A p \in Package \ stuck : inst[p] = before.inst[p]
                      /\ explicit \ stuck = before.explicit /\ held = before.held
    BY DEF InstallAllOrNothing
  <2>1. DoneSet = {}
    BY DEF CallInv, Phases, DoneSet
  <2> QED BY <2>1 DEF Untouched
<1> QED BY <1>1, CallInvariant, UntouchedInvariant, PTL

(***************************************************************************)
(* Flags.                                                                  *)
(***************************************************************************)
LEMMA FlagStep ==
    ASSUME LifecycleAssumption, CallInv, Untouched, FlagInv, Next
    PROVE  FlagInv'
<1> USE DEF CallInv, FlagInv
<1>1. ASSUME NEW p \in Package, BeginInstall(p) PROVE FlagInv'
  <2>1. /\ pc = "idle" /\ before' = Records /\ outcome' = "none" /\ command' = "install"
        /\ asked' = {p} /\ done' = <<>>
        /\ UNCHANGED <<inst, explicit, held>>
    BY <1>1 DEF BeginInstall, Begin, records, Phases
  <2>2. p \in Queued'
    <3>1. PICK plan \in Plans(p) : queue' = plan
      BY <1>1 DEF BeginInstall
    <3> QED BY <2>1, <3>1, PlanMoves
  <2> QED BY <2>1, <2>2 DEF Flags, FlagsSurvive, DoneSet, Upgrading, Upgrades, Records
<1>2. ASSUME NEW p \in Package, NEW v \in Version, InstallLocal(p, v) PROVE FlagInv'
  BY <1>2 DEF InstallLocal, Begin, Flags, FlagsSurvive, Upgrading
<1>3. ASSUME NEW p \in Package, NEW on \in BOOLEAN, SetHold(p, on) PROVE FlagInv'
  BY <1>3 DEF SetHold, Begin, Flags, FlagsSurvive, Upgrading
<1>4. ASSUME NEW kind \in Upgrades, NEW names \in SUBSET Package,
             NEW f \in BOOLEAN, BeginUpgrade(kind, names, f)
      PROVE  FlagInv'
  <2>1. /\ pc = "idle" /\ pc' = "upgrade" /\ before' = Records /\ outcome' = "none" /\ command' \in Upgrades
        /\ UNCHANGED <<inst, explicit, held, cur>>
    BY <1>4 DEF BeginUpgrade, Begin, records
  <2> QED BY <2>1 DEF Flags, FlagsSurvive, Missing, Upgrades, Records, Phases, NoOne
<1>5. CASE InstallNext
  <2>1. PICK p \in Package, v \in Version :
              /\ pc = "install" /\ p \in Queued /\ held' = held
              /\ explicit' = explicit \cup (IF command = "install" THEN asked \cap {p} ELSE {})
              /\ DoneSet' = DoneSet \cup {p} /\ Queued' = Queued \ {p}
              /\ UNCHANGED <<pc, command, asked, cur, before, outcome>>
    BY <1>5, InstallMoves
  <2>2. outcome' = "none"
    BY <2>1 DEF Phases, Typed, TypeOK
  <2>3. CASE command = "install"
    BY <2>1, <2>2, <2>3 DEF Flags, FlagsSurvive, Upgrading, Upgrades
  <2>4. CASE command # "install"
    BY <2>1, <2>2, <2>4 DEF Flags, FlagsSurvive, Upgrading, Missing
  <2> QED BY <2>3, <2>4
<1>6. CASE InstallFails
  BY <1>6 DEF InstallFails, Return, call, Flags, FlagsSurvive, Upgrading, Upgrades, Phases
<1>7. CASE UndoNext
  BY <1>7 DEF UndoNext, Flags, FlagsSurvive, Upgrading, Upgrades, Phases
<1>8. CASE UndoDone
  BY <1>8 DEF UndoDone, Return, call, Flags, FlagsSurvive, Upgrading
<1>9. CASE InstallDone
  <2>1. /\ pc = "install" /\ queue = <<>> /\ command = "install" /\ pc' = "idle"
        /\ UNCHANGED <<explicit, held, before, asked, command>>
    BY <1>9 DEF InstallDone, Return, records, call
  <2>2. asked \subseteq DoneSet /\ explicit = before.explicit \cup (asked \cap DoneSet)
    BY <2>1 DEF Flags, Queued
  <2>3. held = before.held
    BY <2>1 DEF Untouched, Installing
  <2> QED BY <2>1, <2>2, <2>3 DEF Flags, FlagsSurvive, Upgrading
<1>10. CASE PullDone
  BY <1>10 DEF PullDone, records, call, Flags, FlagsSurvive, Upgrading, Missing
<1>11. CASE RemoveOld
  <2>1. CASE Return("error")
    BY <2>1 DEF Return, call, Flags, FlagsSurvive, Upgrading
  <2>2. CASE ~Return("error")
    <3>1. PICK p \in cur.name : TxRemove(p)
      BY <1>11, <2>2 DEF RemoveOld
    <3>2. /\ pc = "deps" /\ pc' = "place" /\ cur.name = {p}
          /\ UNCHANGED <<command, cur, before, outcome>>
      BY <1>11, <2>2, <3>1 DEF RemoveOld, Phases, call
    <3> QED BY <3>1, <3>2 DEF TxRemove, Phases, Flags, FlagsSurvive, Upgrading, Missing
  <2> QED BY <2>1, <2>2
<1>12. CASE UpgradeDone
  <2>1. /\ pc = "upgrade" /\ pc' = "idle" /\ UNCHANGED <<explicit, held, before, command>>
    BY <1>12 DEF UpgradeDone, Return, records, call
  <2>2. held = before.held /\ explicit = before.explicit /\ command # "install"
    BY <2>1 DEF Flags, Upgrading, Missing, Phases, Upgrades
  <2> QED BY <2>1, <2>2 DEF Flags, FlagsSurvive, Upgrading
<1>13. ASSUME NEW p \in Package, UpgradeOne(p) PROVE FlagInv'
  <2>1. CASE Return("error")
    BY <2>1 DEF Return, call, Flags, FlagsSurvive, Upgrading
  <2>2. CASE ~Return("error")
    <3>1. /\ pc = "upgrade" /\ pc' = "deps" /\ cur' = [name |-> {p}, explicit |-> p \in explicit, held |-> p \in held]
          /\ UNCHANGED <<explicit, held, command, before, outcome>>
      BY <1>13, <2>2 DEF UpgradeOne, records, call
    <3>2. held = before.held /\ explicit = before.explicit
      BY <3>1 DEF Phases, Flags, Upgrading, Missing
    <3>3. \A q \in cur'.name : (cur'.held <=> q \in before'.held) /\ (cur'.explicit <=> q \in before'.explicit)
      BY <3>1, <3>2
    <3> QED BY <3>1, <3>2, <3>3 DEF Phases, Flags, FlagsSurvive, Upgrading, Missing
  <2> QED BY <2>1, <2>2
<1>14. ASSUME NEW p \in Package, PlaceNew(p) PROVE FlagInv'
  <2>1. CASE Return("error")
    BY <2>1 DEF Return, call, Flags, FlagsSurvive, Upgrading
  <2>2. CASE ~Return("error")
    <3>1. /\ pc = "place" /\ pc' = "upgrade" /\ cur.name = {p} /\ cur' = NoOne
          /\ TxInstall(p, Newest(p), cur.explicit, cur.held)
          /\ UNCHANGED <<command, before, outcome>>
      BY <1>14, <2>2 DEF PlaceNew, Phases, call
    <3>2. /\ held = before.held \ {p} /\ explicit = before.explicit \ {p}
          /\ cur.held <=> p \in before.held
          /\ cur.explicit <=> p \in before.explicit
      BY <3>1 DEF Phases, Flags, Upgrading, Missing
    <3>3. held' = before.held /\ explicit' = before.explicit
      BY <3>1, <3>2 DEF TxInstall, Flag
    <3> QED BY <3>1, <3>3 DEF Phases, Flags, FlagsSurvive, Upgrading, Missing, NoOne
  <2> QED BY <2>1, <2>2
<1>15. ASSUME NEW d \in Package \cup Virtual, PullDependency(d) PROVE FlagInv'
  <2>1. CASE Return("error")
    BY <2>1 DEF Return, call, Flags, FlagsSurvive, Upgrading
  <2>2. CASE ~Return("error")
    <3>1. /\ pc = "deps" /\ pc' \in {"deps", "install"}
          /\ UNCHANGED <<explicit, held, cur, command, before, outcome>>
      BY <1>15, <2>2 DEF PullDependency, records, call
    <3> QED BY <3>1 DEF Phases, Flags, FlagsSurvive, Upgrading, Missing, Upgrades
  <2> QED BY <2>1, <2>2
<1> QED BY <1>1, <1>2, <1>3, <1>4, <1>5, <1>6, <1>7, <1>8, <1>9, <1>10, <1>11, <1>12, <1>13, <1>14, <1>15
        DEF Next, BeginCommand, Step, Upgrades

\* A successful upgrade leaves every hold and every explicit mark as it was and
\* marks nothing it pulls in; a successful install marks what it was asked for
\* and nothing else.
THEOREM FlagsOutliveUpgrades == Spec => []FlagsSurvive
<1>1. Init => FlagInv
  BY DEF Init, FlagInv, Flags, FlagsSurvive, Upgrading
<1>2. CallInv /\ Untouched /\ FlagInv /\ [Next]_vars => FlagInv'
  <2>1. ASSUME FlagInv, UNCHANGED vars PROVE FlagInv'
    BY <2>1 DEF FlagInv, Flags, FlagsSurvive, Upgrading, Missing, DoneSet, Queued, vars, records, call
  <2> QED BY <2>1, FlagStep, LifecycleAssumption
<1>3. FlagInv => FlagsSurvive
  BY DEF FlagInv
<1> QED BY <1>1, <1>2, <1>3, CallInvariant, UntouchedInvariant, PTL DEF Spec

(***************************************************************************)
(* Dependencies during an install.                                         *)
(***************************************************************************)
LEMMA GroundedStep ==
    ASSUME LifecycleAssumption, CallInv, Untouched, Grounded, Next
    PROVE  Grounded'
<1> USE DEF CallInv
<1>1. ASSUME NEW p \in Package, BeginInstall(p) PROVE Grounded'
  <2>1. PICK plan \in Plans(p) : queue' = plan
    BY <1>1 DEF BeginInstall
  <2>2. done' = <<>> /\ UNCHANGED <<inst, world>>
    BY <1>1 DEF BeginInstall, Begin, records, Phases
  <2>3. \A i \in DOMAIN plan : \A dep \in world.deps[plan[i][1]][plan[i][2]] :
              \/ \E q \in Package : inst[q] # 0 /\ Taken(q, inst[q], dep)
              \/ \E j \in 1..(i - 1) : Taken(plan[j][1], plan[j][2], dep)
    BY PlanGrounded
  <2> QED BY <2>1, <2>2, <2>3 DEF Grounded, Taken, Publishes
<1>2. CASE InstallNext
  <2> DEFINE m == Len(queue) - 1
             n == Len(done)
  <2>1. PICK p \in Package, v \in Version :
              /\ pc = "install" /\ p \notin Installed /\ queue[1] = <<p, v>>
              /\ inst' = [inst EXCEPT ![p] = v]
              /\ done' = Append(done, p) /\ queue' = Tail(queue)
              /\ UNCHANGED <<world, pc, command, before>>
    BY <1>2, InstallMoves
  <2>2. CASE command # "install"
    BY <2>1, <2>2 DEF Grounded, Installing
  <2>3. CASE command = "install"
    <3>1. /\ m \in Nat /\ DOMAIN queue = 1..(m + 1) /\ DOMAIN queue' = 1..m
          /\ \A i \in 1..m : queue'[i] = queue[i + 1]
      BY <1>2, <2>1, QueueType DEF InstallNext
    <3>2. /\ n \in Nat /\ DOMAIN done = 1..n /\ DOMAIN done' = 1..(n + 1) /\ done'[n + 1] = p
          /\ \A i \in 1..n : done'[i] = done[i] /\ done[i] \in Package
      <4>1. done \in Seq(Package)
        BY DEF Typed, TypeOK
      <4>2. n \in Nat /\ DOMAIN done = 1..n /\ \A i \in 1..n : done[i] \in Package
        BY <4>1
      <4> QED BY <2>1, <4>1, <4>2, AppendProperties
    <3>3. inst'[p] = v /\ v # 0 /\ \A q \in Package \ {p} : inst'[q] = inst[q]
      BY <2>1 DEF Typed, TypeOK, Version
    <3>4. inst[p] = 0
      BY <2>1 DEF Installed
    <3>5. \A i \in 1..n : done[i] # p
      BY <2>1, <2>3, <3>2 DEF Holds, Installing, DoneSet
    <3>6. \A q \in Package : inst[q] # 0 => before.inst[q] # 0 \/ \E j \in 1..n : done[j] = q
      BY <2>1, <2>3, <3>2 DEF Untouched, Installing, Phases, DoneSet
    <3> HIDE DEF m, n, CallInv
    <3>7. ASSUME NEW i \in 1..n, NEW dep \in world.deps[done[i]][inst'[done[i]]]
          PROVE  \E q \in Package : /\ inst'[q] # 0 /\ Taken(q, inst'[q], dep)
                                    /\ before.inst[q] # 0 \/ \E j \in 1..(i - 1) : done'[j] = q
      <4>1. inst'[done[i]] = inst[done[i]]
        BY <3>2, <3>3, <3>5
      <4>2. PICK q \in Package : /\ inst[q] # 0 /\ Taken(q, inst[q], dep)
                                 /\ before.inst[q] # 0 \/ \E j \in 1..(i - 1) : done[j] = q
        <5>1. Installing /\ i \in DOMAIN done /\ dep \in world.deps[done[i]][inst[done[i]]]
          BY <2>1, <2>3, <3>2, <3>7, <4>1 DEF Installing
        <5> QED BY <5>1 DEF Grounded
      <4>3. inst'[q] = inst[q]
        BY <3>3, <3>4, <4>2
      <4> QED BY <3>2, <4>2, <4>3
    <3>8. ASSUME NEW dep \in world.deps[p][v]
           PROVE  \E q \in Package : /\ inst'[q] # 0 /\ Taken(q, inst'[q], dep)
                                     /\ before.inst[q] # 0 \/ \E j \in 1..n : done'[j] = q
      <4>1. 1 \in DOMAIN queue /\ queue[1][1] = p /\ queue[1][2] = v
        BY <2>1, <3>1
      <4>2. PICK q \in Package : inst[q] # 0 /\ Taken(q, inst[q], dep)
        BY <2>3, <3>8, <4>1 DEF Grounded
      <4>3. inst'[q] = inst[q]
        BY <3>3, <3>4, <4>2
      <4> QED BY <3>2, <3>6, <4>2, <4>3
    <3>9. ASSUME NEW i \in 1..m, NEW dep \in world.deps[queue'[i][1]][queue'[i][2]]
           PROVE  \/ \E q \in Package : inst'[q] # 0 /\ Taken(q, inst'[q], dep)
                  \/ \E j \in 1..(i - 1) : Taken(queue'[j][1], queue'[j][2], dep)
      <4>1. queue'[i] = queue[i + 1] /\ i + 1 \in DOMAIN queue
        BY <3>1
      <4>2. \/ \E q \in Package : inst[q] # 0 /\ Taken(q, inst[q], dep)
            \/ \E j \in 1..i : Taken(queue[j][1], queue[j][2], dep)
        BY <2>3, <3>9, <4>1 DEF Grounded
      <4>3. CASE \E q \in Package : inst[q] # 0 /\ Taken(q, inst[q], dep)
        BY <3>3, <3>4, <4>3
      <4>4. CASE \E j \in 1..i : Taken(queue[j][1], queue[j][2], dep)
        <5>1. PICK j \in 1..i : Taken(queue[j][1], queue[j][2], dep)
          BY <4>4
        <5>2. CASE j = 1
          BY <2>1, <3>3, <5>1, <5>2
        <5>3. CASE j # 1
          <6>1. j - 1 \in 1..(i - 1) /\ j - 1 \in 1..m /\ queue'[j - 1] = queue[j]
            BY <3>1, <5>3
          <6> QED BY <5>1, <6>1
        <5> QED BY <5>2, <5>3
      <4> QED BY <4>2, <4>3, <4>4
    <3>10. \A i \in DOMAIN done' : \A dep \in world.deps[done'[i]][inst'[done'[i]]] :
              \E q \in Package : /\ inst'[q] # 0 /\ Taken(q, inst'[q], dep)
                                 /\ before.inst[q] # 0 \/ \E j \in 1..(i - 1) : done'[j] = q
      <4> SUFFICES ASSUME NEW i \in 1..(n + 1), NEW dep \in world.deps[done'[i]][inst'[done'[i]]]
                   PROVE  \E q \in Package : /\ inst'[q] # 0 /\ Taken(q, inst'[q], dep)
                                             /\ before.inst[q] # 0 \/ \E j \in 1..(i - 1) : done'[j] = q
        BY <3>2
      <4>1. CASE i \in 1..n
        BY <3>2, <3>7, <4>1
      <4>2. CASE i = n + 1
        <5>1. done'[i] = p /\ inst'[done'[i]] = v /\ i - 1 = n
          BY <3>2, <3>3, <4>2
        <5> QED BY <3>8, <5>1
      <4> QED BY <3>2, <4>1, <4>2
    <3>11. \A i \in DOMAIN queue' : \A dep \in world.deps[queue'[i][1]][queue'[i][2]] :
              \/ \E q \in Package : inst'[q] # 0 /\ Taken(q, inst'[q], dep)
              \/ \E j \in 1..(i - 1) : Taken(queue'[j][1], queue'[j][2], dep)
      BY <3>1, <3>9
    <3>12. world' = world /\ before' = before
      BY <2>1
    <3>13. ASSUME NEW i \in DOMAIN done', NEW dep \in world'.deps[done'[i]][inst'[done'[i]]]
           PROVE  \E q \in Package : /\ inst'[q] # 0 /\ Taken(q, inst[q], dep)'
                                     /\ before'.inst[q] # 0 \/ \E j \in 1..(i - 1) : done'[j] = q
      <4>1. PICK q \in Package : /\ inst'[q] # 0 /\ Taken(q, inst'[q], dep)
                                 /\ before.inst[q] # 0 \/ \E j \in 1..(i - 1) : done'[j] = q
        BY <3>10, <3>12, <3>13
      <4>2. Taken(q, inst[q], dep)'
        BY <3>12, <4>1 DEF Taken, Publishes
      <4> QED BY <3>12, <4>1, <4>2
    <3>14. ASSUME NEW i \in DOMAIN queue', NEW dep \in world'.deps[queue'[i][1]][queue'[i][2]]
           PROVE  \/ \E q \in Package : inst'[q] # 0 /\ Taken(q, inst[q], dep)'
                  \/ \E j \in 1..(i - 1) : Taken(queue[j][1], queue[j][2], dep)'
      <4>1. \/ \E q \in Package : inst'[q] # 0 /\ Taken(q, inst'[q], dep)
            \/ \E j \in 1..(i - 1) : Taken(queue'[j][1], queue'[j][2], dep)
        BY <3>11, <3>12, <3>14
      <4> QED BY <3>12, <4>1 DEF Taken, Publishes
    <3> QED BY <3>13, <3>14 DEF Grounded
  <2> QED BY <2>2, <2>3
<1>3. CASE InstallFails
  BY <1>3 DEF InstallFails, Return, records, call, Grounded, Installing, Taken, Publishes
<1>4. CASE UndoNext
  <2>1. PICK p \in DoneSet :
              /\ pc = "rollback" /\ p \in Package /\ p = done[Len(done)] /\ done' = Front(done)
              /\ \/ inst' = [inst EXCEPT ![p] = 0]
                 \/ UNCHANGED inst
              /\ UNCHANGED <<world, pc, command, queue, before>>
    BY <1>4, UndoMoves
  <2>2. Installing /\ p \notin Present(before.inst) /\ queue = <<>>
    BY <2>1 DEF Installing, Phases, Holds
  <2>3. before.inst[p] = 0 /\ \A q \in Package \ {p} : inst'[q] = inst[q]
    BY <2>1, <2>2 DEF Present, Typed, TypeOK
  <2> DEFINE n == Len(done) - 1
  <2>4. /\ n \in Nat /\ DOMAIN done = 1..(n + 1) /\ DOMAIN done' = 1..n
        /\ \A i \in 1..n : done'[i] = done[i] /\ done[i] \in Package
    BY <1>4, <2>1, DoneType DEF UndoNext
  <2>5. p \notin {done'[i] : i \in 1..n}
    BY <1>4, <2>1, <2>4, UndoneOnce DEF DoneSet
  <2> HIDE DEF n, CallInv
  <2>6. ASSUME NEW i \in 1..n, NEW dep \in world.deps[done'[i]][inst'[done'[i]]]
        PROVE  \E q \in Package : /\ inst'[q] # 0 /\ Taken(q, inst'[q], dep)
                                  /\ before.inst[q] # 0 \/ \E j \in 1..(i - 1) : done'[j] = q
    <3>1. done'[i] = done[i] /\ done[i] # p /\ inst'[done[i]] = inst[done[i]] /\ i \in DOMAIN done
      BY <2>3, <2>4, <2>5
    <3>2. PICK q \in Package : /\ inst[q] # 0 /\ Taken(q, inst[q], dep)
                               /\ before.inst[q] # 0 \/ \E j \in 1..(i - 1) : done[j] = q
      BY <2>2, <2>6, <3>1 DEF Grounded
    <3>3. before.inst[q] # 0 \/ \E j \in 1..(i - 1) : done'[j] = q
      BY <2>4, <3>2
    <3>4. q # p
      BY <2>3, <2>4, <2>5, <3>3
    <3> QED BY <2>3, <3>2, <3>3, <3>4
  <2> QED BY <2>1, <2>2, <2>4, <2>6 DEF Grounded, Taken, Publishes
<1>5. ASSUME Next, ~InstallNext, ~InstallFails, ~UndoNext, \A p \in Package : ~BeginInstall(p)
      PROVE  ~Installing' /\ (command' = "install" => queue' = <<>>)
  <2>1. CASE UndoDone \/ InstallDone \/ UpgradeDone
    BY <2>1 DEF UndoDone, InstallDone, UpgradeDone, Return, Installing
  <2>2. CASE PullDone \/ RemoveOld
    BY <2>2 DEF PullDone, RemoveOld, Return, call, Installing, Phases, Upgrades
  <2>3. ASSUME NEW p \in Package, NEW v \in Version, InstallLocal(p, v) PROVE command' # "install"
    BY <2>3 DEF InstallLocal, Begin
  <2>4. ASSUME NEW p \in Package, NEW on \in BOOLEAN, SetHold(p, on) PROVE command' # "install"
    BY <2>4 DEF SetHold, Begin
  <2>5. ASSUME NEW kind \in Upgrades, NEW names \in SUBSET Package, NEW f \in BOOLEAN, BeginUpgrade(kind, names, f)
        PROVE  command' # "install"
    BY <2>5 DEF BeginUpgrade, Begin, Upgrades
  <2>6. ASSUME NEW p \in Package, UpgradeOne(p) \/ PlaceNew(p) PROVE command' # "install"
    BY <2>6 DEF UpgradeOne, PlaceNew, Return, call, Phases, Upgrades
  <2>7. ASSUME NEW d \in Package \cup Virtual, PullDependency(d) PROVE command' # "install"
    BY <2>7 DEF PullDependency, Return, call, Phases, Upgrades
  <2> QED BY <1>5, <2>1, <2>2, <2>3, <2>4, <2>5, <2>6, <2>7 DEF Next, BeginCommand, Step, Installing, Upgrades
<1>6. ASSUME ~Installing', command' = "install" => queue' = <<>> PROVE Grounded'
  BY <1>6 DEF Grounded
<1> QED BY <1>1, <1>2, <1>3, <1>4, <1>5, <1>6

\* At every step of an install, its rollback included, what the plan has put in
\* has what its dependencies were resolved to: each was taken from what was there
\* and what came before it, and the rollback goes the other way.  A dependency
\* for which nothing wrong can be taken is met.
THEOREM InstallNeverIncomplete == Spec => []NewPackagesComplete
<1>1. Init => Grounded
  BY DEF Init, Grounded, Installing
<1>2. CallInv /\ Untouched /\ Grounded /\ [Next]_vars => Grounded'
  <2>1. ASSUME Grounded, UNCHANGED vars PROVE Grounded'
    BY <2>1 DEF Grounded, Installing, Taken, Publishes, vars, records, call
  <2> QED BY <2>1, GroundedStep, LifecycleAssumption
<1>3. CallInv /\ Untouched /\ Grounded => NewPackagesComplete
  <2> SUFFICES ASSUME CallInv, Untouched, Grounded, command = "install", pc # "idle",
                      NEW p \in Installed \ (Present(before.inst) \cup stuck),
                      NEW dep \in world.deps[p][inst[p]]
               PROVE  Answered(inst, dep) /\ (Assured(dep) => Met(inst, dep))
    BY DEF NewPackagesComplete
  <2> USE DEF CallInv
  <2>1. Installing
    BY DEF Installing, Phases, Upgrades, Typed, TypeOK
  <2>2. p \in Package /\ inst[p] \in Version /\ inst \in [Package -> 0..MaxVersion]
    BY WorldAssumption DEF Installed, Typed, TypeOK, Version
  <2>3. p \in DoneSet
    BY <2>1, <2>2 DEF Untouched, Present, Installed
  <2>4. PICK i \in DOMAIN done : p = done[i]
    BY <2>3 DEF DoneSet
  <2>5. PICK q \in Package : inst[q] # 0 /\ Taken(q, inst[q], dep)
    BY <2>1, <2>4 DEF Grounded
  <2>6. dep \in Requirement
    BY <2>2, WorldType
  <2>7. Answered(inst, dep)
    BY <2>2, <2>5, <2>6, AnswersTaken DEF Answered
  <2>8. ASSUME Assured(dep) PROVE Met(inst, dep)
    <3>1. inst[q] \in Version
      BY <2>2, <2>5, WorldAssumption DEF Version
    <3>2. Meets(inst, q, dep)
      BY <2>5, <2>8, <3>1 DEF Taken, Assured, Meets
    <3> QED BY <3>2 DEF Met
  <2> QED BY <2>7, <2>8
<1> QED BY <1>1, <1>2, <1>3, CallInvariant, UntouchedInvariant, PTL DEF Spec

(***************************************************************************)
(* Dependencies across an upgrade.                                         *)
(***************************************************************************)
LEMMA SameWorldSafe ==
    ASSUME UNCHANGED <<world, before>>, NEW p
    PROVE  SafeThen(p)' <=> SafeThen(p)
BY DEF SafeThen, Present, Newest

\* A step of a running upgrade that changes no record and looks at no package
\* but those it was to upgrade.
LEMMA SameRecordsReplaced ==
    ASSUME Replaced, Upgrading, UNCHANGED <<world, before, inst>>,
           targets' \cup cur'.name \subseteq targets \cup cur.name, Missing' = Missing
    PROVE  Replaced'
<1>1. \A p : SafeThen(p)' <=> SafeThen(p)
  BY SameWorldSafe
<1>2. \A p \in targets' \cup cur'.name : SafeThen(p)'
  BY <1>1 DEF Replaced
<1>3. (Lost \subseteq Missing)'
  BY DEF Replaced, Lost, Installed, Present
<1>4. \A p \in (Present(before.inst) \ Missing)' :
          inst'[p] = before'.inst[p] \/ (inst'[p] = Newest(p)' /\ SafeThen(p)')
  BY <1>1 DEF Replaced, Present, Newest
<1> QED BY <1>2, <1>3, <1>4 DEF Replaced

LEMMA ReplacedStep ==
    ASSUME LifecycleAssumption, CallInv, Replaced, Next
    PROVE  Replaced'
<1> USE DEF CallInv
<1>1. ASSUME NEW kind \in Upgrades, NEW names \in SUBSET Package,
             NEW f \in BOOLEAN, BeginUpgrade(kind, names, f)
      PROVE  Replaced'
  <2>1. /\ pc = "idle" /\ pc' = "upgrade" /\ before' = Records /\ targets' = Planned(names, f) /\ cur' = cur
        /\ UNCHANGED <<world, inst>>
        /\ \A p \in Planned(names, f) : UpgradeSafe(p, Newest(p))
    BY <1>1 DEF BeginUpgrade, Begin, records
  <2>2. cur'.name = {}
    BY <2>1 DEF Phases, NoOne
  <2>3. Present(before.inst)' = Installed /\ before'.inst = inst
    BY <2>1 DEF Present, Records, Installed
  <2>4. \A p \in targets' \cup cur'.name : SafeThen(p)'
    BY <2>1, <2>2, <2>3 DEF UpgradeSafe, SafeThen, Newest
  <2>5. (Lost \subseteq Missing)'
    BY <2>1, <2>3 DEF Lost, Installed
  <2>6. \A p : inst'[p] = before'.inst[p]
    BY <2>1, <2>3
  <2> QED BY <2>4, <2>5, <2>6 DEF Replaced
<1>2. CASE InstallNext
  <2>1. PICK p \in Package, v \in Version :
              /\ pc = "install" /\ p \notin Installed
              /\ inst' = [inst EXCEPT ![p] = v] /\ Installed' = Installed \cup {p}
              /\ UNCHANGED <<world, pc, command, targets, cur, before, outcome>>
    BY <1>2, InstallMoves
  <2>2. \A q : SafeThen(q)' <=> SafeThen(q)
    BY <2>1, SameWorldSafe
  <2>3. outcome' # "ok"
    BY <2>1 DEF Phases
  <2>4. Missing = {} /\ Missing' = {} /\ Lost = {} /\ p \notin Present(before.inst)
    BY <2>1 DEF Missing, Losses, Lost
  <2>5. CASE Upgrading
    <3>1. \A q \in targets' \cup cur'.name : SafeThen(q)'
      BY <2>1, <2>2, <2>5 DEF Replaced
    <3>2. (Lost \subseteq Missing)'
      BY <2>1, <2>4 DEF Lost, Present
    <3>3. ASSUME NEW q \in (Present(before.inst) \ Missing)'
          PROVE  inst'[q] = before'.inst[q] \/ (inst'[q] = Newest(q)' /\ SafeThen(q)')
      <4>1. q \in Present(before.inst) \ Missing /\ q # p /\ inst'[q] = inst[q]
        BY <2>1, <2>4, <3>3 DEF Present, Typed, TypeOK
      <4>2. inst[q] = before.inst[q] \/ (inst[q] = Newest(q) /\ SafeThen(q))
        BY <2>5, <4>1 DEF Replaced
      <4> QED BY <2>1, <2>2, <4>1, <4>2 DEF Newest
    <3> QED BY <3>1, <3>2, <3>3 DEF Replaced
  <2>6. CASE ~Upgrading
    BY <2>1, <2>3, <2>6 DEF Replaced, Upgrading
  <2> QED BY <2>5, <2>6
<1>3. CASE InstallFails
  BY <1>3 DEF InstallFails, Return, call, Replaced, Upgrading, Upgrades, Phases
<1>4. CASE UndoNext \/ UndoDone \/ InstallDone
  BY <1>4 DEF UndoNext, UndoDone, InstallDone, Return, call, Replaced, Upgrading, Upgrades, Phases
<1>5. CASE PullDone
  <2>1. /\ Upgrading /\ Missing' = Missing
        /\ UNCHANGED <<world, before, inst, targets, cur>>
    BY <1>5 DEF PullDone, Upgrading, Phases, Missing, records
  <2> QED BY <2>1, SameRecordsReplaced
<1>6. CASE RemoveOld
  <2>1. CASE Return("error")
    BY <2>1 DEF Return, call, Replaced, Upgrading
  <2>2. CASE ~Return("error")
    <3>1. PICK p \in cur.name : TxRemove(p)
      BY <1>6, <2>2 DEF RemoveOld
    <3>2. /\ pc = "deps" /\ pc' = "place" /\ cur.name = {p}
          /\ UNCHANGED <<world, targets, command, cur, before, outcome>>
      BY <1>6, <2>2, <3>1 DEF RemoveOld, Phases, call
    <3>3. /\ Upgrading /\ Missing = {} /\ Missing' = {p} /\ Installed' = Installed \ {p}
          /\ \A q \in Package \ {p} : inst'[q] = inst[q]
      BY <3>1, <3>2 DEF TxRemove, Upgrading, Phases, Missing, Installed, Typed, TypeOK
    <3>4. \A q : SafeThen(q)' <=> SafeThen(q)
      BY <3>2, SameWorldSafe
    <3>5. \A q \in targets' \cup cur'.name : SafeThen(q)'
      BY <3>2, <3>3, <3>4 DEF Replaced
    <3>6. (Lost \subseteq Missing)'
      BY <3>2, <3>3 DEF Replaced, Lost, Present
    <3>7. ASSUME NEW q \in (Present(before.inst) \ Missing)'
          PROVE  inst'[q] = before'.inst[q] \/ (inst'[q] = Newest(q)' /\ SafeThen(q)')
      <4>1. q \in Present(before.inst) \ Missing /\ inst'[q] = inst[q]
        BY <3>2, <3>3, <3>7 DEF Present
      <4>2. inst[q] = before.inst[q] \/ (inst[q] = Newest(q) /\ SafeThen(q))
        BY <3>3, <4>1 DEF Replaced
      <4> QED BY <3>2, <3>4, <4>1, <4>2 DEF Newest
    <3> QED BY <3>5, <3>6, <3>7 DEF Replaced
  <2> QED BY <2>1, <2>2
<1>7. CASE UpgradeDone
  <2>1. /\ pc = "upgrade" /\ pc' = "idle" /\ targets = {} /\ targets' = {} /\ cur = NoOne /\ cur' = NoOne
        /\ UNCHANGED <<world, inst, before>>
    BY <1>7 DEF UpgradeDone, Return, records, Phases
  <2>2. Upgrading /\ Missing' = Missing
    BY <2>1 DEF Upgrading, Phases, Missing
  <2> QED BY <2>1, <2>2, SameRecordsReplaced
<1>8. ASSUME NEW p \in Package, UpgradeOne(p) PROVE Replaced'
  <2>1. CASE Return("error")
    BY <2>1 DEF Return, call, Replaced, Upgrading
  <2>2. CASE ~Return("error")
    <3>1. /\ pc = "upgrade" /\ pc' = "deps" /\ p \in targets /\ targets' = targets \ {p} /\ cur'.name = {p}
          /\ UNCHANGED <<world, inst, before>>
      BY <1>8, <2>2 DEF UpgradeOne, records
    <3>2. Upgrading /\ Missing' = Missing
      BY <3>1 DEF Upgrading, Phases, Missing
    <3> QED BY <3>1, <3>2, SameRecordsReplaced
  <2> QED BY <2>1, <2>2
<1>9. ASSUME NEW p \in Package, PlaceNew(p) PROVE Replaced'
  <2>1. CASE Return("error")
    BY <2>1 DEF Return, call, Replaced, Upgrading
  <2>2. CASE ~Return("error")
    <3>1. /\ pc = "place" /\ pc' = "upgrade" /\ cur.name = {p} /\ cur' = NoOne
          /\ inst' = [inst EXCEPT ![p] = Newest(p)]
          /\ UNCHANGED <<world, targets, before>>
      BY <1>9, <2>2 DEF PlaceNew, Phases, TxInstall
    <3>2. /\ Upgrading /\ Missing = {p} /\ Missing' = {} /\ inst'[p] = Newest(p)
          /\ \A q \in Package \ {p} : inst'[q] = inst[q]
      BY <3>1 DEF Upgrading, Phases, Missing, Typed, TypeOK
    <3>3. Newest(p) \in Version
      BY <3>1, NewestPublished DEF Typed
    <3>4. Installed' = Installed \cup {p}
      BY <3>2, <3>3 DEF Installed, Version
    <3>5. \A q : SafeThen(q)' <=> SafeThen(q)
      BY <3>1, SameWorldSafe
    <3>6. \A q \in targets' \cup cur'.name : SafeThen(q)'
      BY <3>1, <3>2, <3>5 DEF Replaced, NoOne
    <3>7. (Lost \subseteq Missing)'
      BY <3>1, <3>2, <3>4 DEF Replaced, Lost, Present
    <3>8. ASSUME NEW q \in (Present(before.inst) \ Missing)'
          PROVE  inst'[q] = before'.inst[q] \/ (inst'[q] = Newest(q)' /\ SafeThen(q)')
      <4>1. CASE q = p
        BY <3>1, <3>2, <3>5, <4>1 DEF Replaced, Newest
      <4>2. CASE q # p
        <5>1. q \in Present(before.inst) \ Missing /\ inst'[q] = inst[q]
          BY <3>1, <3>2, <3>8, <4>2 DEF Present
        <5>2. inst[q] = before.inst[q] \/ (inst[q] = Newest(q) /\ SafeThen(q))
          BY <3>2, <5>1 DEF Replaced
        <5> QED BY <3>1, <3>5, <5>1, <5>2 DEF Newest
      <4> QED BY <4>1, <4>2
    <3> QED BY <3>6, <3>7, <3>8 DEF Replaced
  <2> QED BY <2>1, <2>2
<1>10. ASSUME NEW d \in Package \cup Virtual, PullDependency(d) PROVE Replaced'
  <2>1. CASE Return("error")
    BY <2>1 DEF Return, call, Replaced, Upgrading
  <2>2. CASE ~Return("error")
    <3>1. /\ pc = "deps" /\ pc' \in {"deps", "install"}
          /\ UNCHANGED <<world, inst, before, targets, cur>>
      BY <1>10, <2>2 DEF PullDependency, records
    <3>2. Upgrading /\ Missing' = Missing
      BY <3>1 DEF Upgrading, Phases, Missing
    <3> QED BY <3>1, <3>2, SameRecordsReplaced
  <2> QED BY <2>1, <2>2
<1>11. ASSUME NEW p \in Package, NEW v \in Version, BeginInstall(p) \/ InstallLocal(p, v) PROVE Replaced'
  BY <1>11 DEF BeginInstall, InstallLocal, Begin, Replaced, Upgrading, Upgrades
<1>12. ASSUME NEW p \in Package, NEW on \in BOOLEAN, SetHold(p, on) PROVE Replaced'
  BY <1>12 DEF SetHold, Begin, Replaced, Upgrading, Upgrades
<1> QED BY <1>1, <1>2, <1>3, <1>4, <1>5, <1>6, <1>7, <1>8, <1>9, <1>10, <1>11, <1>12
        DEF Next, BeginCommand, Step, Upgrades

\* What a package that was not upgraded depended on and had before a successful
\* upgrade it has after it, as long as new versions provide what old ones did:
\* whatever is replaced was found safe for it when the command began, and all
\* else is still there.
THEOREM UpgradesLeaveOthersWhole == Spec => []OthersKeepDependencies
<1>1. Init => Replaced
  BY DEF Init, Replaced, Upgrading
<1>2. CallInv /\ Replaced /\ [Next]_vars => Replaced'
  <2>1. ASSUME Replaced, UNCHANGED vars PROVE Replaced'
    <3>1. UNCHANGED <<world, before, inst, targets, cur, pc, command, outcome>>
      BY <2>1 DEF vars, records, call
    <3> QED BY <2>1, <3>1 DEF Replaced, Upgrading, SafeThen, Newest, Present, Lost, Missing, Installed
  <2> QED BY <2>1, ReplacedStep, LifecycleAssumption
<1>3. CallInv /\ Replaced => OthersKeepDependencies
  <2> SUFFICES ASSUME CallInv, Replaced, outcome = "ok", command \in Upgrades, ProvidesKept,
                      NEW p \in Installed, inst[p] = before.inst[p],
                      NEW dep \in world.deps[p][inst[p]], Met(before.inst, dep)
               PROVE  Met(inst, dep)
    BY DEF OthersKeepDependencies, NothingLost, Upgrades
  <2> USE DEF CallInv
  <2>1. /\ p \in Package /\ inst[p] \in Version
        /\ inst \in [Package -> 0..MaxVersion] /\ before.inst \in [Package -> 0..MaxVersion]
    BY WorldAssumption DEF Installed, Typed, TypeOK, Version
  <2>2. dep \in Requirement
    BY <2>1, WorldType
  <2>3. PICK r \in Package : before.inst[r] # 0 /\ Serves(r, before.inst[r], dep)
    BY <2>1, <2>2, MeetsServes DEF Met
  <2>4. Missing = {}
    BY DEF Phases, Missing
  <2>5. r \in Present(before.inst) \ Missing /\ r \in Installed
    BY <2>3, <2>4 DEF Present, Replaced, Lost
  <2>6. inst[r] = before.inst[r] \/ (inst[r] = Newest(r) /\ SafeThen(r))
    BY <2>5 DEF Replaced
  <2>7. inst[r] # 0
    BY <2>5 DEF Installed
  <2>8. CASE inst[r] = before.inst[r]
    BY <2>1, <2>2, <2>3, <2>7, <2>8, MeetsServes DEF Met
  <2>9. CASE inst[r] # before.inst[r]
    <3>1. p \in Present(before.inst) \ {r}
      BY <2>1, <2>9 DEF Present, Version
    <3>2. dep.name = r \/ dep.name \in world.provides[r][before.inst[r]] => Newest(r) \in dep.ok
      BY <2>6, <2>9, <3>1 DEF SafeThen
    <3>3. Serves(r, inst[r], dep)
      <4>1. CASE r = dep.name
        BY <2>6, <2>9, <3>2, <4>1 DEF Serves
      <4>2. CASE dep.name \in world.provides[r][before.inst[r]]
        BY <2>3, <2>5, <4>2 DEF ProvidesKept, Serves
      <4> QED BY <2>3, <4>1, <4>2 DEF Serves
    <3> QED BY <2>1, <2>2, <2>7, <3>3, MeetsServes DEF Met
  <2> QED BY <2>8, <2>9
<1> QED BY <1>1, <1>2, <1>3, CallInvariant, PTL DEF Spec
=============================================================================
