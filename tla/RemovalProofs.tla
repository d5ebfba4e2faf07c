---------------------------- MODULE RemovalProofs ----------------------------
(***************************************************************************)
(* Removal for any packages, capabilities, dependencies and marks, with    *)
(* hooks that fail anywhere: nothing that stays loses a dependency,        *)
(* nothing wanted or essential goes, and where no packages depend on each  *)
(* other in a cycle a cascade comes to an end and takes no bystander.      *)
(***************************************************************************)
EXTENDS Removal, FiniteSetTheorems, SequenceTheorems, TLAPS

\* q cannot do without p, of the packages installed when the command began.
Needs(q, p) ==
    /\ q \in before \ {p}
    /\ \E d \in deps[q] : Satisfies(p, d) /\ \A o \in before \ {p} : ~Satisfies(o, d)

Typed ==
    /\ stack \in Seq(Frame) /\ plan \in Seq(Package)
    /\ before \subseteq Package /\ installed \subseteq before /\ force \in BOOLEAN

\* Whoever needs a package of the plan and is still there is planned before it.
Ordered ==
    \A i \in 1..Len(plan) : \A q \in installed :
        Needs(q, plan[i]) => \E j \in 1..(i - 1) : plan[j] = q

\* Who needs the package of an active call is still to be looked at, planned, or
\* the subject of the next call.
CallsCover ==
    \A k \in 1..Len(stack) : \A q \in Package :
        Needs(q, stack[k].name) =>
            \/ q \in stack[k].todo
            \/ Planned(q)
            \/ k < Len(stack) /\ stack[k + 1].name = q

PlanInv ==
    /\ Typed
    /\ pc \in {"cascade", "check", "overflow"} => installed = before
    /\ pc \in {"cascade", "check", "removing"} => Ordered
    /\ pc = "cascade" => CallsCover
    /\ command = "remove" /\ pc \in {"check", "removing"} =>
          Len(plan) <= 1 /\ (plan # <<>> => installed = before)
    /\ pc \in {"cascade", "overflow"} => command = "cascade"
    /\ pc \in {"check", "removing"} => command \in {"remove", "cascade"}
    /\ NothingBroken

\* A set of at most one element has no two.
LEMMA OneAtMost ==
    ASSUME NEW S, IsFiniteSet(S), Cardinality(S) <= 1, NEW x \in S, NEW y \in S PROVE x = y
<1> SUFFICES ASSUME x # y PROVE FALSE
  OBVIOUS
<1>1. IsFiniteSet({x}) /\ Cardinality({x}) = 1
  BY FS_Singleton
<1>2. Cardinality({x} \cup {y}) = 2
  <2>1. y \notin {x}
    OBVIOUS
  <2>2. Cardinality({x} \cup {y}) = Cardinality({x}) + 1
    BY <1>1, <2>1, FS_AddElement, Zenon
  <2> QED BY <1>1, <2>2
<1>3. Cardinality({x} \cup {y}) <= Cardinality(S)
  BY FS_Subset
<1>4. Cardinality(S) \in Nat
  BY FS_CardinalityType
<1> QED BY <1>2, <1>3, <1>4

\* While everything is still installed, dependents are those who need it.
LEMMA DependentsNeed ==
    ASSUME installed = before, NEW p, NEW q
    PROVE  q \in Dependents(p) <=> Needs(q, p)
BY DEF Dependents, OnlySatisfiedBy, Needs

\* A package goes that nobody who stays needs: what stays keeps what it had.
LEMMA GoesUnneeded ==
    ASSUME Typed, NothingBroken, NEW h, installed' = installed \ {h},
           UNCHANGED <<deps, provides, before, command>>,
           command # "cascade" \/ OneProviderEach =>
             \A q \in installed \ {h} : \A d \in deps[q] :
               Satisfies(h, d) => \E o \in installed \ {h} : Satisfies(o, d)
    PROVE  NothingBroken'
<1> SUFFICES ASSUME (command # "cascade" \/ OneProviderEach)', NEW q \in installed',
                    NEW d \in deps'[q], Satisfied(d, before)'
             PROVE  \E o \in installed' : Satisfies(o, d)'
  BY DEF NothingBroken, NothingEverBroken, Satisfied
<1>1. command # "cascade" \/ OneProviderEach
  BY DEF OneProviderEach, Satisfies
<1>2. Satisfied(d, before)
  BY DEF Satisfied, Satisfies
<1>3. PICK s \in installed : Satisfies(s, d)
  BY <1>1, <1>2 DEF NothingBroken, NothingEverBroken, Satisfied
<1>4. \E o \in installed \ {h} : Satisfies(o, d)
  BY <1>1, <1>3
<1> QED BY <1>4 DEF Satisfies

\* The head of the plan goes: nobody who stays needs it.
LEMMA HeadGoes ==
    ASSUME RemovalAssumption, PlanInv, RemoveNext, installed' # installed
    PROVE  NothingBroken'
<1> DEFINE h == Head(plan)
<1>1. /\ pc = "removing" /\ plan # <<>> /\ installed' = installed \ {h}
      /\ UNCHANGED <<deps, provides, before, command>>
  BY DEF RemoveNext, world
<1>2. Typed /\ Ordered /\ NothingBroken /\ command \in {"remove", "cascade"}
  BY <1>1 DEF PlanInv
<1>3. Len(plan) \in Nat \ {0} /\ h = plan[1] /\ h \in installed
  BY <1>1, <1>2 DEF Typed
<1>4. \A q \in installed : ~Needs(q, h)
  <2> SUFFICES ASSUME NEW q \in installed, Needs(q, h) PROVE FALSE
    OBVIOUS
  <2>1. \E j \in 1..(1 - 1) : plan[j] = q
    BY <1>2, <1>3 DEF Ordered
  <2> QED BY <2>1
<1>5. ASSUME command # "cascade" \/ OneProviderEach, NEW q \in installed \ {h},
             NEW d \in deps[q], Satisfies(h, d)
      PROVE  \E o \in installed \ {h} : Satisfies(o, d)
  <2>1. q \in before \ {h} /\ h \in before /\ before \subseteq Package
    BY <1>2, <1>3, <1>5 DEF Typed
  <2>2. PICK o \in before \ {h} : Satisfies(o, d)
    BY <1>4, <1>5, <2>1 DEF Needs
  <2>3. CASE command = "remove"
    <3>1. installed = before
      BY <1>1, <2>3 DEF PlanInv
    <3> QED BY <2>2, <3>1
  <2>4. CASE command = "cascade"
    <3> DEFINE S == {r \in before : Satisfies(r, d)}
    <3>1. Cardinality(S) <= 1
      BY <1>5, <2>1, <2>4 DEF OneProviderEach
    <3>2. S \subseteq Package
      BY <2>1
    <3>3. IsFiniteSet(S)
      BY <3>2, FS_Subset DEF RemovalAssumption
    <3>4. h \in S /\ o \in S
      BY <1>5, <2>1, <2>2
    <3>5. h = o
      BY <3>1, <3>3, <3>4, OneAtMost
    <3> QED BY <2>2, <3>5
  <2> QED BY <1>2, <2>3, <2>4
<1>6. command # "cascade" \/ OneProviderEach =>
         \A q \in installed \ {h} : \A d \in deps[q] :
           Satisfies(h, d) => \E o \in installed \ {h} : Satisfies(o, d)
  BY <1>5
<1> HIDE DEF h
<1> QED BY <1>1, <1>2, <1>6, GoesUnneeded

\* An orphan has no dependents at all.
LEMMA OrphanGoes ==
    ASSUME PlanInv, NEW p \in Package, AutoremoveOne(p), installed' # installed
    PROVE  NothingBroken'
<1>1. /\ p \in Orphans /\ installed' = installed \ {p}
      /\ UNCHANGED <<deps, provides, before, command>>
  BY DEF AutoremoveOne, world
<1>2. \A q \in installed \ {p} : \A d \in deps[q] :
         Satisfies(p, d) => \E o \in installed \ {p} : Satisfies(o, d)
  BY <1>1 DEF Orphans, Dependents, OnlySatisfiedBy
<1>3. Typed /\ NothingBroken
  BY DEF PlanInv
<1> QED BY <1>1, <1>2, <1>3, GoesUnneeded

\* A step that removes nothing breaks nothing.
LEMMA NothingGoes ==
    ASSUME NothingBroken, UNCHANGED <<deps, provides, installed, before, command>>
    PROVE  NothingBroken'
BY DEF NothingBroken, NothingEverBroken, OneProviderEach, Satisfied, Satisfies

\* The calls when the top one has taken d from what it still looks at.
Taking(d) == [stack EXCEPT ![Len(stack)].todo = @ \ {d}]

LEMMA TakingFrames ==
    ASSUME Typed, stack # <<>>, NEW d
    PROVE  /\ Taking(d) \in Seq(Frame) /\ Len(Taking(d)) = Len(stack)
           /\ \A k \in 1..Len(stack) :
                 /\ Taking(d)[k].name = stack[k].name /\ Taking(d)[k].todo \subseteq stack[k].todo
                 /\ stack[k].todo \subseteq Taking(d)[k].todo \cup {d}
                 /\ k # Len(stack) => Taking(d)[k] = stack[k]
<1> DEFINE n   == Len(stack)
           top == [stack[n] EXCEPT !.todo = @ \ {d}]
<1>1. n \in Nat \ {0} /\ stack[n] \in Frame /\ stack \in Seq(Frame)
  BY DEF Typed
<1>2. /\ top \in Frame /\ top.name = stack[n].name /\ top.todo \subseteq stack[n].todo
      /\ stack[n].todo \subseteq top.todo \cup {d}
  BY <1>1 DEF Frame
<1>3. n \in 1..Len(stack) /\ Taking(d) = [stack EXCEPT ![n] = top]
  BY <1>1 DEF Taking
<1> HIDE DEF top
<1>4. /\ Taking(d) \in Seq(Frame) /\ Len(Taking(d)) = n
      /\ \A k \in 1..n : Taking(d)[k] = IF k = n THEN top ELSE stack[k]
  BY <1>1, <1>2, <1>3, ExceptSeq
<1> QED BY <1>2, <1>4

\* plan_cascade asks for one more package, or finds it planned.
LEMMA IntoKeepsCover ==
    ASSUME PlanInv, NEW d \in Package, CascadeInto(d), pc' = "cascade"
    PROVE  CallsCover' /\ stack' \in Seq(Frame)
<1> DEFINE n    == Len(stack)
           rest == [stack EXCEPT ![n].todo = @ \ {d}]
<1>1. /\ pc = "cascade" /\ stack # <<>> /\ d \in Top.todo
      /\ UNCHANGED <<deps, provides, plan, before>>
      /\ Typed /\ CallsCover /\ installed = before
  BY DEF CascadeInto, world, PlanInv
<1>2. n \in Nat \ {0} /\ stack[n] \in Frame
  BY <1>1 DEF Typed
<1>3. /\ rest \in Seq(Frame) /\ Len(rest) = n
      /\ \A k \in 1..n : /\ rest[k].name = stack[k].name
                         /\ stack[k].todo \subseteq rest[k].todo \cup {d}
                         /\ k # n => rest[k] = stack[k]
  BY <1>1, TakingFrames DEF Taking
<1>4. \A q : (\A p : Needs(q, p)' <=> Needs(q, p)) /\ (Planned(q)' <=> Planned(q))
  BY <1>1 DEF Needs, Satisfies, Planned
<1> HIDE DEF rest
<1>5. CASE Planned(d) /\ stack' = rest
  <2>1. SUFFICES ASSUME NEW k \in 1..n, NEW q \in Package, Needs(q, stack[k].name)
                 PROVE  q \in rest[k].todo \/ Planned(q) \/ (k < n /\ rest[k + 1].name = q)
    BY <1>3, <1>4, <1>5 DEF CallsCover
  <2>2. q \in stack[k].todo \/ Planned(q) \/ (k < n /\ stack[k + 1].name = q)
    BY <1>1, <2>1 DEF CallsCover
  <2> QED BY <1>2, <1>3, <1>5, <2>2
<1>6. CASE stack' = Append(rest, [name |-> d, todo |-> Dependents(d)])
  <2> DEFINE fr == [name |-> d, todo |-> Dependents(d)]
  <2>1. fr \in Frame
    BY <1>1 DEF Frame, Dependents, Typed
  <2>2. /\ stack' \in Seq(Frame) /\ Len(stack') = n + 1 /\ stack'[n + 1] = fr
        /\ \A k \in 1..n : stack'[k] = rest[k]
    BY <1>2, <1>3, <1>6, <2>1, AppendProperties
  <2>3. ASSUME NEW k \in 1..(n + 1), NEW q \in Package, Needs(q, stack'[k].name)
        PROVE  q \in stack'[k].todo \/ Planned(q) \/ (k < n + 1 /\ stack'[k + 1].name = q)
    <3>1. CASE k = n + 1
      <4>1. Needs(q, d)
        BY <2>2, <2>3, <3>1
      <4>2. q \in Dependents(d)
        BY <1>1, <4>1, DependentsNeed
      <4> QED BY <2>2, <3>1, <4>2
    <3>2. CASE k \in 1..n
      <4>1. Needs(q, stack[k].name)
        BY <1>3, <2>2, <2>3, <3>2
      <4>2. q \in stack[k].todo \/ Planned(q) \/ (k < n /\ stack[k + 1].name = q)
        BY <1>1, <3>2, <4>1 DEF CallsCover
      <4>3. CASE q \in stack[k].todo
        <5>1. stack'[k] = rest[k] /\ (q \in rest[k].todo \/ (k = n /\ q = d))
          BY <1>3, <2>2, <3>2, <4>3
        <5>2. stack'[n + 1].name = d
          BY <2>2
        <5> QED BY <1>2, <3>2, <5>1, <5>2
      <4>4. CASE k < n /\ stack[k + 1].name = q
        <5>1. k + 1 \in 1..n /\ k \in Nat
          BY <1>2, <3>2, <4>4
        <5>2. stack'[k + 1].name = q
          BY <1>3, <2>2, <4>4, <5>1
        <5> QED BY <1>2, <4>4, <5>1, <5>2
      <4> QED BY <4>2, <4>3, <4>4
    <3> QED BY <1>2, <3>1, <3>2
  <2> QED BY <1>2, <1>4, <2>2, <2>3 DEF CallsCover
<1> QED BY <1>1, <1>5, <1>6 DEF CascadeInto, rest

\* plan_cascade plans a package once all that need it are planned.
LEMMA ReturnKeepsPlan ==
    ASSUME PlanInv, CascadeReturn
    PROVE  plan' \in Seq(Package) /\ stack' \in Seq(Frame) /\ Ordered' /\ CallsCover'
<1> DEFINE n == Len(stack)
           t == stack[n].name
<1>1. /\ pc = "cascade" /\ stack # <<>> /\ stack[n].todo = {}
      /\ plan' = IF Planned(t) THEN plan ELSE Append(plan, t)
      /\ stack' = SubSeq(stack, 1, n - 1)
      /\ UNCHANGED <<deps, provides, before, installed>>
      /\ Typed /\ CallsCover /\ Ordered
  BY DEF CascadeReturn, Top, Pop, world, PlanInv
<1>2. n \in Nat \ {0} /\ Len(plan) \in Nat /\ \A k \in 1..n : stack[k] \in Frame
  BY <1>1 DEF Typed
<1>3. t \in Package
  BY <1>2 DEF Frame
<1>4. /\ stack' \in Seq(Frame) /\ Len(stack') = n - 1
      /\ \A k \in 1..(n - 1) : stack'[k] = stack[k]
  <2>1. 1 \in Int /\ n - 1 \in Int /\ \A i \in 1..(n - 1) : stack[i] \in Frame
    BY <1>2
  <2> HIDE DEF n
  <2>2. /\ SubSeq(stack, 1, n - 1) \in Seq(Frame)
        /\ Len(SubSeq(stack, 1, n - 1)) = IF 1 <= n - 1 THEN n - 1 - 1 + 1 ELSE 0
        /\ \A i \in 1..(n - 1 - 1 + 1) : SubSeq(stack, 1, n - 1)[i] = stack[1 + i - 1]
    BY <2>1, SubSeqProperties
  <2> QED BY <1>1, <1>2, <2>2
<1>5. /\ plan' \in Seq(Package) /\ Len(plan') \in {Len(plan), Len(plan) + 1}
      /\ \A i \in 1..Len(plan) : plan'[i] = plan[i]
      /\ Len(plan') = Len(plan) + 1 => plan'[Len(plan) + 1] = t
  BY <1>1, <1>2, <1>3, AppendProperties DEF Typed
<1>6. \A p, q : Needs(q, p)' <=> Needs(q, p)
  BY <1>1 DEF Needs, Satisfies
<1>7. \A q : Planned(q) => Planned(q)'
  BY <1>2, <1>5 DEF Planned
<1>8. \E i \in 1..Len(plan') : plan'[i] = t
  <2>1. CASE Planned(t)
    BY <1>2, <1>5, <2>1 DEF Planned
  <2>2. CASE ~Planned(t)
    <3> HIDE DEF t
    <3>1. plan' = Append(plan, t)
      BY <1>1, <2>2
    <3>2. Len(plan') = Len(plan) + 1 /\ plan'[Len(plan) + 1] = t
      BY <1>1, <1>3, <3>1, AppendProperties DEF Typed
    <3>3. Len(plan) + 1 \in 1..Len(plan')
      BY <1>2, <3>2
    <3> QED BY <3>2, <3>3
  <2> QED BY <2>1, <2>2
<1>9. \A q \in Package : Needs(q, t) => Planned(q)
  BY <1>1, <1>2 DEF CallsCover
<1> HIDE DEF n, t
<1>10. Ordered'
  <2>1. SUFFICES ASSUME NEW i \in 1..Len(plan'), NEW q \in installed, Needs(q, plan'[i])
                 PROVE  \E j \in 1..(i - 1) : plan'[j] = q
    BY <1>1, <1>6 DEF Ordered
  <2>2. q \in Package
    BY <1>1 DEF Typed
  <2>3. CASE i \in 1..Len(plan)
    <3>1. PICK j \in 1..(i - 1) : plan[j] = q
      BY <1>1, <1>5, <2>1, <2>3 DEF Ordered
    <3> QED BY <1>2, <1>5, <2>3, <3>1
  <2>4. CASE i = Len(plan) + 1 /\ Len(plan') = Len(plan) + 1
    <3>1. PICK j \in 1..Len(plan) : plan[j] = q
      BY <1>5, <1>9, <2>1, <2>2, <2>4 DEF Planned
    <3> QED BY <1>2, <1>5, <2>4, <3>1
  <2> QED BY <1>2, <1>5, <2>3, <2>4
<1>11. CallsCover'
  <2>1. SUFFICES ASSUME NEW k \in 1..(n - 1), NEW q \in Package, Needs(q, stack[k].name)
                 PROVE  q \in stack[k].todo \/ Planned(q)' \/ (k < n - 1 /\ stack[k + 1].name = q)
    BY <1>2, <1>4, <1>6 DEF CallsCover
  <2>2. q \in stack[k].todo \/ Planned(q) \/ (k < n /\ stack[k + 1].name = q)
    BY <1>1, <1>2, <2>1 DEF CallsCover, n
  <2>3. CASE k < n /\ stack[k + 1].name = q
    <3>1. CASE k = n - 1
      <4>1. q = t
        BY <1>2, <2>3, <3>1 DEF t
      <4> QED BY <1>8, <4>1 DEF Planned
    <3> QED BY <1>2, <2>3, <3>1
  <2> QED BY <1>7, <2>2, <2>3
<1> QED BY <1>4, <1>5, <1>10, <1>11

LEMMA PlanStart == ASSUME RemovalAssumption, Init PROVE PlanInv
<1>1. Typed
  BY EmptySeq DEF Init, Typed
<1>2. NothingBroken
  BY DEF Init, NothingBroken, NothingEverBroken
<1> QED BY <1>1, <1>2 DEF Init, PlanInv

\* A command that begins plans nothing, or a package nobody needs.
LEMMA PlanBegins == ASSUME RemovalAssumption, PlanInv, BeginCommand PROVE PlanInv'
<1>1. /\ pc = "idle" /\ before' = installed /\ UNCHANGED <<deps, provides, installed>>
      /\ Typed /\ force' \in BOOLEAN
  BY DEF BeginCommand, BeginAutoremove, BeginRemove, BeginCascade, Begin, world, PlanInv
<1>2. NothingBroken'
  BY <1>1 DEF NothingBroken, NothingEverBroken, Satisfied, Satisfies
<1>3. CASE BeginAutoremove
  BY <1>1, <1>2, <1>3 DEF BeginAutoremove, PlanInv, Typed
<1>4. ASSUME NEW p \in Package, NEW f \in BOOLEAN, BeginRemove(p, f) PROVE PlanInv'
  <2>1. /\ plan' = <<p>> /\ UNCHANGED stack /\ pc' = "check" /\ command' = "remove"
        /\ Dependents(p) = {}
    BY <1>4 DEF BeginRemove, Begin
  <2>2. Typed'
    BY <1>1, <2>1 DEF Typed
  <2>3. Ordered'
    BY <1>1, <2>1 DEF Ordered, Needs, Satisfies, Dependents, OnlySatisfiedBy
  <2> QED BY <1>1, <1>2, <2>1, <2>2, <2>3 DEF PlanInv
<1>5. ASSUME NEW p \in Package, NEW f \in BOOLEAN, BeginCascade(p, f) PROVE PlanInv'
  <2>1. /\ stack' = <<[name |-> p, todo |-> Dependents(p)]>> /\ plan' = <<>>
        /\ pc' = "cascade" /\ command' = "cascade"
    BY <1>5 DEF BeginCascade, Begin
  <2>2. [name |-> p, todo |-> Dependents(p)] \in Frame
    BY <1>1, <1>5 DEF Frame, Dependents, Typed
  <2>3. Typed'
    BY <1>1, <2>1, <2>2 DEF Typed
  <2>4. Ordered'
    BY <2>1 DEF Ordered
  <2>5. \A q \in Package : Needs(q, p)' => q \in Dependents(p)
    BY <1>1 DEF Needs, Satisfies, Dependents, OnlySatisfiedBy
  <2>6. CallsCover'
    BY <2>1, <2>5 DEF CallsCover
  <2> QED BY <1>1, <1>2, <2>1, <2>3, <2>4, <2>6 DEF PlanInv
<1> QED BY <1>3, <1>4, <1>5 DEF BeginCommand

\* The command that runs goes on, ends or fails.
LEMMA PlanSteps == ASSUME RemovalAssumption, PlanInv, Step PROVE PlanInv'
<1>1. Typed /\ NothingBroken
  BY DEF PlanInv
<1>2. CASE CascadeReturn
  <2>1. /\ pc = "cascade" /\ pc' \in {"cascade", "check"}
        /\ UNCHANGED <<deps, provides, before, installed, command, force>>
    BY <1>2 DEF CascadeReturn, world
  <2>2. plan' \in Seq(Package) /\ stack' \in Seq(Frame) /\ Ordered' /\ CallsCover'
    BY <1>2, ReturnKeepsPlan
  <2>3. NothingBroken'
    BY <1>1, <2>1, NothingGoes
  <2> QED BY <1>1, <2>1, <2>2, <2>3 DEF PlanInv, Typed
<1>3. ASSUME NEW d \in Package, CascadeInto(d) PROVE PlanInv'
  <2>1. /\ pc = "cascade" /\ pc' \in {"cascade", "overflow"}
        /\ UNCHANGED <<deps, provides, before, installed, command, force, plan>>
        /\ pc' = "overflow" => UNCHANGED stack
    BY <1>3 DEF CascadeInto, world
  <2>2. pc' = "cascade" => CallsCover' /\ stack' \in Seq(Frame)
    BY <1>3, IntoKeepsCover
  <2>3. NothingBroken'
    BY <1>1, <2>1, NothingGoes
  <2>4. Ordered'
    BY <2>1 DEF PlanInv, Ordered, Needs, Satisfies
  <2>5. Typed'
    BY <1>1, <2>1, <2>2 DEF Typed
  <2> QED BY <1>1, <2>1, <2>2, <2>3, <2>4, <2>5 DEF PlanInv
<1>4. ASSUME pc' = "idle", UNCHANGED <<deps, provides, before, installed, command>>,
             stack' = <<>>, plan' = <<>>, force' = FALSE
      PROVE  PlanInv'
  <2>1. NothingBroken'
    BY <1>1, <1>4, NothingGoes
  <2>2. Typed'
    BY <1>1, <1>4, EmptySeq DEF Typed
  <2> QED BY <1>4, <2>1, <2>2 DEF PlanInv
<1>5. CASE Check
  <2>1. CASE pc' = "idle"
    BY <1>4, <1>5, <2>1 DEF Check, Return, world
  <2>2. CASE pc' = "removing"
    <3>1. /\ pc = "check"
          /\ UNCHANGED <<deps, provides, before, installed, command, stack, plan, force>>
      BY <1>5, <2>2 DEF Check, Return, world
    <3>2. NothingBroken'
      BY <1>1, <3>1, NothingGoes
    <3>3. Ordered'
      BY <3>1 DEF PlanInv, Ordered, Needs, Satisfies
    <3> QED BY <1>1, <2>2, <3>1, <3>2, <3>3 DEF PlanInv, Typed
  <2> QED BY <1>5, <2>1, <2>2 DEF Check, Return
<1>6. CASE RemoveNext
  <2>1. CASE pc' = "idle"
    BY <1>4, <1>6, <2>1 DEF RemoveNext, Return, world
  <2>2. CASE pc' = "removing"
    <3>1. /\ pc = "removing" /\ plan # <<>> /\ plan' = Tail(plan)
          /\ installed' = installed \ {Head(plan)}
          /\ UNCHANGED <<deps, provides, before, command, stack, force>>
      BY <1>6, <2>2 DEF RemoveNext, Return, world
    <3>2. NothingBroken'
      BY <1>1, <1>6, <3>1, HeadGoes, NothingGoes
    <3>3. /\ plan' \in Seq(Package) /\ Len(plan') = Len(plan) - 1 /\ Head(plan) = plan[1]
          /\ \A i \in 1..Len(plan') : plan'[i] = plan[i + 1]
      BY <1>1, <3>1, HeadTailProperties DEF Typed
    <3>4. Len(plan) \in Nat \ {0}
      BY <1>1, <3>1 DEF Typed
    <3>5. Ordered'
      <4>1. SUFFICES ASSUME NEW i \in 1..Len(plan'), NEW q \in installed',
                            Needs(q, plan[i + 1])
                     PROVE  \E j \in 1..(i - 1) : plan'[j] = q
        BY <3>1, <3>3 DEF Ordered, Needs, Satisfies
      <4>2. i + 1 \in 1..Len(plan) /\ q \in installed /\ q # plan[1]
        BY <3>1, <3>3, <3>4
      <4>3. PICK j \in 1..(i + 1 - 1) : plan[j] = q
        BY <3>1, <4>1, <4>2 DEF PlanInv, Ordered
      <4>4. j - 1 \in 1..(i - 1) /\ j - 1 \in 1..Len(plan')
        BY <3>3, <3>4, <4>2, <4>3
      <4>5. plan'[j - 1] = plan[j - 1 + 1] /\ j - 1 + 1 = j
        BY <3>3, <4>3, <4>4
      <4> QED BY <4>3, <4>4, <4>5
    <3>6. Typed'
      BY <1>1, <3>1, <3>3 DEF Typed
    <3>7. command = "remove" => plan' = <<>>
      BY <1>1, <3>1, <3>3, <3>4 DEF PlanInv, Typed
    <3>8. command = "remove" => Len(plan') <= 1 /\ (plan' # <<>> => installed' = before')
      BY <3>7
    <3> QED BY <2>2, <3>1, <3>2, <3>5, <3>6, <3>8 DEF PlanInv
  <2> QED BY <1>6, <2>1, <2>2 DEF RemoveNext, Return
<1>7. CASE RemoveDone
  BY <1>4, <1>7 DEF RemoveDone, Return, world
<1>8. CASE AutoremoveDone
  BY <1>4, <1>8 DEF AutoremoveDone, Return, world
<1>9. ASSUME NEW p \in Package, AutoremoveOne(p) PROVE PlanInv'
  <2>1. CASE pc' = "idle"
    BY <1>4, <1>9, <2>1 DEF AutoremoveOne, Return, world
  <2>2. CASE pc' = "autoremove"
    <3>1. /\ installed' = installed \ {p}
          /\ UNCHANGED <<deps, provides, before, command, stack, plan, force>>
      BY <1>9, <2>2 DEF AutoremoveOne, Return, world
    <3>2. NothingBroken'
      BY <1>1, <1>9, <3>1, OrphanGoes, NothingGoes
    <3> QED BY <1>1, <2>2, <3>1, <3>2 DEF PlanInv, Typed
  <2> QED BY <1>9, <2>1, <2>2 DEF AutoremoveOne, Return
<1> QED BY <1>2, <1>3, <1>5, <1>6, <1>7, <1>8, <1>9 DEF Step

LEMMA PlanStutters == ASSUME PlanInv, UNCHANGED vars PROVE PlanInv'
<1>1. UNCHANGED <<deps, provides, installed, before, command, pc, stack, plan, force>>
  BY DEF vars, world
<1>2. NothingBroken'
  BY <1>1, NothingGoes DEF PlanInv
<1>3. Typed' <=> Typed
  BY <1>1 DEF Typed
<1>4. \A p, q : Needs(q, p)' <=> Needs(q, p)
  BY <1>1 DEF Needs, Satisfies
<1>5. Ordered' <=> Ordered
  BY <1>1, <1>4 DEF Ordered
<1>6. CallsCover' <=> CallsCover
  BY <1>1, <1>4 DEF CallsCover, Planned
<1> QED BY <1>1, <1>2, <1>3, <1>5, <1>6 DEF PlanInv

\* remove, its cascade and autoremove leave nothing that stays without a
\* dependency it had, at any step and wherever a hook fails.
THEOREM RemovalBreaksNothing == RemovalAssumption => (Spec => []NothingBroken)
<1> SUFFICES ASSUME RemovalAssumption PROVE Spec => []NothingBroken
  OBVIOUS
<1>1. Init => PlanInv
  BY PlanStart
<1>2. PlanInv /\ [Next]_vars => PlanInv'
  BY PlanBegins, PlanSteps, PlanStutters DEF Next
<1>3. PlanInv => NothingBroken
  BY DEF PlanInv
<1> QED BY <1>1, <1>2, <1>3, PTL DEF Spec

\* The essential guard has seen the plan that is carried out.
GuardInv ==
    /\ pc = "removing" /\ ~force => ~EssentialPlanned
    /\ EssentialKept

LEMMA GuardSteps ==
    ASSUME PlanInv, GuardInv, [Next]_vars PROVE GuardInv'
<1>1. Typed /\ (pc \in {"cascade", "check", "overflow"} => installed = before)
  BY DEF PlanInv
<1>2. CASE BeginCommand
  <2>1. before' = installed' /\ pc' # "removing"
    BY <1>2 DEF BeginCommand, BeginAutoremove, BeginRemove, BeginCascade, Begin
  <2> QED BY <2>1 DEF GuardInv, EssentialKept
<1>3. ASSUME pc' = "idle" PROVE GuardInv'
  BY <1>3 DEF GuardInv, EssentialKept
<1>4. ASSUME pc = "cascade", pc' \in {"cascade", "check", "overflow"},
             UNCHANGED <<installed, before>>
      PROVE  GuardInv'
  BY <1>1, <1>4 DEF GuardInv, EssentialKept
<1>5. CASE CascadeReturn
  BY <1>4, <1>5 DEF CascadeReturn
<1>6. ASSUME NEW d \in Package, CascadeInto(d) PROVE GuardInv'
  BY <1>4, <1>6 DEF CascadeInto
<1>7. CASE Check
  <2>1. CASE pc' = "removing"
    <3>1. /\ pc = "check" /\ (force \/ ~EssentialPlanned)
          /\ UNCHANGED <<installed, before, essential, plan, force>>
      BY <1>7, <2>1 DEF Check, Return, world
    <3> QED BY <1>1, <3>1 DEF GuardInv, EssentialKept, EssentialPlanned
  <2> QED BY <1>3, <1>7, <2>1 DEF Check, Return
<1>8. CASE RemoveNext
  <2>1. CASE pc' = "removing"
    <3>1. /\ pc = "removing" /\ plan # <<>> /\ plan' = Tail(plan)
          /\ installed' = installed \ {Head(plan)} /\ UNCHANGED <<before, essential, force>>
      BY <1>8, <2>1 DEF RemoveNext, Return, world
    <3>2. /\ Len(plan') = Len(plan) - 1 /\ Head(plan) = plan[1] /\ Len(plan) \in Nat \ {0}
          /\ \A i \in 1..Len(plan') : plan'[i] = plan[i + 1]
      BY <1>1, <3>1, HeadTailProperties DEF Typed
    <3>3. SUFFICES ASSUME ~force PROVE GuardInv'
      BY <3>1 DEF GuardInv, EssentialKept
    <3>4. \A i \in 1..Len(plan) : plan[i] \notin essential
      BY <3>1, <3>3 DEF GuardInv, EssentialPlanned
    <3>5. Head(plan) \notin essential
      BY <3>2, <3>4
    <3>6. \A i \in 1..Len(plan') : plan'[i] \notin essential
      BY <3>2, <3>4
    <3> QED BY <2>1, <3>1, <3>3, <3>5, <3>6 DEF GuardInv, EssentialKept, EssentialPlanned
  <2> QED BY <1>3, <1>8, <2>1 DEF RemoveNext, Return
<1>9. ASSUME NEW p \in Package, AutoremoveOne(p) PROVE GuardInv'
  <2>1. CASE pc' = "autoremove"
    BY <1>9, <2>1 DEF AutoremoveOne, Orphans, Return, world, GuardInv, EssentialKept
  <2> QED BY <1>3, <1>9, <2>1 DEF AutoremoveOne, Return
<1>10. CASE RemoveDone \/ AutoremoveDone
  BY <1>3, <1>10 DEF RemoveDone, AutoremoveDone, Return
<1>11. CASE UNCHANGED vars
  BY <1>11 DEF vars, world, GuardInv, EssentialKept, EssentialPlanned
<1> QED BY <1>2, <1>5, <1>6, <1>7, <1>8, <1>9, <1>10, <1>11 DEF Next, Step

\* No command takes an essential package without --force.
THEOREM EssentialStays == RemovalAssumption => (Spec => []EssentialKept)
<1> SUFFICES ASSUME RemovalAssumption PROVE Spec => []EssentialKept
  OBVIOUS
<1>1. Init => PlanInv /\ GuardInv
  BY PlanStart DEF Init, GuardInv, EssentialKept
<1>2. PlanInv /\ GuardInv /\ [Next]_vars => PlanInv' /\ GuardInv'
  BY PlanBegins, PlanSteps, PlanStutters, GuardSteps DEF Next
<1>3. GuardInv => EssentialKept
  BY DEF GuardInv
<1> QED BY <1>1, <1>2, <1>3, PTL DEF Spec

\* The packages of S keep the only package for each of their dependencies.
KeepsProviders(S) ==
    \A p \in S : \A d \in deps[p], q \in before :
        Satisfies(q, d) /\ (\A o \in before \ {q} : ~Satisfies(o, d)) => q \in S

\* An orphan is none of what the user asked for, nor of what that needs: what
\* is left without it still keeps all of its providers.
LEMMA OrphanUnwanted ==
    ASSUME Typed, NeededByWanted \subseteq installed, NEW p \in Orphans
    PROVE  p \notin NeededByWanted
<1> DEFINE S == NeededByWanted \ {p}
<1>1. NeededByWanted = {q \in before : \A T \in SUBSET before :
                          before \cap explicit \subseteq T /\ KeepsProviders(T) => q \in T}
  BY DEF NeededByWanted, KeepsProviders
<1>2. before \cap explicit \subseteq S
  BY <1>1 DEF Orphans
<1>3. KeepsProviders(NeededByWanted)
  <2> SUFFICES ASSUME NEW q1 \in NeededByWanted, NEW d \in deps[q1], NEW q \in before,
                      Satisfies(q, d), \A o \in before \ {q} : ~Satisfies(o, d),
                      NEW T \in SUBSET before, before \cap explicit \subseteq T,
                      KeepsProviders(T)
               PROVE  q \in T
    BY <1>1 DEF KeepsProviders
  <2>1. q1 \in T
    BY <1>1
  <2> QED BY <2>1 DEF KeepsProviders
<1>4. KeepsProviders(S)
  <2> SUFFICES ASSUME NEW q1 \in S, NEW d \in deps[q1], NEW q \in before,
                      Satisfies(q, d), \A o \in before \ {q} : ~Satisfies(o, d)
               PROVE  q \in NeededByWanted /\ q # p
    BY DEF KeepsProviders
  <2>1. q \in NeededByWanted
    BY <1>3 DEF KeepsProviders
  <2>2. ASSUME q = p PROVE FALSE
    <3>1. \A o \in installed \ {p} : ~Satisfies(o, d)
      BY <2>2 DEF Typed
    <3>2. q1 \in Dependents(p)
      BY <2>2, <3>1 DEF Dependents, OnlySatisfiedBy
    <3> QED BY <3>2 DEF Orphans
  <2> QED BY <2>1, <2>2
<1>5. S \in SUBSET before
  BY <1>1
<1> HIDE DEF S
<1>6. ASSUME p \in NeededByWanted PROVE p \in S
  BY <1>1, <1>2, <1>4, <1>5, <1>6
<1> QED BY <1>6 DEF S

LEMMA WantedSteps == ASSUME PlanInv, WantedKept, [Next]_vars PROVE WantedKept'
<1>1. Typed
  BY DEF PlanInv
<1>2. SUFFICES ASSUME pc' = "autoremove" PROVE NeededByWanted' \subseteq installed'
  BY DEF WantedKept
<1>3. CASE BeginCommand
  <2>1. before' = installed'
    BY <1>3 DEF BeginCommand, BeginAutoremove, BeginRemove, BeginCascade, Begin
  <2> QED BY <2>1 DEF NeededByWanted
<1>4. ASSUME NEW p \in Package, AutoremoveOne(p)
      PROVE  NeededByWanted' \subseteq installed'
  <2>1. /\ pc = "autoremove" /\ p \in Orphans /\ installed' = installed \ {p}
        /\ UNCHANGED <<deps, provides, explicit, before>>
    BY <1>2, <1>4 DEF AutoremoveOne, Return, world
  <2>2. NeededByWanted' = NeededByWanted
    BY <2>1 DEF NeededByWanted, Satisfies
  <2>3. NeededByWanted \subseteq installed
    BY <2>1 DEF WantedKept
  <2>4. p \notin NeededByWanted
    BY <1>1, <2>1, <2>3, OrphanUnwanted
  <2> QED BY <2>1, <2>2, <2>3, <2>4
<1>5. CASE UNCHANGED vars
  <2>1. NeededByWanted' = NeededByWanted /\ installed' = installed /\ pc' = pc
    BY <1>5 DEF NeededByWanted, Satisfies, vars, world
  <2> QED BY <1>2, <2>1 DEF WantedKept
<1>6. CASE CascadeReturn \/ Check \/ RemoveNext \/ RemoveDone \/ AutoremoveDone
  BY <1>2, <1>6 DEF CascadeReturn, Check, RemoveNext, RemoveDone, AutoremoveDone, Return, world
<1>7. ASSUME NEW d \in Package, CascadeInto(d) PROVE FALSE
  BY <1>2, <1>7 DEF CascadeInto
<1> QED BY <1>3, <1>4, <1>5, <1>6, <1>7 DEF Next, Step

\* autoremove keeps what the user asked for and all that it needs.
THEOREM WantedStays == RemovalAssumption => (Spec => []WantedKept)
<1> SUFFICES ASSUME RemovalAssumption PROVE Spec => []WantedKept
  OBVIOUS
<1>1. Init => PlanInv /\ WantedKept
  BY PlanStart DEF Init, WantedKept
<1>2. PlanInv /\ WantedKept /\ [Next]_vars => PlanInv' /\ WantedKept'
  BY PlanBegins, PlanSteps, PlanStutters, WantedSteps DEF Next
<1>3. WantedKept => WantedKept
  OBVIOUS
<1> QED BY <1>1, <1>2, <1>3, PTL DEF Spec

(***************************************************************************)
(* Cascades without cycles.                                                *)
(***************************************************************************)
Uses(q, p) == q # p /\ \E d \in deps[q] : Satisfies(p, d)

Upwards(s) == \A k \in 1..(Len(s) - 1) : Uses(s[k + 1].name, s[k].name)

\* The active calls: each is made for a package that uses the one of the call
\* below, none is for a package already planned, and the first is for the
\* package named by the command.
Calls ==
    /\ Upwards(stack)
    /\ \A k \in 1..Len(stack) : /\ \A q \in stack[k].todo : Uses(q, stack[k].name)
                                /\ ~Planned(stack[k].name)
    /\ stack # <<>> => stack[1].name \in asked

\* Whatever is planned uses something planned later, or about to be.
Justified ==
    \A i \in 1..Len(plan) :
        \/ \E j \in (i + 1)..Len(plan) : Uses(plan[i], plan[j])
        \/ \E k \in 1..Len(stack) : Uses(plan[i], stack[k].name)

Ends ==
    plan # <<>> => /\ plan[Len(plan)] \in asked
                   /\ \A i \in 1..(Len(plan) - 1) :
                         \E j \in (i + 1)..Len(plan) : Uses(plan[i], plan[j])

CascadeInv ==
    Acyclic =>
        /\ pc = "cascade" => Calls /\ Justified
        /\ pc \in {"check", "removing"} => Ends

\* Where no packages use each other in a cycle, no package has two calls.
LEMMA NoCallTwice ==
    ASSUME Acyclic, NEW s \in Seq(Frame), Upwards(s),
           NEW i \in 1..Len(s), NEW j \in 1..Len(s), i < j
    PROVE  s[i].name # s[j].name
<1> SUFFICES ASSUME s[i].name = s[j].name PROVE FALSE
  OBVIOUS
<1> DEFINE S == {s[k].name : k \in (i + 1)..j}
<1>1. \A k \in 1..Len(s) : s[k].name \in Package
  <2>1. \A k \in 1..Len(s) : s[k] \in Frame
    OBVIOUS
  <2> QED BY <2>1 DEF Frame
<1>2. S \in SUBSET Package /\ s[j].name \in S
  BY <1>1
<1>3. ASSUME NEW p \in S PROVE \E q \in S, d \in deps[p] : q # p /\ Satisfies(q, d)
  <2>1. PICK k \in (i + 1)..j : p = s[k].name
    BY <1>3
  <2>2. k - 1 \in 1..(Len(s) - 1) /\ (k - 1) + 1 = k
    BY <2>1
  <2>3. Uses(p, s[k - 1].name)
    BY <2>1, <2>2 DEF Upwards
  <2>4. s[k - 1].name \in S
    <3>1. CASE k - 1 = i
      BY <1>2, <3>1
    <3>2. CASE k - 1 # i
      <4>1. k - 1 \in (i + 1)..j
        BY <2>1, <3>2
      <4> QED BY <4>1
    <3> QED BY <3>1, <3>2
  <2> HIDE DEF S
  <2> QED BY <2>3, <2>4 DEF Uses
<1> HIDE DEF S
<1>4. Cycle(S)
  BY <1>2, <1>3 DEF Cycle
<1> QED BY <1>2, <1>4 DEF Acyclic

LEMMA DependentsUse ==
    ASSUME NEW p, NEW q \in Dependents(p) PROVE Uses(q, p)
BY DEF Dependents, OnlySatisfiedBy, Uses

\* A call is made for a package that uses the one above which it is made.
LEMMA IntoKeepsCalls ==
    ASSUME PlanInv, Calls, Justified, NEW d \in Package, CascadeInto(d), pc' = "cascade"
    PROVE  Calls' /\ Justified'
<1> DEFINE n    == Len(stack)
           rest == Taking(d)
<1>1. /\ pc = "cascade" /\ stack # <<>> /\ d \in stack[n].todo /\ Typed
      /\ UNCHANGED <<deps, provides, plan, asked>>
  BY DEF CascadeInto, world, PlanInv, Top
<1>2. n \in Nat \ {0}
  BY <1>1 DEF Typed
<1>3. /\ rest \in Seq(Frame) /\ Len(rest) = n
      /\ \A k \in 1..n : rest[k].name = stack[k].name /\ rest[k].todo \subseteq stack[k].todo
  BY <1>1, TakingFrames
<1>4. /\ \A p, q : Uses(p, q)' <=> Uses(p, q)
      /\ \A p : Planned(p)' <=> Planned(p)
  BY <1>1 DEF Uses, Satisfies, Planned
<1>5. /\ \A k \in 1..(n - 1) : Uses(stack[k + 1].name, stack[k].name)
      /\ \A k \in 1..n : /\ \A q \in stack[k].todo : Uses(q, stack[k].name)
                         /\ ~Planned(stack[k].name)
      /\ stack[1].name \in asked
  BY <1>1 DEF Calls, Upwards
<1>6. Uses(d, stack[n].name)
  BY <1>1, <1>2, <1>5
<1>7. (Planned(d) /\ stack' = rest) \/ (~Planned(d) /\ stack' = Append(rest, [name |-> d, todo |-> Dependents(d)]))
  BY <1>1 DEF CascadeInto, Taking
<1> HIDE DEF rest
<1>8. CASE Planned(d) /\ stack' = rest
  <2>1. Calls'
    BY <1>1, <1>2, <1>3, <1>4, <1>5, <1>8 DEF Calls, Upwards
  <2>2. Justified'
    BY <1>1, <1>2, <1>3, <1>4, <1>8 DEF Justified
  <2> QED BY <2>1, <2>2
<1>9. CASE ~Planned(d) /\ stack' = Append(rest, [name |-> d, todo |-> Dependents(d)])
  <2> DEFINE fr == [name |-> d, todo |-> Dependents(d)]
  <2>1. fr \in Frame
    BY <1>1 DEF Frame, Dependents, Typed
  <2>2. /\ Len(stack') = n + 1 /\ stack'[n + 1].name = d /\ stack'[n + 1].todo = Dependents(d)
        /\ \A k \in 1..n : stack'[k] = rest[k]
    BY <1>2, <1>3, <1>9, <2>1, AppendProperties
  <2> HIDE DEF n
  <2>3. Upwards(stack)'
    <3> SUFFICES ASSUME NEW k \in 1..n PROVE Uses(stack'[k + 1].name, stack'[k].name)
      BY <1>2, <1>4, <2>2 DEF Upwards
    <3>1. CASE k = n
      BY <1>2, <1>3, <1>6, <2>2, <3>1
    <3>2. CASE k # n
      <4>1. k + 1 \in 1..n /\ k \in 1..(n - 1)
        BY <1>2, <3>2
      <4> QED BY <1>3, <1>5, <2>2, <4>1
    <3> QED BY <3>1, <3>2
  <2>4. ASSUME NEW k \in 1..(n + 1)
        PROVE  (\A q \in stack'[k].todo : Uses(q, stack'[k].name)) /\ ~Planned(stack'[k].name)
    <3>1. CASE k = n + 1
      BY <1>9, <2>2, <3>1, DependentsUse
    <3>2. CASE k # n + 1
      <4>1. k \in 1..n
        BY <1>2, <3>2
      <4> QED BY <1>3, <1>5, <2>2, <4>1
    <3> QED BY <3>1, <3>2
  <2>5. stack'[1].name \in asked'
    BY <1>1, <1>2, <1>3, <1>5, <2>2
  <2>6. Calls'
    BY <1>4, <2>2, <2>3, <2>4, <2>5 DEF Calls
  <2>7. \A k \in 1..n : k \in 1..(n + 1) /\ stack'[k].name = stack[k].name
    BY <1>2, <1>3, <2>2
  <2>8. Justified'
    BY <1>1, <1>4, <2>2, <2>7 DEF Justified, n
  <2> QED BY <2>6, <2>8
<1> QED BY <1>7, <1>8, <1>9

\* What a call plans uses the package of the call below it, which is planned
\* after it; the last call plans the package the command names.
LEMMA ReturnKeepsCalls ==
    ASSUME Acyclic, PlanInv, Calls, Justified, CascadeReturn
    PROVE  /\ pc' = "cascade" => Calls' /\ Justified'
           /\ pc' = "check" => Ends'
<1> DEFINE n == Len(stack)
           m == Len(plan)
           t == stack[n].name
<1>1. /\ pc = "cascade" /\ stack # <<>> /\ Typed
      /\ plan' = IF Planned(t) THEN plan ELSE Append(plan, t)
      /\ stack' = SubSeq(stack, 1, n - 1)
      /\ pc' = IF n = 1 THEN "check" ELSE "cascade"
      /\ UNCHANGED <<deps, provides, asked>>
  BY DEF CascadeReturn, Top, Pop, world, PlanInv
<1>2. n \in Nat \ {0} /\ m \in Nat /\ \A k \in 1..n : stack[k] \in Frame /\ stack[k].name \in Package
  <2>1. n \in Nat \ {0} /\ m \in Nat /\ \A k \in 1..n : stack[k] \in Frame
    BY <1>1 DEF Typed
  <2> QED BY <2>1 DEF Frame
<1>3. /\ Len(stack') = n - 1 /\ \A k \in 1..(n - 1) : stack'[k] = stack[k]
  <2> DEFINE l == n - 1
  <2>1. l \in Nat /\ \A i \in 1..l : stack[i] \in Frame
    BY <1>2
  <2>2. stack' = SubSeq(stack, 1, l)
    BY <1>1
  <2> HIDE DEF l
  <2>3. Len(stack') = l /\ \A k \in 1..l : stack'[k] = stack[k]
    BY <2>1, <2>2, SubSeqProperties
  <2> QED BY <2>3 DEF l
<1>4. /\ \A k \in 1..(n - 1) : Uses(stack[k + 1].name, stack[k].name)
      /\ \A k \in 1..n : /\ \A q \in stack[k].todo : Uses(q, stack[k].name)
                         /\ ~Planned(stack[k].name)
      /\ stack[1].name \in asked
  BY <1>1 DEF Calls, Upwards
<1>5. plan' = Append(plan, t) /\ t \in Package
  BY <1>1, <1>2, <1>4
<1>6. /\ Len(plan') = m + 1 /\ plan'[m + 1] = t /\ \A i \in 1..m : plan'[i] = plan[i]
  BY <1>1, <1>5, AppendProperties DEF Typed
<1>7. \A p, q : Uses(p, q)' <=> Uses(p, q)
  BY <1>1 DEF Uses, Satisfies
<1>8. ASSUME NEW k \in 1..(n - 1) PROVE stack[k].name # t
  <2>1. stack \in Seq(Frame) /\ Upwards(stack) /\ k \in 1..Len(stack) /\ n \in 1..Len(stack) /\ k < n
    BY <1>1, <1>2 DEF Typed, Calls
  <2> HIDE DEF n
  <2> QED BY <2>1, NoCallTwice DEF t
<1>9. \A i \in 1..m : \/ \E j \in (i + 1)..m : Uses(plan[i], plan[j])
                      \/ \E k \in 1..n : Uses(plan[i], stack[k].name)
  BY DEF Justified
<1>10. \A i \in 1..m : \/ \E j \in (i + 1)..(m + 1) : Uses(plan[i], plan'[j])
                       \/ \E k \in 1..(n - 1) : Uses(plan[i], stack[k].name)
  <2> SUFFICES ASSUME NEW i \in 1..m, ~\E k \in 1..(n - 1) : Uses(plan[i], stack[k].name)
               PROVE  \E j \in (i + 1)..(m + 1) : Uses(plan[i], plan'[j])
    OBVIOUS
  <2>1. CASE \E j \in (i + 1)..m : Uses(plan[i], plan[j])
    <3>1. PICK j \in (i + 1)..m : Uses(plan[i], plan[j])
      BY <2>1
    <3>2. j \in (i + 1)..(m + 1) /\ j \in 1..m
      BY <1>2, <3>1
    <3> QED BY <1>6, <3>1, <3>2
  <2>2. CASE \E k \in 1..n : Uses(plan[i], stack[k].name)
    <3>1. Uses(plan[i], t)
      BY <1>2, <2>2
    <3>2. m + 1 \in (i + 1)..(m + 1)
      BY <1>2
    <3> QED BY <1>6, <3>1, <3>2
  <2> QED BY <1>9, <2>1, <2>2
<1> HIDE DEF n, m, t
<1>11. CASE n = 1
  <2>1. pc' = "check" /\ t \in asked'
    BY <1>1, <1>4, <1>11 DEF t
  <2>2. ASSUME NEW i \in 1..m PROVE \E j \in (i + 1)..(m + 1) : Uses(plan'[i], plan'[j])
    BY <1>2, <1>6, <1>10, <1>11
  <2>3. Len(plan') - 1 = m
    BY <1>2, <1>6
  <2> QED BY <1>6, <1>7, <2>1, <2>2, <2>3 DEF Ends
<1>12. CASE n # 1
  <2>1. pc' = "cascade" /\ n - 1 \in 1..(n - 1)
    BY <1>1, <1>2, <1>12
  <2>2. Upwards(stack)'
    <3> SUFFICES ASSUME NEW k \in 1..(n - 1 - 1) PROVE Uses(stack'[k + 1].name, stack'[k].name)
      BY <1>3, <1>7 DEF Upwards
    <3>1. k \in 1..(n - 1) /\ k + 1 \in 1..(n - 1)
      BY <1>2
    <3> QED BY <1>3, <1>4, <3>1
  <2>3. ASSUME NEW k \in 1..(n - 1)
        PROVE  /\ \A q \in stack'[k].todo : Uses(q, stack'[k].name)
               /\ \A i \in 1..(m + 1) : plan'[i] # stack'[k].name
    <3>1. k \in 1..n /\ stack'[k] = stack[k]
      BY <1>2, <1>3
    <3>2. \A i \in 1..(m + 1) : plan'[i] # stack[k].name
      BY <1>2, <1>4, <1>6, <1>8, <3>1 DEF Planned, m
    <3> QED BY <1>4, <3>1, <3>2
  <2>4. stack'[1].name \in asked'
    BY <1>1, <1>2, <1>3, <1>4, <1>12
  <2>5. Calls'
    BY <1>3, <1>6, <1>7, <2>2, <2>3, <2>4 DEF Calls, Planned
  <2>6. ASSUME NEW i \in 1..(m + 1)
        PROVE  \/ \E j \in (i + 1)..(m + 1) : Uses(plan'[i], plan'[j])
               \/ \E k \in 1..(n - 1) : Uses(plan'[i], stack'[k].name)
    <3>1. CASE i = m + 1
      <4>1. (n - 1) + 1 = n /\ Uses(t, stack[n - 1].name)
        BY <1>2, <1>4, <2>1 DEF t
      <4> QED BY <1>3, <1>6, <2>1, <3>1, <4>1
    <3>2. CASE i # m + 1
      <4>1. i \in 1..m
        BY <1>2, <3>2
      <4> QED BY <1>3, <1>6, <1>10, <4>1
    <3> QED BY <3>1, <3>2
  <2>7. Justified'
    BY <1>3, <1>6, <1>7, <2>6 DEF Justified
  <2> QED BY <2>1, <2>5, <2>7
<1> QED BY <1>11, <1>12

LEMMA CascadeSteps ==
    ASSUME RemovalAssumption, PlanInv, CascadeInv, [Next]_vars
    PROVE  CascadeInv'
<1>1. UNCHANGED <<deps, provides>>
  BY DEF Next, BeginCommand, BeginAutoremove, BeginRemove, BeginCascade, Begin, Step, CascadeInto,
         CascadeReturn, Check, RemoveNext, RemoveDone, AutoremoveOne, AutoremoveDone, Return, world, vars
<1>2. Acyclic' <=> Acyclic
  BY <1>1 DEF Acyclic, Cycle, Satisfies
<1>3. SUFFICES ASSUME Acyclic
               PROVE  /\ pc' = "cascade" => Calls' /\ Justified'
                      /\ pc' \in {"check", "removing"} => Ends'
  BY <1>2 DEF CascadeInv
<1>4. /\ pc = "cascade" => Calls /\ Justified
      /\ pc \in {"check", "removing"} => Ends
  BY <1>3 DEF CascadeInv
<1>5. \A p, q : Uses(p, q)' <=> Uses(p, q)
  BY <1>1 DEF Uses, Satisfies
<1>6. Typed
  BY DEF PlanInv
<1>7. CASE BeginAutoremove
  BY <1>7 DEF BeginAutoremove
<1>8. ASSUME NEW p \in Package, NEW f \in BOOLEAN, BeginRemove(p, f)
      PROVE  pc' = "check" /\ Ends'
  <2>1. pc' = "check" /\ plan' = <<p>> /\ asked' = {p}
    BY <1>8 DEF BeginRemove, Begin
  <2>2. Len(plan') = 1 /\ plan'[1] = p
    BY <2>1
  <2> QED BY <2>1, <2>2 DEF Ends
<1>9. ASSUME NEW p \in Package, NEW f \in BOOLEAN, BeginCascade(p, f)
      PROVE  pc' = "cascade" /\ Calls' /\ Justified'
  <2>1. /\ pc' = "cascade" /\ plan' = <<>> /\ asked' = {p}
        /\ stack' = <<[name |-> p, todo |-> Dependents(p)]>>
    BY <1>9 DEF BeginCascade, Begin
  <2>2. Len(stack') = 1 /\ stack'[1].name = p /\ stack'[1].todo = Dependents(p) /\ Len(plan') = 0
    BY <2>1
  <2>3. \A q \in Dependents(p) : Uses(q, p)
    BY DependentsUse
  <2> QED BY <1>5, <2>1, <2>2, <2>3 DEF Calls, Upwards, Planned, Justified
<1>10. ASSUME NEW d \in Package, CascadeInto(d)
       PROVE  /\ pc' = "cascade" => Calls' /\ Justified'
              /\ pc' \notin {"check", "removing"}
  BY <1>4, <1>10, IntoKeepsCalls DEF CascadeInto
<1>11. CASE CascadeReturn
  BY <1>3, <1>4, <1>11, ReturnKeepsCalls DEF CascadeReturn
<1>12. CASE Check
  <2>1. CASE pc' = "removing"
    <3>1. pc = "check" /\ UNCHANGED <<plan, asked>>
      BY <1>12, <2>1 DEF Check, Return
    <3> QED BY <1>4, <1>5, <2>1, <3>1 DEF Ends
  <2> QED BY <1>12, <2>1 DEF Check, Return
<1>13. CASE RemoveNext
  <2>1. CASE pc' = "idle"
    BY <2>1
  <2>2. CASE pc' # "idle"
    <3>1. /\ pc = "removing" /\ pc' = "removing" /\ plan # <<>> /\ plan' = Tail(plan) /\ asked' = asked
      BY <1>13, <2>2 DEF RemoveNext, Return
    <3> DEFINE m == Len(plan) - 1
    <3>2. /\ m \in Nat /\ Len(plan) = m + 1 /\ Len(plan') = m
          /\ \A i \in 1..m : plan'[i] = plan[i + 1]
      BY <1>6, <3>1, HeadTailProperties DEF Typed
    <3> HIDE DEF m
    <3>3. /\ plan[m + 1] \in asked
          /\ \A i \in 1..m : \E j \in (i + 1)..(m + 1) : Uses(plan[i], plan[j])
      BY <1>4, <3>1, <3>2 DEF Ends
    <3>4. ASSUME plan' # <<>> PROVE m \in 1..m
      BY <1>6, <3>1, <3>2, <3>4, HeadTailProperties, EmptySeq DEF Typed
    <3>5. ASSUME NEW i \in 1..(m - 1) PROVE \E j \in (i + 1)..m : Uses(plan'[i], plan'[j])
      <4>1. i \in 1..m /\ i + 1 \in 1..m /\ plan'[i] = plan[i + 1]
        BY <3>2
      <4>2. PICK j \in (i + 1 + 1)..(m + 1) : Uses(plan[i + 1], plan[j])
        BY <3>3, <4>1
      <4>3. j - 1 \in (i + 1)..m /\ j - 1 \in 1..m /\ (j - 1) + 1 = j
        BY <3>2, <4>2
      <4>4. plan'[j - 1] = plan[j]
        BY <3>2, <4>3
      <4> QED BY <4>1, <4>2, <4>3, <4>4
    <3> QED BY <1>5, <3>1, <3>2, <3>3, <3>4, <3>5 DEF Ends
  <2> QED BY <2>1, <2>2
<1>14. CASE RemoveDone \/ AutoremoveDone
  BY <1>14 DEF RemoveDone, AutoremoveDone, Return
<1>15. ASSUME NEW p \in Package, AutoremoveOne(p) PROVE pc' \in {"idle", "autoremove"}
  BY <1>15 DEF AutoremoveOne, Return
<1>16. CASE UNCHANGED vars
  <2>1. UNCHANGED <<pc, stack, plan, asked>>
    BY <1>16 DEF vars
  <2>2. Calls' <=> Calls
    BY <1>5, <2>1 DEF Calls, Upwards, Planned
  <2> QED BY <1>4, <1>5, <2>1, <2>2 DEF Justified, Ends
<1> QED BY <1>7, <1>8, <1>9, <1>10, <1>11, <1>12, <1>13, <1>14, <1>15, <1>16 DEF Next, BeginCommand, Step

LEMMA CascadeInvariant == RemovalAssumption => (Spec => [](PlanInv /\ CascadeInv))
<1> SUFFICES ASSUME RemovalAssumption PROVE Spec => [](PlanInv /\ CascadeInv)
  OBVIOUS
<1>1. Init => PlanInv /\ CascadeInv
  BY PlanStart DEF Init, CascadeInv
<1>2. PlanInv /\ CascadeInv /\ [Next]_vars => PlanInv' /\ CascadeInv'
  BY PlanBegins, PlanSteps, PlanStutters, CascadeSteps DEF Next
<1> QED BY <1>1, <1>2, PTL DEF Spec

\* Where no packages use each other in a cycle, everything a cascade removes
\* uses something it removes later, and what was named goes last: no bystander
\* goes.
THEOREM CascadeTakesNoBystander == RemovalAssumption => (Spec => []CascadeIsJustified)
<1>1. CascadeInv => CascadeIsJustified
  BY DEF CascadeInv, CascadeIsJustified, Ends, Uses
<1> QED BY <1>1, CascadeInvariant, PTL

\* Where no packages use each other in a cycle, the recursion needs no more
\* calls than there are packages: with room for so many, it returns.
THEOREM CascadeNeedsFewCalls ==
    RemovalAssumption /\ Cardinality(Package) <= MaxDepth => (Spec => []AcyclicCascadeReturns)
<1> SUFFICES ASSUME RemovalAssumption, Cardinality(Package) <= MaxDepth
             PROVE  Spec => []AcyclicCascadeReturns
  OBVIOUS
<1>1. Init => AcyclicCascadeReturns
  BY DEF Init, AcyclicCascadeReturns, CascadeReturns
<1>2. ASSUME PlanInv, CascadeInv, Acyclic, NEW d \in Package, CascadeInto(d) PROVE pc' # "overflow"
  <2> SUFFICES ASSUME pc' = "overflow" PROVE FALSE
    OBVIOUS
  <2> DEFINE n  == Len(stack)
             fr == [name |-> d, todo |-> {}]
             s  == Append(stack, fr)
             f  == [k \in 1..(n + 1) |-> s[k].name]
  <2>1. pc = "cascade" /\ stack # <<>> /\ d \in stack[n].todo /\ n >= MaxDepth
    BY <1>2 DEF CascadeInto, Top
  <2>2. Calls /\ stack \in Seq(Frame) /\ n \in Nat \ {0} /\ fr \in Frame
    BY <1>2, <2>1 DEF CascadeInv, PlanInv, Typed, Frame
  <2>3. /\ s \in Seq(Frame) /\ Len(s) = n + 1 /\ s[n + 1] = fr
        /\ \A k \in 1..n : s[k] = stack[k]
    BY <2>2, AppendProperties
  <2>4. Uses(d, stack[n].name)
    BY <2>1, <2>2 DEF Calls
  <2> HIDE DEF n, s
  <2>5. Upwards(s)
    <3> SUFFICES ASSUME NEW k \in 1..n PROVE Uses(s[k + 1].name, s[k].name)
      BY <2>2, <2>3 DEF Upwards
    <3>1. CASE k = n
      BY <2>2, <2>3, <2>4, <3>1
    <3>2. CASE k # n
      <4>1. k + 1 \in 1..n /\ k \in 1..(n - 1)
        BY <2>2, <3>2
      <4>2. Uses(stack[k + 1].name, stack[k].name)
        BY <2>2, <4>1 DEF Calls, Upwards, n
      <4> QED BY <2>3, <4>1, <4>2
    <3> QED BY <3>1, <3>2
  <2>6. \A k \in 1..(n + 1) : s[k].name \in Package
    <3>1. \A k \in 1..(n + 1) : s[k] \in Frame
      BY <2>2, <2>3
    <3> QED BY <3>1 DEF Frame
  <2>7. \A i, j \in 1..(n + 1) : i < j => s[i].name # s[j].name
    BY <1>2, <2>3, <2>5, NoCallTwice
  <2>8. \A i, j \in 1..(n + 1) : f[i] = f[j] => i = j
    BY <2>2, <2>7
  <2>9. f \in Injection(1..(n + 1), Package)
    BY <2>6, <2>8 DEF Injection, IsInjective
  <2> HIDE DEF f
  <2>10. Cardinality(1..(n + 1)) <= Cardinality(Package) /\ Cardinality(Package) \in Nat
    BY <2>9, FS_Injection, FS_CardinalityType DEF RemovalAssumption
  <2>11. Cardinality(1..(n + 1)) = n + 1
    BY <2>2, FS_Interval
  <2> QED BY <2>1, <2>2, <2>10, <2>11 DEF RemovalAssumption, n
<1>3. PlanInv /\ CascadeInv /\ AcyclicCascadeReturns /\ [Next]_vars => AcyclicCascadeReturns'
  <2> SUFFICES ASSUME PlanInv, CascadeInv, AcyclicCascadeReturns, [Next]_vars, Acyclic'
               PROVE  pc' # "overflow"
    BY DEF AcyclicCascadeReturns, CascadeReturns
  <2>1. UNCHANGED <<deps, provides>>
    BY DEF Next, BeginCommand, BeginAutoremove, BeginRemove, BeginCascade, Begin, Step, CascadeInto,
           CascadeReturn, Check, RemoveNext, RemoveDone, AutoremoveOne, AutoremoveDone, Return, world, vars
  <2>2. Acyclic
    <3>1. Acyclic' <=> Acyclic
      BY <2>1 DEF Acyclic, Cycle, Satisfies
    <3> QED BY <3>1
  <2>3. pc # "overflow"
    BY <2>2 DEF AcyclicCascadeReturns, CascadeReturns
  <2> QED BY <1>2, <2>2, <2>3 DEF Next, BeginCommand, BeginAutoremove, BeginRemove, BeginCascade, Step,
             CascadeReturn, Check, RemoveNext, RemoveDone, AutoremoveOne, AutoremoveDone, Return, vars
<1> QED BY <1>1, <1>3, CascadeInvariant, PTL DEF Spec
=============================================================================
