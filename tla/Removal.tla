------------------------------ MODULE Removal ------------------------------
(***************************************************************************)
(* PackageService::remove (with its cascade) and ::autoremove: which       *)
(* installed packages go, and in which order.  Dependencies are names that *)
(* a package satisfies by being called so or by `provides`; versions play  *)
(* no part in removal.  A removal of one package is one step, as           *)
(* AtomicInstall promises; it fails when its pre_remove hook does.         *)
(***************************************************************************)
EXTENDS Naturals, Sequences, FiniteSets

CONSTANTS
    Package,    \* real package names
    Virtual,    \* names that some package may provide
    Commands,   \* subset of {"remove", "cascade", "autoremove"}
    HookFails,  \* whether a pre_remove hook may fail
    MaxDepth    \* bound: plan_cascade calls the thread's stack has room for

ASSUME RemovalAssumption ==
    /\ IsFiniteSet(Package)
    /\ Commands \subseteq {"remove", "cascade", "autoremove"}
    /\ HookFails \in BOOLEAN /\ MaxDepth \in Nat

VARIABLES
    deps,       \* deps[p]: names p depends on
    provides,   \* provides[p]: virtual names p provides
    explicit,   \* packages the user asked for
    essential,  \* packages marked essential
    installed,  \* keys of InstalledDb
    pc,         \* "idle", "cascade", "check", "removing", "autoremove", "overflow"
    stack,      \* the active calls of plan_cascade: [name, todo]
    plan,       \* to_remove
    force,      \* the --force flag of the running command
    command,    \* history: the running or last command
    asked,      \* history: the package it names, if any
    before,     \* history: installed when the running or last command began
    outcome     \* history: its result

world == <<deps, provides, explicit, essential>>
vars  == <<deps, provides, explicit, essential, installed, pc, stack, plan, force,
           command, asked, before, outcome>>

Name == Package \cup Virtual
Satisfies(p, d) == d = p \/ d \in provides[p]
Satisfied(d, inst) == \E p \in inst : Satisfies(p, d)

\* mutants: a package is needed by its own name only; whatever depends on
\* something depends on p.
NeededByName(d, p) == d = p
AnyDependent(p) == {q \in installed \ {p} : deps[q] # {}}

\* Resolver::only_satisfied_by and ::dependents_of
OnlySatisfiedBy(d, p) ==
    Satisfies(p, d) /\ \A o \in installed \ {p} : ~Satisfies(o, d)
Dependents(p) ==
    {q \in installed \ {p} : \E d \in deps[q] : OnlySatisfiedBy(d, p)}

Frame == [name : Package, todo : SUBSET Package]
TypeOK ==
    /\ deps \in [Package -> SUBSET Name] /\ provides \in [Package -> SUBSET Virtual]
    /\ explicit \subseteq Package /\ essential \subseteq Package
    /\ installed \subseteq Package /\ before \subseteq Package /\ asked \subseteq Package
    /\ pc \in {"idle", "cascade", "check", "removing", "autoremove", "overflow"}
    /\ stack \in Seq(Frame) /\ plan \in Seq(Package)
    /\ force \in BOOLEAN /\ outcome \in {"none", "ok", "error"}
    /\ command \in Commands \cup {"none"}
    /\ stack # <<>> => pc \in {"cascade", "overflow"}
    /\ pc \in {"check", "removing"} =>
         \A i, j \in 1..Len(plan) : plan[i] \in installed /\ (plan[i] = plan[j] => i = j)

Init ==
    /\ deps \in [Package -> SUBSET Name] /\ \A p \in Package : p \notin deps[p]
    /\ provides \in [Package -> SUBSET Virtual]
    /\ explicit \in SUBSET Package /\ essential \in SUBSET Package
    /\ installed = Package /\ before = Package
    /\ pc = "idle" /\ stack = <<>> /\ plan = <<>> /\ force = FALSE
    /\ command = "none" /\ asked = {} /\ outcome = "none"

Return(result) ==
    /\ pc' = "idle" /\ stack' = <<>> /\ plan' = <<>> /\ force' = FALSE
    /\ outcome' = result /\ UNCHANGED <<world, command, asked, before>>

Begin(kind, f, names) ==
    /\ pc = "idle" /\ kind \in Commands
    /\ command' = kind /\ force' = f /\ asked' = names /\ before' = installed /\ outcome' = "none"
    /\ UNCHANGED <<world, installed>>

(***************************************************************************)
(* remove                                                                  *)
(***************************************************************************)
\* NotInstalled and RequiredByOthers return without a step.
BeginRemove(p, f) ==
    /\ Begin("remove", f, {p}) /\ p \in installed /\ Dependents(p) = {}
    /\ plan' = <<p>> /\ pc' = "check" /\ UNCHANGED stack

BeginCascade(p, f) ==
    /\ Begin("cascade", f, {p}) /\ p \in installed
    /\ stack' = <<[name |-> p, todo |-> Dependents(p)]>>
    /\ plan' = <<>> /\ pc' = "cascade"

Planned(p) == \E i \in 1..Len(plan) : plan[i] = p
Top == stack[Len(stack)]
Pop == SubSeq(stack, 1, Len(stack) - 1)

\* One round of plan_cascade's loop: a dependent that is not queued yet is
\* planned first, by a recursive call, which ends the process if the thread's
\* stack is exhausted.
CascadeInto(d) ==
    /\ pc = "cascade" /\ stack # <<>> /\ d \in Top.todo
    /\ LET rest == [stack EXCEPT ![Len(stack)].todo = @ \ {d}]
       IN  \/ Planned(d) /\ stack' = rest /\ UNCHANGED pc
           \/ /\ ~Planned(d) /\ Len(stack) < MaxDepth
              /\ stack' = Append(rest, [name |-> d, todo |-> Dependents(d)])
              /\ UNCHANGED pc
           \/ ~Planned(d) /\ Len(stack) >= MaxDepth /\ pc' = "overflow" /\ UNCHANGED stack
    /\ UNCHANGED <<world, installed, plan, force, command, asked, before, outcome>>

CascadeReturn ==
    /\ pc = "cascade" /\ stack # <<>> /\ Top.todo = {}
    /\ plan' = IF Planned(Top.name) THEN plan ELSE Append(plan, Top.name)
    /\ stack' = Pop
    /\ pc' = IF Len(stack) = 1 THEN "check" ELSE "cascade"
    /\ UNCHANGED <<world, installed, force, command, asked, before, outcome>>

\* mutant of EssentialPlanned: the guard looks at the package named only.
EssentialNamed == plan[Len(plan)] \in essential

EssentialPlanned == \E i \in 1..Len(plan) : plan[i] \in essential

\* The essential guard looks at the whole plan; a dry run ends here.
Check ==
    /\ pc = "check"
    /\ IF ~force /\ EssentialPlanned
       THEN Return("error")
       ELSE \/ Return("ok")
            \/ pc' = "removing" /\ UNCHANGED <<world, stack, plan, force,
                                                   command, asked, before, outcome>>
    /\ UNCHANGED installed

RemoveNext ==
    /\ pc = "removing" /\ plan # <<>>
    /\ \/ /\ installed' = installed \ {Head(plan)} /\ plan' = Tail(plan)
          /\ UNCHANGED <<world, pc, stack, force, command, asked, before, outcome>>
       \/ HookFails /\ Return("error") /\ UNCHANGED installed

RemoveDone == pc = "removing" /\ plan = <<>> /\ Return("ok") /\ UNCHANGED installed

(***************************************************************************)
(* autoremove                                                              *)
(***************************************************************************)
BeginAutoremove ==
    /\ Begin("autoremove", FALSE, {})
    /\ pc' = "autoremove" /\ UNCHANGED <<stack, plan>>

\* mutant of Orphans: only explicit packages count as dependents.
OrphansOfExplicit ==
    {p \in installed \ (explicit \cup essential) : Dependents(p) \cap explicit = {}}

Orphans == {p \in installed \ (explicit \cup essential) : Dependents(p) = {}}

\* Dependents are worked out afresh for every package that is removed.
AutoremoveOne(p) ==
    /\ pc = "autoremove" /\ p \in Orphans
    /\ \/ installed' = installed \ {p}
          /\ UNCHANGED <<world, pc, stack, plan, force, command, asked, before, outcome>>
       \/ HookFails /\ Return("error") /\ UNCHANGED installed

AutoremoveDone == pc = "autoremove" /\ Orphans = {} /\ Return("ok") /\ UNCHANGED installed

BeginCommand ==
    \/ BeginAutoremove
    \/ \E p \in Package, f \in BOOLEAN : BeginRemove(p, f) \/ BeginCascade(p, f)
Step ==
    \/ CascadeReturn \/ Check \/ RemoveNext \/ RemoveDone \/ AutoremoveDone
    \/ \E p \in Package : CascadeInto(p) \/ AutoremoveOne(p)
Next == BeginCommand \/ Step

Spec == Init /\ [][Next]_vars

(***************************************************************************)
(* Properties                                                              *)
(***************************************************************************)
\* Packages that each need another of them.
Cycle(S) == S # {} /\ \A p \in S : \E q \in S, d \in deps[p] : q # p /\ Satisfies(q, d)
Acyclic  == \A S \in SUBSET Package : ~Cycle(S)

\* No dependency is satisfied by two packages at once.
OneProviderEach ==
    \A p \in before : \A d \in deps[p] : Cardinality({q \in before : Satisfies(q, d)}) <= 1

\* No dependency that some installed package satisfied when the command began
\* is left unsatisfied while its owner stays, at any step, also when a hook
\* fails half way: dependents go first, and a provider goes only while another
\* one is there.
NothingEverBroken ==
    \A p \in installed : \A d \in deps[p] :
        Satisfied(d, before) => Satisfied(d, installed)

\* The same, of cascades only where each dependency has one provider: several
\* providers that all go in one cascade take their dependents by surprise.
NothingBroken == command # "cascade" \/ OneProviderEach => NothingEverBroken

\* Neither a cascade nor autoremove takes an essential package without --force.
EssentialKept == pc # "idle" /\ ~force => before \cap essential \subseteq installed

\* autoremove never removes what the user asked for, nor anything those need,
\* directly or through other packages: the least set that holds the explicit
\* packages and the only package satisfying a dependency of one it holds.
NeededByWanted ==
    LET Closed(S) == \A p \in S : \A d \in deps[p], q \in before :
                        Satisfies(q, d) /\ (\A o \in before \ {q} : ~Satisfies(o, d)) => q \in S
    IN  {p \in before : \A S \in SUBSET before : before \cap explicit \subseteq S /\ Closed(S)
                                                    => p \in S}
WantedKept == pc = "autoremove" => NeededByWanted \subseteq installed

\* A cascade removes no bystander: whatever else it plans depends, directly or
\* not, on something planned after it, and the package named goes last.
CascadeIsJustified ==
    Acyclic /\ pc = "removing" /\ plan # <<>> =>
        /\ plan[Len(plan)] \in asked
        /\ \A i \in 1..(Len(plan) - 1) :
              \E j \in (i + 1)..Len(plan), d \in deps[plan[i]] : Satisfies(plan[j], d)

\* plan_cascade computes "every installed dependent, deepest first, then name
\* itself": the recursion comes to an end, at the latest when every installed
\* package is on the stack.
CascadeReturns == pc # "overflow"

\* It does where no packages depend on each other in a cycle.
AcyclicCascadeReturns == Acyclic => CascadeReturns
=============================================================================
