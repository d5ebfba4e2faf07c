------------------------------ MODULE Resolver ------------------------------
(***************************************************************************)
(* dependency::resolver: from a package name to the set of packages and    *)
(* versions to install.  A depth-first visit takes the newest candidate    *)
(* for each name; a requirement that a candidate picked earlier does not   *)
(* meet is remembered for that name and the whole visit restarts.          *)
(*                                                                         *)
(* Versions built for another architecture are simply not available.  The  *)
(* repository and the installed packages are one `world` record, chosen at *)
(* the start and never changed by a resolution.                            *)
(*                                                                         *)
(* A requirement is a semver::VersionReq: the versions that meet all its   *)
(* comparators (`fits`), those of them it matches (`ok`) and the number of *)
(* comparators (`n`).  A pre-release is matched only if some comparator    *)
(* carries a pre-release tag on the same major.minor.patch; STAR, which    *)
(* has no comparators, matches none.                                       *)
(***************************************************************************)
EXTENDS Naturals, Sequences, FiniteSets

CONSTANTS
    Package,        \* real package names
    Virtual,        \* names only ever provided
    MaxVersion,     \* versions are 1..MaxVersion, 0 is none
    Prerelease,     \* those of them that are pre-releases
    Root,           \* the package asked for
    Worlds,         \* repositories and installed databases to consider
    RootReqs,       \* requirements the command line may put on Root
    MaxRestarts,    \* MAX_RESTARTS
    MaxComparators  \* the most comparators semver's parser accepts

Version == 1..MaxVersion
Any     == [fits |-> Version, ok |-> Version \ Prerelease, n |-> 0]   \* STAR
Req     == {r \in [fits : SUBSET Version, ok : SUBSET Version, n : Nat] :
              /\ r.ok \subseteq r.fits /\ r.fits \ r.ok \subseteq Prerelease
              /\ r.n = 0 => r = Any}
NoReq   == Any      \* nothing learned about a name: adds no comparator

ASSUME ResolverAssumption ==
    /\ Root \in Package /\ Package \cap Virtual = {}
    /\ RootReqs \subseteq Req
    /\ \A w \in Worlds : w.installed[Root] = 0
    /\ MaxRestarts \in Nat \ {0} /\ MaxComparators \in Nat

Dependency == [name : Package \cup Virtual, req : Req]

ASSUME WorldAssumption ==
    /\ MaxVersion \in Nat /\ Prerelease \subseteq Version
    /\ \A w \in Worlds :
         /\ w.avail \in [Package -> SUBSET Version]
         /\ w.deps \in [Package -> [Version -> Seq(Dependency)]]
         /\ w.installed \in [Package -> 0..MaxVersion]

VARIABLES
    world,      \* [avail, deps, provides, conflicts, installed]
    rootReq,
    pc,         \* "start" of an attempt, "visit", "order" or "done"
    stack,      \* the active calls of visit(): [name, version, next]
    resolved,   \* candidate picked for a name in this attempt, or 0
    edges,      \* the dependency graph of this attempt
    extra,      \* extra_reqs: what restarts have learned
    restarts,
    result      \* "none", "ok" or an error

vars == <<world, rootReq, pc, stack, resolved, edges, extra, restarts, result>>

NothingResolved == [p \in Package |-> 0]
NoEdges == [p \in Package |-> {}]

Frame == [name : Package, version : Version, next : Nat \ {0}]
\* An attempt starts from nothing but what the earlier ones learned.
TypeOK ==
    /\ rootReq \in Req
    /\ pc \in {"start", "visit", "order", "done"}
    /\ stack \in Seq(Frame)
    /\ resolved \in [Package -> 0..MaxVersion]
    /\ edges \in [Package -> SUBSET Package]
    /\ extra \in [Package -> Req]
    /\ restarts \in 0..MaxRestarts
    /\ pc = "start" => stack = <<>> /\ resolved = NothingResolved

Init ==
    /\ world \in Worlds /\ rootReq \in RootReqs
    /\ pc = "start" /\ stack = <<>> /\ resolved = NothingResolved /\ edges = NoEdges
    /\ extra = [p \in Package |-> NoReq] /\ restarts = 0 /\ result = "none"

\* mutant of Intersect: what was learned is never added.
FirstOnly(r, s) == r

\* intersect_req: concatenation of the comparators, unless the parser refuses
\* the result; then the second requirement is dropped.  A version has to meet
\* the comparators of both, but one tag of either lets a pre-release in.
Intersect(r, s) ==
    LET both == r.fits \cap s.fits
    IN  IF r.n = 0 THEN s
        ELSE IF s.n = 0 THEN r
        ELSE IF r.n + s.n <= MaxComparators
        THEN [fits |-> both, ok |-> both \ (Prerelease \ (r.ok \cup s.ok)), n |-> r.n + s.n]
        ELSE r

Newest(S) == CHOOSE v \in S : \A u \in S : u <= v

\* mutant of Matching: any version will do.
AnyVersion(name, req) == IF name \in Package THEN world.avail[name] ELSE {}

\* RepositoryIndex::best_match_for_arch, as a set: empty, or what it picks from.
Matching(name, req) == IF name \in Package THEN world.avail[name] \cap req.ok ELSE {}

\* find_provider_for_arch: the package with the newest providing version.
Providing(d) == {x \in Package \X Version : /\ x[2] \in world.avail[x[1]]
                                           /\ d \in world.provides[x[1]][x[2]]}
Providers(d) == {pv[1] : pv \in {x \in Providing(d) : \A y \in Providing(d) : y[2] <= x[2]}}

Visiting == {stack[i].name : i \in 1..Len(stack)}
Top == stack[Len(stack)]

Fail(error) ==
    /\ pc' = "done" /\ result' = error
    /\ UNCHANGED <<world, rootReq, stack, resolved, extra, restarts>>

\* mutants of Narrow: the candidates of the failed attempt are kept; the
\* next attempt knows no more than this one.
NarrowKeepingPicks(name, req) ==
    /\ extra' = [extra EXCEPT ![name] = Intersect(@, req)]
    /\ restarts' = restarts + 1 /\ stack' = <<>> /\ pc' = "start"
    /\ UNCHANGED <<world, rootReq, resolved, result>>
NarrowLearningNothing(name, req) ==
    /\ stack' = <<>> /\ resolved' = NothingResolved /\ pc' = "start"
    /\ UNCHANGED <<world, rootReq, extra, restarts, result>>

\* VisitError::Narrow, caught by resolve_install_req: learn and start over.
Narrow(name, req) ==
    /\ extra' = [extra EXCEPT ![name] = IF @.n = 0 THEN req ELSE Intersect(@, req)]
    /\ restarts' = restarts + 1
    /\ stack' = <<>> /\ resolved' = NothingResolved
    /\ IF restarts + 1 = MaxRestarts
       THEN pc' = "done" /\ result' = "DependencyConflict"
       ELSE pc' = "start" /\ UNCHANGED result
    /\ UNCHANGED <<world, rootReq>>

Continue(rest) ==
    /\ stack' = rest /\ pc' = IF rest = <<>> THEN "order" ELSE "visit"
    /\ UNCHANGED <<world, rootReq, resolved, extra, restarts, result>>

\* mutant of OnCycle: a name being visited counts as done.
CycleIgnored(rest) == Continue(rest)

\* A name reached again while it is being visited.
OnCycle(rest) == Fail("CircularDependency")

\* The body of visit() up to its loop; `rest` is the stack of the callers.
\* The names being visited are the ones on the stack.
Visit(name, req, rest) ==
    LET eff == Intersect(req, extra[name])
        candidates == Matching(name, eff)
    IN  \/ resolved[name] \in eff.ok /\ Continue(rest)
        \/ resolved[name] \notin eff.ok \cup {0} /\ Narrow(name, eff)
        \/ /\ resolved[name] = 0
           /\ \/ world.installed[name] \in eff.ok /\ Continue(rest)
              \/ world.installed[name] \notin eff.ok \cup {0} /\ Fail("DependencyConflict")
              \/ /\ world.installed[name] = 0
                 /\ \/ name \in Visiting /\ OnCycle(rest)
                    \/ name \notin Visiting /\ candidates = {} /\ Fail("NoMatchingVersion")
                    \/ /\ name \notin Visiting /\ candidates # {}
                       /\ Continue(Append(rest, [name |-> name, version |-> Newest(candidates),
                                                 next |-> 1]))

StartAttempt == pc = "start" /\ Visit(Root, rootReq, <<>>) /\ edges' = NoEdges

\* One round of visit()'s loop over the candidate's dependencies.
NextDep ==
    /\ pc = "visit" /\ Top.next <= Len(world.deps[Top.name][Top.version])
    /\ LET dep == world.deps[Top.name][Top.version][Top.next]
           rest == [stack EXCEPT ![Len(stack)].next = @ + 1]
           Reach(name, req) ==
             /\ Visit(name, req, rest)
             /\ edges' = [edges EXCEPT ![Top.name] = @ \cup {name}]
       IN  \/ Matching(dep.name, dep.req) # {} /\ Reach(dep.name, dep.req)
           \/ /\ Matching(dep.name, dep.req) = {}
              /\ \/ \E p \in Providers(dep.name) : Reach(p, Any)
                 \/ Providers(dep.name) = {} /\ Fail("DependencyConflict") /\ UNCHANGED edges

VisitReturns ==
    /\ pc = "visit" /\ Top.next > Len(world.deps[Top.name][Top.version])
    /\ resolved' = [resolved EXCEPT ![Top.name] = Top.version]
    /\ stack' = SubSeq(stack, 1, Len(stack) - 1)
    /\ pc' = IF Len(stack) = 1 THEN "order" ELSE "visit"
    /\ UNCHANGED <<world, rootReq, edges, extra, restarts, result>>

Plan == {p \in Package : resolved[p] # 0}
Present == {p \in Package : world.installed[p] # 0}
Cycle(S) == S # {} /\ \A p \in S : edges[p] \cap S # {}

\* check_conflicts, in both directions and within the plan.
Conflicting ==
    \E p \in Plan :
        \/ world.conflicts[p][resolved[p]] \cap (Present \cup Plan) # {}
        \/ \E q \in Present : p \in world.conflicts[q][world.installed[q]]

\* install_order (see DependencyGraph), then the conflicts.
Order ==
    /\ pc = "order" /\ pc' = "done"
    /\ result' = IF \E S \in SUBSET Package : Cycle(S) THEN "CircularDependency"
                 ELSE IF Conflicting THEN "DependencyConflict" ELSE "ok"
    /\ UNCHANGED <<world, rootReq, stack, resolved, edges, extra, restarts>>

Next == StartAttempt \/ NextDep \/ VisitReturns \/ Order
Spec == Init /\ [][Next]_vars /\ WF_vars(Next)

(***************************************************************************)
(* Properties                                                              *)
(***************************************************************************)
After == [p \in Package |-> IF resolved[p] # 0 THEN resolved[p] ELSE world.installed[p]]

\* The versions of p that are published or installed.
Known(p) == (world.avail[p] \cup {world.installed[p]}) \ {0}

\* The requirements a visit may put on p: the root's, those of dependencies
\* that name p, and STAR where p provides what a dependency names.
Dependencies ==
    UNION {{world.deps[q][v][i] : i \in 1..Len(world.deps[q][v])} : q \in Package, v \in Version}
Asked(p) ==
    {rootReq : x \in {p} \cap {Root}}
    \cup {d.req : d \in {e \in Dependencies : e.name = p}}
    \cup {Any : d \in {e \in Dependencies :
                         \E v \in world.avail[p] : e.name \in world.provides[p][v]}}

\* No two of them disagree about a pre-release in the range of both: 1.0.0-alpha
\* is in the range of >=1.0.0-alpha and of <2.0.0, and only the first matches it.
TagsAgree ==
    \A p \in Package : \A r, s \in Asked(p) : Known(p) \cap r.ok \cap s.fits \subseteq s.ok

\* What version v of q has to do with a dependency it was taken for: the range
\* holds, and the pre-release tags where they agree; a provider publishes the
\* capability in some version, and has it if it has it in all.
Answers(q, v, dep) ==
    \/ q = dep.name /\ v \in dep.req.fits /\ (TagsAgree => v \in dep.req.ok)
    \/ /\ \E u \in world.avail[q] : dep.name \in world.provides[q][u]
       /\ (\A u \in Known(q) : dep.name \in world.provides[q][u])
            => dep.name \in world.provides[q][v]

\* "Every package that still needs installing, in the order they must be
\* installed so each one's dependencies are already in place": each dependency
\* of a planned package is answered by an installed package or by one of the
\* plan that the graph puts before it; none of the plan is installed already.
DependenciesInPlace ==
    result = "ok" =>
        /\ resolved[Root] \in rootReq.ok /\ Plan \cap Present = {}
        /\ \A p \in Plan : \A i \in 1..Len(world.deps[p][resolved[p]]) :
             \E q \in Present \cup (edges[p] \cap Plan) :
                Answers(q, After[q], world.deps[p][resolved[p]][i])

\* sel[p] is the version of p present, 0 if none.  A provider is asked for
\* with STAR.
Meets(sel, p, dep) ==
    \/ p = dep.name /\ sel[p] \in dep.req.ok
    \/ sel[p] \in Any.ok /\ dep.name \in world.provides[p][sel[p]]

\* The same with every dependency met: a plan may leave a capability unmet
\* and take a pre-release that a dependent does not match.
DependenciesMet ==
    result = "ok" =>
        \A p \in Plan : \A i \in 1..Len(world.deps[p][resolved[p]]) :
            \E q \in Package : Meets(After, q, world.deps[p][resolved[p]][i])

\* The sort never refuses a graph a completed visit built: visit() itself
\* has found every cycle, so its CircularDependency names a real one.
OrderNeverRefused ==
    pc = "order" => \A S \in SUBSET Package : ~Cycle(S)

\* A choice of versions that installs Root and keeps what is installed.
Solution(sel) ==
    /\ sel[Root] \in rootReq.ok \cap world.avail[Root]
    /\ \A p \in Package :
         /\ p \in Present => sel[p] = world.installed[p]
         /\ p \notin Present /\ sel[p] # 0 =>
              /\ sel[p] \in world.avail[p]
              /\ \A i \in 1..Len(world.deps[p][sel[p]]) :
                    \E q \in Package : Meets(sel, q, world.deps[p][sel[p]][i])

\* Only the versions of packages without dependencies are to be chosen, and
\* nothing conflicts or depends on itself: greed alone picks the rest.
OnlyRangesToSettle ==
    LET Needs(p, q) == \E v \in world.avail[p] : \E i \in 1..Len(world.deps[p][v]) :
                         world.deps[p][v][i].name = q
    IN  /\ \A p \in Package, v \in Version : world.conflicts[p][v] = {}
        /\ \A p \in Package : Cardinality(world.avail[p]) > 1 =>
             \A v \in world.avail[p] : world.deps[p][v] = <<>>
        /\ ~\E S \in SUBSET Package : S # {} /\ \A p \in S : \E q \in S : Needs(p, q)

\* "A diamond needing overlapping-but-different ranges of the same shared
\* package is solved instead of rejected whenever a solution actually exists."
AlwaysSolved ==
    pc = "done" /\ result # "ok" /\ OnlyRangesToSettle =>
        ~\E sel \in [Package -> 0..MaxVersion] : Solution(sel)

\* It is where the requirements agree about pre-releases.
SolvedIfSolvable == TagsAgree => AlwaysSolved

\* The versions that are left to pick for p, after what restarts have learned.
Candidates(p) == {v \in world.avail[p] : extra[p].n # 0 => v \in extra[p].ok}

\* "Each restart strictly narrows some package's accumulated requirement."
Narrower ==
    \E p \in Package : /\ Candidates(p)' \subseteq Candidates(p) /\ Candidates(p)' # Candidates(p)
                       /\ \A q \in Package \ {p} : extra'[q] = extra[q]
RestartsNarrow == [][restarts' # restarts /\ TagsAgree => Narrower]_vars

\* Every resolution answers.
ResolutionEnds == <>(pc = "done")
=============================================================================
