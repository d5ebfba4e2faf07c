---------------------------- MODULE ResolverProofs ----------------------------
(***************************************************************************)
(* Resolutions in any repository, with any number of packages, versions,   *)
(* capabilities and restarts: what a plan holds and why it can be sorted,  *)
(* and when a restart is sure to narrow.                                   *)
(***************************************************************************)
EXTENDS Resolver, FiniteSetTheorems, SequenceTheorems, TLAPS

Calls == 1..Len(stack)
Running == pc \in {"visit", "order"} \/ result = "ok"
Settled(p) == resolved[p] # 0 \/ world.installed[p] # 0
Outcomes == {"CircularDependency", "DependencyConflict", "NoMatchingVersion"}

\* Where an attempt stands.
Typed ==
    /\ TypeOK
    /\ world \in Worlds
    /\ pc # "done" => restarts < MaxRestarts /\ result = "none"
    /\ pc = "visit" => stack # <<>>
    /\ pc = "order" \/ result = "ok" => stack = <<>>

\* What is being visited is neither decided nor installed, and visited once.
CallsNew ==
    /\ \A i \in Calls : ~Settled(stack[i].name)
    /\ \A i, j \in Calls : stack[i].name = stack[j].name => i = j
    /\ Plan \cap Present = {}

\* An edge leads to what is settled, or to the call its package waits for.
EdgesLead ==
    Running =>
        /\ \A p \in Package : edges[p] # {} => p \in Plan \cup Visiting
        /\ \A p \in Plan : \A q \in edges[p] : Settled(q)
        /\ \A i \in Calls : \A q \in edges[stack[i].name] :
              Settled(q) \/ (i + 1 \in Calls /\ q = stack[i + 1].name)

\* What is decided needs nothing that was decided after it.
PlanAcyclic == Running => \A S \in SUBSET Plan : ~Cycle(S)

GraphInv == Typed /\ CallsNew /\ EdgesLead /\ PlanAcyclic

\* Requirements that agree about the pre-releases of p in the range of both.
Agree(p, r, s) == \A v \in Known(p) \cap r.fits \cap s.fits : v \in r.ok <=> v \in s.ok

\* What restarts have learned agrees with all that is asked, where that does.
Exact ==
    TagsAgree => \A p \in Package : extra[p].n # 0 =>
                    \A r \in Asked(p) : Agree(p, r, extra[p])

\* q is in the plan or installed in version v, or about to be planned in it.
Chosen(q, v) ==
    \/ resolved[q] = v \/ world.installed[q] = v
    \/ \E i \in Calls : stack[i].name = q /\ stack[i].version = v

\* The k-th dependency of version v of p is served over an edge of p.
Supplied(p, v, k) ==
    \E q \in edges[p], u \in Version : Chosen(q, u) /\ Answers(q, u, world.deps[p][v][k])

\* The picks of an attempt are published.
PicksPublished ==
    /\ \A p \in Plan : resolved[p] \in world.avail[p]
    /\ \A i \in Calls : stack[i].version \in world.avail[stack[i].name]

\* All dependencies of what is decided are supplied, and those its call has
\* taken up of what is being visited.
NeedsMet ==
    Running =>
        /\ \A i \in Calls : \A k \in 1..Len(world.deps[stack[i].name][stack[i].version]) :
              k < stack[i].next => Supplied(stack[i].name, stack[i].version, k)
        /\ \A p \in Plan : \A k \in 1..Len(world.deps[p][resolved[p]]) :
              Supplied(p, resolved[p], k)

\* The root is visited first, in a version that was asked for; no restart
\* learns anything about it.
RootMet ==
    /\ extra[Root].n = 0
    /\ pc = "visit" => stack[1].name = Root /\ stack[1].version \in rootReq.ok
    /\ pc = "order" \/ result = "ok" => resolved[Root] \in rootReq.ok

PlanInv == GraphInv /\ Exact /\ PicksPublished /\ NeedsMet /\ RootMet

\* The requirements on p that refuse a published version, and those of them
\* that what was learned refuses it for.
Binding(p) == {r \in Asked(p) : ~(world.avail[p] \subseteq r.ok)}
Obeyed(p)  == {r \in Binding(p) : Candidates(p) \subseteq r.ok}

\* A bound on the comparators learned about p in its first restarts: each
\* counts the learned ones twice, and those of one requirement; there is
\* always room for another requirement's.
Budgets(p) ==
    {b \in [0..Cardinality(Binding(p)) -> 0..MaxComparators] :
        /\ \A k \in 0..(Cardinality(Binding(p)) - 1) : \A r \in Binding(p) :
              2 * b[k] + r.n <= b[k + 1]
        /\ \A k \in 0..Cardinality(Binding(p)) : \A r \in Asked(p) :
              b[k] + r.n <= MaxComparators}
ComparatorsFit == \A p \in Package : IsFiniteSet(Binding(p)) /\ Budgets(p) # {}

\* What was learned about a package holds of what is picked for it, which one
\* of its requirements matches; it cost a restart for a requirement at most.
Picked(p, v) == v \in Candidates(p) /\ \E r \in Asked(p) : v \in r.ok
PicksAgree ==
    /\ \A p \in Plan : Picked(p, resolved[p])
    /\ \A i \in Calls : Picked(stack[i].name, stack[i].version)
Within ==
    \A p \in Package : \A b \in Budgets(p) :
        \E k \in 0..Cardinality(Obeyed(p)) : extra[p].n <= b[k]
Settling == ComparatorsFit /\ TagsAgree
NarrowInv == Typed /\ Exact /\ (Settling => PicksAgree /\ Within)

\* The calls once the topmost has taken up its next dependency.
Advanced == [stack EXCEPT ![Len(stack)].next = @ + 1]

\* What NextDep visits for the dependency at hand.
Reached(name, req) ==
    LET dep == world.deps[Top.name][Top.version][Top.next]
    IN  \/ name = dep.name /\ req = dep.req /\ Matching(name, req) # {}
        \/ name \in Providers(dep.name) /\ req = Any

\* The four ways a visit of a name can go: an error, a restart, something
\* settled already, and a call of its own.
Fails == \E e \in Outcomes : Fail(e)
Restarts(name, eff) ==
    resolved[name] # 0 /\ resolved[name] \notin eff.ok /\ Narrow(name, eff)
Reuses(name, eff, rest) ==
    /\ resolved[name] \in eff.ok \/ (resolved[name] = 0 /\ world.installed[name] \in eff.ok)
    /\ Continue(rest)
Opens(name, eff, rest) ==
    /\ ~Settled(name) /\ name \notin Visiting
    /\ \E v \in world.avail[name] \cap eff.ok :
          Continue(Append(rest, [name |-> name, version |-> v, next |-> 1]))
Visits(name, eff, rest) ==
    Fails \/ Restarts(name, eff) \/ Reuses(name, eff, rest) \/ Opens(name, eff, rest)

\* p needs q, by name or for a capability.
NeedsOf(p, q) ==
    \E v \in world.avail[p] : \E i \in 1..Len(world.deps[p][v]) :
        \/ q = world.deps[p][v][i].name
        \/ \E u \in world.avail[q] : world.deps[p][v][i].name \in world.provides[q][u]

\* What is installed is published; a capability is no package, and has one
\* provider; no packages need each other.
PlainWorld ==
    /\ \A p \in Package : world.installed[p] \in world.avail[p] \cup {0}
    /\ \A p, q \in Package : \A u \in world.avail[p], v \in world.avail[q] :
          /\ world.provides[p][u] \cap Package = {}
          /\ world.provides[p][u] \cap world.provides[q][v] # {} => p = q
    /\ ~\E S \in SUBSET Package : S # {} /\ \A p \in S : \E q \in S : NeedsOf(p, q)

\* There is a restart for every requirement that could cause one.
Demands == {x \in Package \X Req : x[2] \in Binding(x[1])}
Heeded  == {x \in Package \X Req : x[2] \in Obeyed(x[1])}
EnoughRestarts == IsFiniteSet(Demands) /\ Cardinality(Demands) < MaxRestarts

\* Whatever the restarts have learned and the calls have picked, a solution
\* agrees with it, and nothing has failed.
LeadsTo(sel) ==
    /\ \A p \in Package : extra[p].n # 0 => sel[p] \in extra[p].ok
    /\ \A i \in Calls : sel[stack[i].name] # 0 /\ stack[i].version \in world.avail[stack[i].name]
    /\ \A i \in Calls : i + 1 \in Calls => NeedsOf(stack[i].name, stack[i + 1].name)
    /\ pc = "done" => result = "ok"
Good(sel) == PlainWorld /\ OnlyRangesToSettle /\ Solution(sel)
SolveInv == Settling /\ EnoughRestarts =>
    /\ restarts <= Cardinality(Heeded)
    /\ \A sel \in [Package -> 0..MaxVersion] : Good(sel) => LeadsTo(sel)

(***************************************************************************)
(* Requirements and candidates.                                            *)
(***************************************************************************)
\* A set of numbers with a bound has a least upper one.
LEMMA GreatestExists ==
    ASSUME NEW n \in Nat, NEW S \in SUBSET (1..n), S # {}
    PROVE  \E v \in S : \A u \in S : u <= v
<1> DEFINE U == {x \in Nat : \A u \in S : u <= x}
<1>1. U \subseteq Nat /\ n \in U
  OBVIOUS
<1>2. PICK m \in U : \A y \in U : ~(<<y, m>> \in OpToRel(<, Nat))
  <2> HIDE DEF U
  <2> QED BY <1>1, WFMin, NatLessThanWellFounded
<1>3. \A y \in U : ~(y < m)
  BY <1>1, <1>2 DEF OpToRel
<1>4. m \in S
  <2> SUFFICES ASSUME m \notin S PROVE FALSE
    OBVIOUS
  <2>1. \A u \in S : u <= m - 1 /\ m - 1 \in Nat
    OBVIOUS
  <2>2. m - 1 \in U
    BY <2>1
  <2> QED BY <1>3, <2>2
<1> QED BY <1>4

\* The newest candidate is a candidate.
LEMMA NewestIsCandidate ==
    ASSUME NEW S \in SUBSET Version, S # {}
    PROVE  Newest(S) \in S
<1>1. \E v \in S : \A u \in S : u <= v
  BY GreatestExists, WorldAssumption DEF Version
<1> QED BY <1>1 DEF Newest

\* Two requirements together ask for a version of the first's range, and for
\* every version that both match.
LEMMA Intersection ==
    ASSUME NEW r \in Req, NEW s \in Req
    PROVE  /\ Intersect(r, s) \in Req
           /\ Intersect(r, s).ok \subseteq r.fits
           /\ r.ok \cap s.ok \subseteq Intersect(r, s).ok
           /\ r.n = 0 => Intersect(r, s) = s
           /\ s.n = 0 => Intersect(r, s) = r
<1>1. /\ r.fits \subseteq Version /\ r.ok \subseteq r.fits /\ r.n \in Nat
      /\ r.fits \ r.ok \subseteq Prerelease /\ (r.n = 0 => r = Any)
      /\ s.fits \subseteq Version /\ s.ok \subseteq s.fits /\ s.n \in Nat
      /\ s.fits \ s.ok \subseteq Prerelease /\ (s.n = 0 => s = Any)
  BY DEF Req
<1>2. CASE r.n = 0
  <2>1. Intersect(r, s) = s /\ r = Any
    BY <1>1, <1>2 DEF Intersect
  <2>2. r.fits = Version
    BY <2>1 DEF Any
  <2>3. s.n = 0 => s = r
    BY <1>1, <2>1
  <2> QED BY <1>1, <1>2, <2>1, <2>2, <2>3
<1>3. CASE r.n # 0 /\ s.n = 0
  BY <1>1, <1>3 DEF Intersect
<1>4. CASE r.n # 0 /\ s.n # 0 /\ r.n + s.n <= MaxComparators
  <2> DEFINE both == r.fits \cap s.fits
             ok == both \ (Prerelease \ (r.ok \cup s.ok))
             n == r.n + s.n
  <2>1. Intersect(r, s) = [fits |-> both, ok |-> ok, n |-> n]
    BY <1>4 DEF Intersect
  <2>2. /\ n \in Nat /\ n # 0 /\ both \in SUBSET Version /\ ok \in SUBSET Version
        /\ ok \subseteq both /\ both \ ok \subseteq Prerelease
        /\ both \subseteq r.fits /\ r.ok \cap s.ok \subseteq ok
    BY <1>1, <1>4
  <2> HIDE DEF both, ok, n
  <2>3. Intersect(r, s) \in Req
    BY <2>1, <2>2 DEF Req
  <2> QED BY <1>4, <2>1, <2>2, <2>3
<1>5. CASE r.n # 0 /\ s.n # 0 /\ ~(r.n + s.n <= MaxComparators)
  BY <1>1, <1>5 DEF Intersect
<1> QED BY <1>2, <1>3, <1>4, <1>5

LEMMA AnyIsRequirement == Any \in Req /\ Any.fits = Version /\ Any.n = 0
<1>1. Any = [fits |-> Version, ok |-> Version \ Prerelease, n |-> 0]
  BY DEF Any
<1> HIDE DEF Any
<1> QED BY <1>1 DEF Req

LEMMA RequirementType ==
    ASSUME NEW r \in Req
    PROVE  /\ r.fits \subseteq Version /\ r.ok \subseteq r.fits /\ r.ok \subseteq Version
           /\ r.n \in Nat /\ (r.n = 0 => r = Any)
           /\ \A v \in r.fits : v \notin Prerelease => v \in r.ok
BY DEF Req

\* What the index publishes and the database holds of one package.
LEMMA WorldType ==
    ASSUME Typed, NEW p \in Package
    PROVE  /\ world.avail[p] \subseteq Version
           /\ world.installed[p] \in 0..MaxVersion
           /\ \A v \in Version : world.deps[p][v] \in Seq(Dependency)
<1>1. /\ world.avail \in [Package -> SUBSET Version]
      /\ world.deps \in [Package -> [Version -> Seq(Dependency)]]
      /\ world.installed \in [Package -> 0..MaxVersion]
  BY WorldAssumption DEF Typed
<1> QED BY <1>1

\* What is asked of packages.
LEMMA DependencyAsked ==
    ASSUME Typed, NEW q \in Package, NEW v \in Version,
           NEW i \in 1..Len(world.deps[q][v]), NEW d, d = world.deps[q][v][i]
    PROVE  /\ d \in Dependency /\ d \in Dependencies /\ d.req \in Asked(d.name)
           /\ \A p : (\E u \in world.avail[p] : d.name \in world.provides[p][u]) => Any \in Asked(p)
<1>1. d \in Dependency
  BY WorldType
<1>2. d \in Dependencies
  <2> DEFINE of(a, b) == {world.deps[a][b][j] : j \in 1..Len(world.deps[a][b])}
  <2>1. d \in of(q, v)
    OBVIOUS
  <2>2. Dependencies = UNION {of(a, b) : a \in Package, b \in Version}
    BY DEF Dependencies
  <2> HIDE DEF of
  <2>3. of(q, v) \in {of(a, b) : a \in Package, b \in Version}
    OBVIOUS
  <2> QED BY <2>1, <2>2, <2>3
<1> QED BY <1>1, <1>2 DEF Asked

LEMMA RootAsked == Root \in Package => rootReq \in Asked(Root)
BY DEF Asked

LEMMA AskedType ==
    ASSUME Typed, NEW p \in Package
    PROVE  Asked(p) \subseteq Req
<1>1. \A d \in Dependencies : d \in Dependency
  <2>1. ASSUME NEW q \in Package, NEW v \in Version, NEW i \in 1..Len(world.deps[q][v])
        PROVE  world.deps[q][v][i] \in Dependency
    BY WorldType
  <2> QED BY <2>1 DEF Dependencies
<1>2. \A d \in Dependencies : d.req \in Req
  BY <1>1 DEF Dependency
<1>3. rootReq \in Req
  BY DEF Typed, TypeOK
<1> QED BY <1>2, <1>3, AnyIsRequirement DEF Asked

\* The world, and so what is asked, does not change.
LEMMA AskedKept ==
    ASSUME UNCHANGED <<world, rootReq>>
    PROVE  /\ \A p : Asked(p)' = Asked(p) /\ Known(p)' = Known(p)
           /\ \A p : Binding(p)' = Binding(p) /\ Budgets(p)' = Budgets(p)
           /\ TagsAgree' = TagsAgree /\ ComparatorsFit' = ComparatorsFit
           /\ Demands' = Demands /\ EnoughRestarts' = EnoughRestarts
<1> DEFINE deps(w) ==
             UNION {{w.deps[q][v][i] : i \in 1..Len(w.deps[q][v])} : q \in Package, v \in Version}
           asked(w, r, p) ==
             {r : x \in {p} \cap {Root}}
             \cup {d.req : d \in {e \in deps(w) : e.name = p}}
             \cup {Any : d \in {e \in deps(w) :
                                  \E v \in w.avail[p] : e.name \in w.provides[p][v]}}
<1>1. \A p : Asked(p) = asked(world, rootReq, p)
  BY DEF Asked, Dependencies
<1>2. \A p : Asked(p)' = asked(world', rootReq', p)
  BY DEF Asked, Dependencies
<1> HIDE DEF asked, deps
<1>3. \A p : Asked(p)' = Asked(p)
  BY <1>1, <1>2
<1>4. \A p : Known(p)' = Known(p)
  BY DEF Known
<1>5. \A p : Binding(p)' = Binding(p)
  <2> DEFINE binding(a, w, p) == {r \in a : ~(w.avail[p] \subseteq r.ok)}
  <2>1. \A p : Binding(p) = binding(Asked(p), world, p)
    BY DEF Binding
  <2>2. \A p : Binding(p)' = binding(Asked(p)', world', p)
    BY DEF Binding
  <2> HIDE DEF binding
  <2> QED BY <1>3, <2>1, <2>2
<1>6. \A p : Budgets(p)' = Budgets(p)
  <2> DEFINE budgets(B, A) ==
               {b \in [0..Cardinality(B) -> 0..MaxComparators] :
                  /\ \A k \in 0..(Cardinality(B) - 1) : \A r \in B : 2 * b[k] + r.n <= b[k + 1]
                  /\ \A k \in 0..Cardinality(B) : \A r \in A : b[k] + r.n <= MaxComparators}
  <2>1. \A p : Budgets(p) = budgets(Binding(p), Asked(p))
    BY DEF Budgets
  <2>2. \A p : Budgets(p)' = budgets(Binding(p)', Asked(p)')
    BY DEF Budgets
  <2> HIDE DEF budgets
  <2> QED BY <1>3, <1>5, <2>1, <2>2
<1>7. TagsAgree' = TagsAgree
  BY <1>3, <1>4 DEF TagsAgree
<1>8. ComparatorsFit' = ComparatorsFit
  BY <1>5, <1>6 DEF ComparatorsFit
<1>9. Demands' = Demands
  BY <1>5 DEF Demands
<1>10. EnoughRestarts' = EnoughRestarts
  BY <1>9 DEF EnoughRestarts
<1> QED BY <1>3, <1>4, <1>5, <1>6, <1>7, <1>8, <1>9, <1>10

\* What a visit takes for a requirement is in its range, and matches it where
\* the requirements agree.
LEMMA TakenMatches ==
    ASSUME Typed, Exact, NEW name \in Package, NEW req \in Asked(name),
           NEW v \in Known(name), v \in Intersect(req, extra[name]).ok
    PROVE  v \in req.fits /\ (TagsAgree => v \in req.ok)
<1> DEFINE e == extra[name]
<1>1. e \in Req /\ req \in Req
  BY AskedType DEF Typed, TypeOK
<1>2. TagsAgree /\ e.n # 0 => Agree(name, req, e)
  BY DEF Exact
<1>3. v \in Intersect(req, e).ok
  OBVIOUS
<1> HIDE DEF e
<1>4. v \in req.fits
  BY <1>1, <1>3, Intersection
<1>5. CASE e.n = 0
  BY <1>1, <1>3, <1>4, <1>5, Intersection
<1>6. CASE e.n # 0 /\ req.n = 0
  <2>1. v \in e.ok /\ v \in e.fits
    BY <1>1, <1>3, <1>6, Intersection, RequirementType
  <2> QED BY <1>2, <1>4, <1>6, <2>1 DEF Agree
<1>7. CASE e.n # 0 /\ req.n # 0
  <2>1. CASE req.n + e.n <= MaxComparators
    <3>1. v \in e.fits /\ (v \notin Prerelease \/ v \in req.ok \/ v \in e.ok)
      BY <1>3, <1>7, <2>1 DEF Intersect
    <3>2. v \notin Prerelease => v \in req.ok
      BY <1>1, <1>4, RequirementType
    <3> QED BY <1>2, <1>4, <1>7, <3>1, <3>2 DEF Agree
  <2>2. CASE ~(req.n + e.n <= MaxComparators)
    BY <1>3, <1>4, <1>7, <2>2 DEF Intersect
  <2> QED BY <2>1, <2>2
<1> QED BY <1>4, <1>5, <1>6, <1>7

\* What agrees with two requirements agrees with their intersection.
LEMMA AgreeWithBoth ==
    ASSUME NEW p, NEW r \in Req, NEW s \in Req, NEW t \in Req,
           Agree(p, t, r), Agree(p, t, s)
    PROVE  Agree(p, t, Intersect(r, s))
<1>1. CASE r.n = 0 \/ s.n = 0
  BY <1>1, Intersection
<1>2. CASE r.n # 0 /\ s.n # 0 /\ r.n + s.n <= MaxComparators
  <2> DEFINE both == r.fits \cap s.fits
             ok == both \ (Prerelease \ (r.ok \cup s.ok))
  <2>1. Intersect(r, s) = [fits |-> both, ok |-> ok, n |-> r.n + s.n]
    BY <1>2 DEF Intersect
  <2>2. ASSUME NEW v \in Known(p), v \in t.fits, v \in both
        PROVE  v \in t.ok <=> v \in ok
    <3>1. (v \in t.ok <=> v \in r.ok) /\ (v \in t.ok <=> v \in s.ok)
      BY <2>2 DEF Agree
    <3>2. v \notin Prerelease => v \in r.ok
      BY <2>2, RequirementType
    <3> QED BY <2>2, <3>1, <3>2
  <2> HIDE DEF both, ok
  <2> QED BY <2>1, <2>2 DEF Agree
<1>3. CASE r.n # 0 /\ s.n # 0 /\ ~(r.n + s.n <= MaxComparators)
  BY <1>3 DEF Intersect
<1> QED BY <1>1, <1>2, <1>3

\* What a restart learns agrees with all that is asked.
LEMMA LearnedAgrees ==
    ASSUME Typed, Exact, TagsAgree, NEW name \in Package, NEW req \in Asked(name),
           NEW new, new = (IF extra[name].n = 0 THEN Intersect(req, extra[name])
                           ELSE Intersect(extra[name], Intersect(req, extra[name]))),
           new.n # 0, NEW t \in Asked(name)
    PROVE  Agree(name, t, new)
<1> DEFINE e == extra[name]
<1>1. e \in Req /\ req \in Req /\ t \in Req
  BY AskedType DEF Typed, TypeOK
<1>2. new = IF e.n = 0 THEN Intersect(req, e) ELSE Intersect(e, Intersect(req, e))
  OBVIOUS
<1>3. e.n # 0 => Agree(name, t, e)
  BY DEF Exact
<1>4. Agree(name, t, req)
  BY DEF TagsAgree, Agree
<1> HIDE DEF e
<1>5. CASE e.n = 0
  BY <1>1, <1>2, <1>4, <1>5, Intersection
<1>6. CASE e.n # 0
  <2>1. Intersect(req, e) \in Req /\ Agree(name, t, Intersect(req, e))
    BY <1>1, <1>3, <1>4, <1>6, AgreeWithBoth, Intersection
  <2> QED BY <1>1, <1>2, <1>3, <1>6, <2>1, AgreeWithBoth
<1> QED BY <1>5, <1>6

\* How a visit goes.
LEMMA VisitGoes ==
    ASSUME Typed, NEW name \in Package, NEW req \in Req, NEW rest, Visit(name, req, rest)
    PROVE  Visits(name, Intersect(req, extra[name]), rest)
<1> DEFINE eff == Intersect(req, extra[name])
<1>1. eff \in Req /\ eff.ok \subseteq Version
  <2>1. extra[name] \in Req
    BY DEF Typed, TypeOK
  <2>2. eff \in Req
    BY <2>1, Intersection
  <2> HIDE DEF eff
  <2> QED BY <2>2 DEF Req
<1>2. Matching(name, eff) = world.avail[name] \cap eff.ok
  BY DEF Matching
<1> HIDE DEF eff
<1>3. CASE resolved[name] \in eff.ok /\ Continue(rest)
  BY <1>3 DEF Visits, Reuses, eff
<1>4. CASE resolved[name] \notin eff.ok \cup {0} /\ Narrow(name, eff)
  BY <1>4 DEF Visits, Restarts, eff
<1>5. CASE resolved[name] = 0 /\ world.installed[name] \in eff.ok /\ Continue(rest)
  BY <1>5 DEF Visits, Reuses, eff
<1>6. CASE \E e \in Outcomes : Fail(e)
  BY <1>6 DEF Visits, Fails
<1>7. CASE /\ resolved[name] = 0 /\ world.installed[name] = 0
           /\ name \notin Visiting /\ Matching(name, eff) # {}
           /\ Continue(Append(rest, [name |-> name, version |-> Newest(Matching(name, eff)),
                                     next |-> 1]))
  <2>1. Newest(Matching(name, eff)) \in world.avail[name] \cap eff.ok
    BY <1>1, <1>2, <1>7, NewestIsCandidate
  <2> QED BY <1>7, <2>1 DEF Visits, Opens, Settled, eff
<1> QED
  <2>1. Visit(name, req, rest) =>
           \/ resolved[name] \in eff.ok /\ Continue(rest)
           \/ resolved[name] \notin eff.ok \cup {0} /\ Narrow(name, eff)
           \/ resolved[name] = 0 /\ world.installed[name] \in eff.ok /\ Continue(rest)
           \/ Fail("DependencyConflict") \/ Fail("CircularDependency") \/ Fail("NoMatchingVersion")
           \/ /\ resolved[name] = 0 /\ world.installed[name] = 0
              /\ name \notin Visiting /\ Matching(name, eff) # {}
              /\ Continue(Append(rest, [name |-> name, version |-> Newest(Matching(name, eff)),
                                        next |-> 1]))
    BY DEF Visit, OnCycle, eff
  <2>2. \A e \in Outcomes : Fail(e) => \E f \in Outcomes : Fail(f)
    OBVIOUS
  <2>3. {"CircularDependency", "DependencyConflict", "NoMatchingVersion"} = Outcomes
    BY DEF Outcomes
  <2> QED BY <1>3, <1>4, <1>5, <1>6, <1>7, <2>1, <2>2, <2>3

\* The topmost call, and the calls once it has taken up a dependency.
LEMMA TopType ==
    ASSUME Typed, pc = "visit"
    PROVE  /\ stack \in Seq(Frame) /\ Len(stack) \in Nat \ {0} /\ Len(stack) \in Calls
           /\ Top \in Frame
           /\ Advanced \in Seq(Frame) /\ Len(Advanced) = Len(stack)
           /\ \A i \in Calls : /\ Advanced[i].name = stack[i].name
                               /\ Advanced[i].version = stack[i].version
                               /\ Advanced[i].next =
                                     IF i = Len(stack) THEN stack[i].next + 1 ELSE stack[i].next
           /\ Advanced # <<>>
<1>1. stack \in Seq(Frame) /\ stack # <<>>
  BY DEF Typed, TypeOK
<1>2. Len(stack) \in Nat \ {0} /\ Len(stack) \in Calls
  BY <1>1 DEF Calls
<1>3. Top \in Frame
  BY <1>1, <1>2 DEF Top
<1>4. [Top EXCEPT !.next = @ + 1] \in Frame
  <2>1. Top.next \in Nat
    BY <1>3 DEF Frame
  <2> QED BY <1>3, <2>1 DEF Frame
<1>5. Advanced = [stack EXCEPT ![Len(stack)] = [Top EXCEPT !.next = @ + 1]]
  BY DEF Advanced, Top
<1>6. Advanced \in Seq(Frame) /\ Len(Advanced) = Len(stack)
  BY <1>1, <1>2, <1>4, <1>5 DEF Calls
<1>7. ASSUME NEW i \in Calls
      PROVE  /\ Advanced[i].name = stack[i].name
             /\ Advanced[i].version = stack[i].version
             /\ Advanced[i].next = IF i = Len(stack) THEN stack[i].next + 1 ELSE stack[i].next
  <2>1. CASE i = Len(stack)
    <3>1. Advanced[i] = [Top EXCEPT !.next = @ + 1] /\ stack[i] = Top
      BY <1>1, <1>2, <1>5, <2>1 DEF Top
    <3> QED BY <1>3, <2>1, <3>1 DEF Frame
  <2>2. CASE i # Len(stack)
    BY <1>1, <1>2, <1>5, <1>7, <2>2 DEF Calls
  <2> QED BY <2>1, <2>2
<1> QED BY <1>1, <1>2, <1>3, <1>6, <1>7

\* A call more.
LEMMA PushCall ==
    ASSUME NEW rest \in Seq(Frame), NEW f \in Frame
    PROVE  /\ Append(rest, f) \in Seq(Frame) /\ Append(rest, f) # <<>>
           /\ Len(Append(rest, f)) = Len(rest) + 1 /\ Append(rest, f)[Len(rest) + 1] = f
           /\ \A i \in 1..Len(rest) : Append(rest, f)[i] = rest[i]
<1>1. /\ Append(rest, f) \in Seq(Frame) /\ Len(Append(rest, f)) = Len(rest) + 1
      /\ \A i \in 1..Len(rest) : Append(rest, f)[i] = rest[i]
      /\ Append(rest, f)[Len(rest) + 1] = f
  BY AppendProperties
<1>2. Len(rest) + 1 # 0 /\ Len(<<>>) = 0
  BY LenProperties, EmptySeq
<1> QED BY <1>1, <1>2

\* A call less.
LEMMA PopCall ==
    ASSUME Typed, VisitReturns
    PROVE  /\ stack' \in Seq(Frame) /\ Len(stack') = Len(stack) - 1
           /\ (stack' = <<>> <=> Len(stack) = 1)
           /\ \A i \in 1..(Len(stack) - 1) : stack'[i] = stack[i]
<1>1. stack \in Seq(Frame) /\ Len(stack) \in Nat \ {0}
  BY TopType DEF VisitReturns
<1>2. stack' = SubSeq(stack, 1, Len(stack) - 1)
  BY DEF VisitReturns
<1>3. \A i \in 1..(Len(stack) - 1) : stack[i] \in Frame
  BY <1>1
<1>4. /\ stack' \in Seq(Frame) /\ Len(stack') = Len(stack) - 1
      /\ \A i \in 1..(Len(stack) - 1) : stack'[i] = stack[i]
  <2>1. Len(stack) - 1 \in Int /\ 1 \in Int
    BY <1>1
  <2> DEFINE n == Len(stack) - 1
  <2>2. n \in Int /\ \A i \in 1..n : stack[i] \in Frame
    BY <2>1, <1>3
  <2> HIDE DEF n
  <2>3. /\ SubSeq(stack, 1, n) \in Seq(Frame)
        /\ Len(SubSeq(stack, 1, n)) = IF 1 <= n THEN n - 1 + 1 ELSE 0
        /\ \A i \in 1..(n - 1 + 1) : SubSeq(stack, 1, n)[i] = stack[1 + i - 1]
    BY <2>2, SubSeqProperties
  <2>4. n \in Nat /\ n = Len(stack) - 1
    BY <1>1 DEF n
  <2>5. Len(SubSeq(stack, 1, n)) = n
    <3> DEFINE l == Len(SubSeq(stack, 1, n))
    <3>1. l = IF 1 <= n THEN n - 1 + 1 ELSE 0
      BY <2>3
    <3> HIDE DEF l
    <3>2. l = n
      BY <2>4, <3>1
    <3> QED BY <3>2 DEF l
  <2>6. \A i \in 1..n : SubSeq(stack, 1, n)[i] = stack[i]
    BY <2>3, <2>4
  <2> QED BY <1>2, <2>3, <2>4, <2>5, <2>6
<1>5. stack' = <<>> <=> Len(stack') = 0
  BY <1>4, EmptySeq
<1> QED BY <1>1, <1>4, <1>5

\* A call that returns leaves the calls below it as they are.
LEMMA CallPopped ==
    ASSUME Typed, VisitReturns, NEW n, n = Len(stack)
    PROVE  /\ n \in Nat \ {0} /\ n \in Calls /\ Calls = 1..n
           /\ Calls' = 1..(n - 1) /\ Len(stack') = n - 1
           /\ \A i \in 1..(n - 1) : stack'[i] = stack[i] /\ i \in Calls
           /\ Top = stack[n] /\ Top.name \in Package /\ Top.version \in Version /\ Top.next \in Nat
<1>1. n \in Nat \ {0} /\ n \in Calls /\ Top \in Frame
  BY TopType DEF VisitReturns
<1>2. Calls = 1..n /\ Top = stack[n]
  BY DEF Calls, Top
<1>3. /\ Len(stack') = n - 1 /\ Calls' = 1..(n - 1)
      /\ \A i \in 1..(n - 1) : stack'[i] = stack[i]
  BY PopCall DEF Calls
<1>4. \A i \in 1..(n - 1) : i \in 1..n
  BY <1>1
<1>5. Top.name \in Package /\ Top.version \in Version /\ Top.next \in Nat
  BY <1>1 DEF Frame
<1> QED BY <1>1, <1>2, <1>3, <1>4, <1>5

\* What NextDep does is fail, or visit a package for the dependency at hand.
LEMMA DependencyVisited ==
    ASSUME Typed, NextDep
    PROVE  \/ Fails /\ UNCHANGED edges
           \/ \E name \in Package, req \in Req :
                 /\ Reached(name, req)
                 /\ Visits(name, Intersect(req, extra[name]), Advanced)
                 /\ edges' = [edges EXCEPT ![Top.name] = @ \cup {name}]
<1> DEFINE dep == world.deps[Top.name][Top.version][Top.next]
<1>1. pc = "visit" /\ Top.next <= Len(world.deps[Top.name][Top.version])
  BY DEF NextDep
<1>2. dep \in Dependency /\ Top.name \in Package /\ Top.version \in Version
  <2>1. Top \in Frame
    BY <1>1, TopType
  <2>2. Top.name \in Package /\ Top.version \in Version /\ Top.next \in Nat \ {0}
    BY <2>1 DEF Frame
  <2>3. world.deps[Top.name][Top.version] \in Seq(Dependency)
    BY <2>2, WorldType
  <2> QED BY <1>1, <2>2, <2>3
<1>3. dep.req \in Req
  BY <1>2 DEF Dependency
<1>4. CASE Fail("DependencyConflict") /\ UNCHANGED edges
  <2>1. "DependencyConflict" \in Outcomes
    BY DEF Outcomes
  <2> QED BY <1>4, <2>1 DEF Fails
<1>5. CASE /\ Matching(dep.name, dep.req) # {} /\ Visit(dep.name, dep.req, Advanced)
           /\ edges' = [edges EXCEPT ![Top.name] = @ \cup {dep.name}]
  <2>1. dep.name \in Package
    BY <1>5 DEF Matching
  <2>2. Visits(dep.name, Intersect(dep.req, extra[dep.name]), Advanced)
    BY <1>3, <1>5, <2>1, VisitGoes
  <2>3. Reached(dep.name, dep.req)
    BY <1>5 DEF Reached
  <2> QED BY <1>3, <1>5, <2>1, <2>2, <2>3
<1>6. ASSUME NEW p \in Providers(dep.name), Visit(p, Any, Advanced),
             edges' = [edges EXCEPT ![Top.name] = @ \cup {p}]
      PROVE  \E name \in Package, req \in Req :
                 /\ Reached(name, req)
                 /\ Visits(name, Intersect(req, extra[name]), Advanced)
                 /\ edges' = [edges EXCEPT ![Top.name] = @ \cup {name}]
  <2>1. p \in Package
    BY <1>6 DEF Providers, Providing
  <2>2. Visits(p, Intersect(Any, extra[p]), Advanced)
    BY <1>6, <2>1, VisitGoes, AnyIsRequirement
  <2>3. Reached(p, Any)
    BY <1>6 DEF Reached
  <2> QED BY <1>6, <2>1, <2>2, <2>3, AnyIsRequirement
<1>7. \/ Fail("DependencyConflict") /\ UNCHANGED edges
      \/ /\ Matching(dep.name, dep.req) # {} /\ Visit(dep.name, dep.req, Advanced)
         /\ edges' = [edges EXCEPT ![Top.name] = @ \cup {dep.name}]
      \/ \E p \in Providers(dep.name) :
            /\ Visit(p, Any, Advanced)
            /\ edges' = [edges EXCEPT ![Top.name] = @ \cup {p}]
  BY DEF NextDep, Advanced
<1> HIDE DEF dep
<1> QED BY <1>4, <1>5, <1>6, <1>7

(***************************************************************************)
(* Where an attempt stands.                                                *)
(***************************************************************************)
\* A visit keeps the types, whatever the calls below it.
LEMMA VisitTypes ==
    ASSUME Typed, pc \in {"start", "visit"}, NEW name \in Package, NEW eff \in Req,
           NEW rest \in Seq(Frame), Visits(name, eff, rest),
           pc = "start" => ~Settled(name), pc = "visit" => rest # <<>>,
           edges' \in [Package -> SUBSET Package]
    PROVE  Typed'
<1> USE DEF Typed, TypeOK
<1>1. CASE Fails
  <2>1. PICK e \in Outcomes : Fail(e)
    BY <1>1 DEF Fails
  <2> QED BY <2>1 DEF Fail, Outcomes
<1>2. CASE Restarts(name, eff)
  <2>1. extra' = [extra EXCEPT ![name] = IF extra[name].n = 0 THEN eff ELSE Intersect(extra[name], eff)]
    BY <1>2 DEF Restarts, Narrow
  <2>2. extra' \in [Package -> Req]
    <3>1. Intersect(extra[name], eff) \in Req
      BY Intersection
    <3> QED BY <2>1, <3>1
  <2>3. restarts' \in 0..MaxRestarts /\ (restarts + 1 # MaxRestarts => restarts' < MaxRestarts)
    BY <1>2, ResolverAssumption DEF Restarts, Narrow
  <2>4. resolved' \in [Package -> 0..MaxVersion]
    BY <1>2, WorldAssumption DEF Restarts, Narrow, NothingResolved
  <2>5. stack' = <<>> /\ stack' \in Seq(Frame)
    BY <1>2 DEF Restarts, Narrow
  <2>6. \/ pc' = "done" /\ result' = "DependencyConflict"
        \/ pc' = "start" /\ result' = "none" /\ restarts + 1 # MaxRestarts
    BY <1>2 DEF Restarts, Narrow
  <2> QED BY <1>2, <2>2, <2>3, <2>4, <2>5, <2>6 DEF Restarts, Narrow
<1>3. CASE Reuses(name, eff, rest)
  <2>1. pc = "visit"
    <3>1. eff.ok \subseteq Version
      BY DEF Req
    <3> QED BY <1>3, <3>1 DEF Reuses, Settled, Version
  <2> QED BY <1>3, <2>1 DEF Reuses, Continue
<1>4. CASE Opens(name, eff, rest)
  <2>1. PICK v \in world.avail[name] \cap eff.ok :
           Continue(Append(rest, [name |-> name, version |-> v, next |-> 1]))
    BY <1>4 DEF Opens
  <2>2. [name |-> name, version |-> v, next |-> 1] \in Frame
    BY WorldType DEF Frame
  <2> DEFINE calls == Append(rest, [name |-> name, version |-> v, next |-> 1])
  <2>3. calls \in Seq(Frame) /\ calls # <<>>
    BY <2>2, PushCall
  <2> HIDE DEF calls
  <2>4. Continue(calls)
    BY <2>1 DEF calls
  <2> QED BY <2>3, <2>4 DEF Continue
<1> QED BY <1>1, <1>2, <1>3, <1>4 DEF Visits

LEMMA TypedInit ==
    Init => Typed
<1> SUFFICES ASSUME Init PROVE Typed
  OBVIOUS
<1>1. rootReq \in Req /\ MaxRestarts \in Nat \ {0} /\ 0 \in 0..MaxVersion
  BY ResolverAssumption, WorldAssumption DEF Init
<1>2. NoReq \in Req
  BY AnyIsRequirement DEF NoReq
<1> QED BY <1>1, <1>2 DEF Init, Typed, TypeOK, NothingResolved, NoEdges

\* Root is not installed when it is asked for.
LEMMA RootNew ==
    ASSUME Typed, pc = "start"
    PROVE  Root \in Package /\ ~Settled(Root)
BY ResolverAssumption DEF Typed, TypeOK, Settled, NothingResolved

LEMMA StartVisits ==
    ASSUME Typed, StartAttempt
    PROVE  /\ rootReq \in Req /\ Intersect(rootReq, extra[Root]) \in Req
           /\ Visits(Root, Intersect(rootReq, extra[Root]), <<>>)
<1>1. rootReq \in Req /\ extra[Root] \in Req /\ Root \in Package
  BY ResolverAssumption DEF Typed, TypeOK
<1> QED BY <1>1, VisitGoes, Intersection DEF StartAttempt

LEMMA TypedStep ==
    Typed /\ [Next]_vars => Typed'
<1> SUFFICES ASSUME Typed, [Next]_vars PROVE Typed'
  OBVIOUS
<1>1. CASE StartAttempt
  <2>1. pc = "start" /\ edges' \in [Package -> SUBSET Package]
    BY <1>1 DEF StartAttempt, NoEdges
  <2>2. <<>> \in Seq(Frame) /\ pc # "visit" /\ pc \in {"start", "visit"}
    BY <2>1
  <2>3. Typed /\ Root \in Package /\ ~Settled(Root)
    BY <2>1, RootNew
  <2> QED BY <1>1, <2>1, <2>2, <2>3, StartVisits, VisitTypes
<1>2. CASE NextDep
  <2>1. CASE Fails /\ UNCHANGED edges
    <3>1. PICK e \in Outcomes : Fail(e)
      BY <2>1 DEF Fails
    <3> QED BY <2>1, <3>1 DEF Fail, Outcomes, Typed, TypeOK
  <2>2. ASSUME NEW name \in Package, NEW req \in Req,
               Visits(name, Intersect(req, extra[name]), Advanced),
               edges' = [edges EXCEPT ![Top.name] = @ \cup {name}]
        PROVE  Typed'
    <3>1. pc = "visit"
      BY <1>2 DEF NextDep
    <3>2. extra[name] \in Req
      BY DEF Typed, TypeOK
    <3>3. Intersect(req, extra[name]) \in Req
      BY <3>2, Intersection
    <3>4. edges' \in [Package -> SUBSET Package]
      BY <2>2 DEF Typed, TypeOK
    <3> QED BY <2>2, <3>1, <3>3, <3>4, TopType, VisitTypes
  <2> QED BY <1>2, <2>1, <2>2, DependencyVisited
<1>3. CASE VisitReturns
  <2>1. pc = "visit"
    BY <1>3 DEF VisitReturns
  <2>2. stack \in Seq(Frame) /\ Len(stack) \in Nat \ {0} /\ Top \in Frame
    BY <2>1, TopType
  <2>3. Top.version \in 0..MaxVersion
    BY <2>2 DEF Frame, Version
  <2>4. stack' \in Seq(Frame)
    BY <1>3, PopCall
  <2>5. pc' = (IF stack' = <<>> THEN "order" ELSE "visit")
    BY <1>3, PopCall DEF VisitReturns
  <2> QED BY <1>3, <2>1, <2>3, <2>4, <2>5 DEF VisitReturns, Typed, TypeOK
<1>4. CASE Order
  BY <1>4 DEF Order, Typed, TypeOK
<1>5. CASE UNCHANGED vars
  BY <1>5 DEF vars, Typed, TypeOK
<1> QED BY <1>1, <1>2, <1>3, <1>4, <1>5 DEF Next

\* Every state of every resolution is well typed.
THEOREM ResolverTypes == Spec => []TypeOK
<1>1. Typed => TypeOK
  BY DEF Typed
<1> QED BY <1>1, TypedInit, TypedStep, PTL DEF Spec

(***************************************************************************)
(* The graph of an attempt.                                                *)
(***************************************************************************)
\* What the calls and the plan are after a step that only moves the calls.
LEMMA CallsFacts ==
    ASSUME Typed, NEW i \in Calls
    PROVE  /\ stack[i] \in Frame /\ stack[i].name \in Package /\ stack[i].version \in Version
           /\ stack[i].next \in Nat \ {0} /\ stack[i].name \in Visiting
<1>1. stack \in Seq(Frame)
  BY DEF Typed, TypeOK
<1>2. stack[i] \in Frame
  BY <1>1 DEF Calls
<1> QED BY <1>2 DEF Frame, Visiting, Calls

\* The edge to what a visit reached.
LEMMA EdgeAdded ==
    ASSUME Typed, pc = "visit", NEW name \in Package,
           edges' = [edges EXCEPT ![Top.name] = @ \cup {name}]
    PROVE  /\ Top.name \in Package /\ Top = stack[Len(stack)]
           /\ \A p \in Package : edges'[p] = edges[p] \cup (IF p = Top.name THEN {name} ELSE {})
<1>1. Top.name \in Package
  BY TopType DEF Frame
<1> QED BY <1>1 DEF Typed, TypeOK, Top

LEMMA ReuseKeepsGraph ==
    ASSUME GraphInv, pc = "visit", NEW name \in Package, NEW eff \in Req,
           Reuses(name, eff, Advanced), edges' = [edges EXCEPT ![Top.name] = @ \cup {name}]
    PROVE  (CallsNew /\ EdgesLead /\ PlanAcyclic)'
<1> USE DEF GraphInv
<1>1. /\ stack' = Advanced /\ pc' = "visit"
      /\ UNCHANGED <<world, rootReq, resolved, extra, restarts, result>>
  BY TopType DEF Reuses, Continue
<1>2. /\ Calls' = Calls /\ Len(stack') = Len(stack)
      /\ \A i \in Calls : stack'[i].name = stack[i].name
  BY <1>1, TopType DEF Calls
<1>3. Settled(name)
  <2>1. eff.ok \subseteq Version
    BY DEF Req
  <2> QED BY <2>1 DEF Reuses, Settled, Version
<1>4. /\ Top.name \in Package /\ Top = stack[Len(stack)] /\ Len(stack) \in Calls
      /\ \A p \in Package : edges'[p] = edges[p] \cup (IF p = Top.name THEN {name} ELSE {})
  BY EdgeAdded, TopType
<1>5. ~Settled(Top.name)
  BY <1>4 DEF CallsNew
<1>6. /\ Plan' = Plan /\ Present' = Present /\ (\A p : Settled(p)' <=> Settled(p))
      /\ Visiting' = Visiting
  BY <1>1, <1>2 DEF Plan, Present, Settled, Visiting, Calls
<1>7. \A p \in Plan : p \in Package /\ Settled(p)
  BY DEF Plan, Settled
<1>8. CallsNew'
  BY <1>2, <1>6 DEF CallsNew
<1>9. EdgesLead'
  <2>1. ASSUME NEW p \in Package, edges'[p] # {} PROVE p \in Plan \cup Visiting
    BY <1>4, <2>1, CallsFacts DEF EdgesLead, Running
  <2>2. ASSUME NEW p \in Plan, NEW q \in edges'[p] PROVE Settled(q)
    BY <1>4, <1>5, <1>7, <2>2 DEF EdgesLead, Running
  <2>3. ASSUME NEW i \in Calls, NEW q \in edges'[stack[i].name]
        PROVE  Settled(q) \/ (i + 1 \in Calls /\ q = stack[i + 1].name)
    BY <1>3, <1>4, <2>3, CallsFacts DEF EdgesLead, Running
  <2>4. \A i : i + 1 \in Calls => stack'[i + 1].name = stack[i + 1].name
    BY <1>2
  <2> QED BY <1>2, <1>6, <2>1, <2>2, <2>3, <2>4 DEF EdgesLead
<1>10. PlanAcyclic'
  <2>1. ASSUME NEW S \in SUBSET Plan PROVE ~Cycle(S)'
    <3>1. \A p \in S : edges'[p] = edges[p]
      BY <1>4, <1>5, <1>7
    <3>2. ~Cycle(S)
      BY DEF PlanAcyclic, Running
    <3> QED BY <3>1, <3>2 DEF Cycle
  <2> QED BY <1>6, <2>1 DEF PlanAcyclic
<1> QED BY <1>8, <1>9, <1>10

\* A call is opened only for what is not being visited, and is what its
\* caller waits for.
LEMMA OpenKeepsGraph ==
    ASSUME GraphInv, pc = "visit", NEW name \in Package, NEW eff \in Req,
           Opens(name, eff, Advanced), edges' = [edges EXCEPT ![Top.name] = @ \cup {name}]
    PROVE  (CallsNew /\ EdgesLead /\ PlanAcyclic)'
<1> USE DEF GraphInv
<1> DEFINE n == Len(stack)
<1>1. PICK v \in world.avail[name] \cap eff.ok :
           Continue(Append(Advanced, [name |-> name, version |-> v, next |-> 1]))
  BY DEF Opens
<1>2. v \in Version /\ [name |-> name, version |-> v, next |-> 1] \in Frame
  BY WorldType DEF Frame
<1>3. /\ stack' = Append(Advanced, [name |-> name, version |-> v, next |-> 1])
      /\ UNCHANGED <<world, rootReq, resolved, extra, restarts, result>>
  BY <1>1 DEF Continue
<1>4. /\ n \in Nat \ {0} /\ Calls = 1..n /\ Calls' = 1..(n + 1) /\ Len(stack') = n + 1
      /\ \A i \in Calls : stack'[i].name = stack[i].name
      /\ stack'[n + 1].name = name
  BY <1>2, <1>3, TopType, PushCall DEF Calls
<1>5. /\ Top.name \in Package /\ Top = stack[n] /\ n \in Calls
      /\ \A p \in Package : edges'[p] = edges[p] \cup (IF p = Top.name THEN {name} ELSE {})
  BY EdgeAdded, TopType
<1> HIDE DEF n
<1>6. ~Settled(Top.name)
  BY <1>5 DEF CallsNew
<1>7. Plan' = Plan /\ Present' = Present /\ (\A p : Settled(p)' <=> Settled(p))
  BY <1>3 DEF Plan, Present, Settled
<1>8. Visiting' = Visiting \cup {name}
  <2>1. Visiting = {stack[i].name : i \in 1..n} /\ Visiting' = {stack'[i].name : i \in 1..(n + 1)}
    BY <1>4 DEF Visiting, n
  <2>2. \A x : x \in Visiting <=> \E i \in 1..n : x = stack[i].name
    BY <2>1
  <2>3. \A x : x \in Visiting' <=> \E i \in 1..(n + 1) : x = stack'[i].name
    BY <2>1
  <2>4. 1..(n + 1) = 1..n \cup {n + 1}
    BY <1>4
  <2>5. \A x : x \in Visiting' <=> x \in Visiting \cup {name}
    BY <1>4, <2>2, <2>3, <2>4
  <2> QED BY <2>5
<1>9. \A p \in Plan : p \in Package /\ Settled(p)
  BY DEF Plan, Settled
<1>10. CallsNew'
  <2>1. ASSUME NEW i \in 1..(n + 1) PROVE ~Settled(stack'[i].name)
    BY <1>4, <2>1 DEF CallsNew, Opens
  <2>2. ASSUME NEW i \in 1..(n + 1), NEW j \in 1..(n + 1), stack'[i].name = stack'[j].name
        PROVE  i = j
    <3>1. \A k \in 1..n : stack'[k].name = stack[k].name /\ stack[k].name # name
      BY <1>4, CallsFacts DEF Opens
    <3>2. CASE i \in 1..n /\ j \in 1..n
      BY <1>4, <2>2, <3>1, <3>2 DEF CallsNew
    <3>3. CASE i = n + 1 /\ j \in 1..n
      BY <1>4, <2>2, <3>1, <3>3
    <3>4. CASE j = n + 1 /\ i \in 1..n
      BY <1>4, <2>2, <3>1, <3>4
    <3>5. i \in 1..n \/ i = n + 1
      BY <1>4
    <3>6. j \in 1..n \/ j = n + 1
      BY <1>4
    <3> QED BY <3>2, <3>3, <3>4, <3>5, <3>6
  <2> QED BY <1>4, <1>7, <2>1, <2>2 DEF CallsNew
<1>11. EdgesLead'
  <2>1. ASSUME NEW p \in Package, edges'[p] # {} PROVE p \in Plan \cup Visiting
    BY <1>5, <2>1, CallsFacts DEF EdgesLead, Running
  <2>2. ASSUME NEW p \in Plan, NEW q \in edges'[p] PROVE Settled(q)
    BY <1>5, <1>6, <1>9, <2>2 DEF EdgesLead, Running
  <2>3. ASSUME NEW i \in 1..(n + 1), NEW q \in edges'[stack'[i].name]
        PROVE  Settled(q) \/ (i + 1 \in 1..(n + 1) /\ q = stack'[i + 1].name)
    <3>1. CASE i = n + 1
      <4>1. name \notin Plan \cup Visiting
        BY DEF Opens, Plan, Settled
      <4>2. edges[name] = {} /\ name # Top.name
        BY <1>5, <4>1, CallsFacts DEF EdgesLead, Running
      <4> QED BY <1>4, <1>5, <2>3, <3>1, <4>2
    <3>2. CASE i = n /\ q = name
      BY <1>4, <3>2
    <3>3. CASE i \in 1..n /\ q \in edges[stack[i].name]
      <4>1. Settled(q) \/ (i + 1 \in Calls /\ q = stack[i + 1].name)
        BY <1>4, <3>3 DEF EdgesLead, Running
      <4> QED BY <1>4, <4>1
    <3>4. CASE i \in 1..n /\ q \notin edges[stack[i].name]
      <4>1. q = name /\ stack[i].name = Top.name
        BY <1>4, <1>5, <2>3, <3>4, CallsFacts
      <4>2. i = n
        BY <1>4, <1>5, <3>4, <4>1 DEF CallsNew
      <4> QED BY <3>2, <4>1, <4>2
    <3> QED BY <1>4, <3>1, <3>2, <3>3, <3>4
  <2> QED BY <1>4, <1>7, <1>8, <2>1, <2>2, <2>3 DEF EdgesLead
<1>12. PlanAcyclic'
  <2>1. ASSUME NEW S \in SUBSET Plan PROVE ~Cycle(S)'
    <3>1. \A p \in S : edges'[p] = edges[p]
      BY <1>5, <1>6, <1>9
    <3>2. ~Cycle(S)
      BY DEF PlanAcyclic, Running
    <3> QED BY <3>1, <3>2 DEF Cycle
  <2> QED BY <1>7, <2>1 DEF PlanAcyclic
<1> QED BY <1>10, <1>11, <1>12

\* A package that is decided closes no cycle: nothing decided before it leads
\* to it, and it leads to what was settled before it.
LEMMA ReturnKeepsGraph ==
    ASSUME GraphInv, VisitReturns
    PROVE  (CallsNew /\ EdgesLead /\ PlanAcyclic)'
<1> USE DEF GraphInv
<1> DEFINE n == Len(stack)
           t == Top.name
<1>1. /\ pc = "visit" /\ UNCHANGED <<world, rootReq, edges, extra, restarts, result>>
      /\ resolved' = [resolved EXCEPT ![t] = Top.version] /\ Running
  BY DEF VisitReturns, Running
<1>2. /\ n \in Nat \ {0} /\ n \in Calls /\ Calls = 1..n /\ Calls' = 1..(n - 1) /\ Len(stack') = n - 1
      /\ \A i \in 1..(n - 1) : stack'[i] = stack[i] /\ i \in Calls
      /\ t = stack[n].name /\ t \in Package /\ Top.version \in Version
  BY CallPopped
<1> HIDE DEF n, t
<1>3. ~Settled(t) /\ \A i \in 1..(n - 1) : stack[i].name # t
  BY <1>2 DEF CallsNew
<1>4. Plan' = Plan \cup {t} /\ Present' = Present /\ t \notin Plan \cup Present /\ Plan \subseteq Package
  <2>1. resolved \in [Package -> 0..MaxVersion] /\ Top.version # 0
    BY <1>2 DEF Typed, TypeOK, Version
  <2> QED BY <1>1, <1>2, <1>3, <2>1 DEF Plan, Present, Settled
<1>5. \A p \in Package : Settled(p)' <=> Settled(p) \/ p = t
  BY <1>1, <1>4 DEF Plan, Settled
<1>6. /\ \A i \in 1..(n - 1) : stack[i].name \in Package
      /\ \A p \in Package : edges[p] \subseteq Package
  BY <1>2, CallsFacts DEF Typed, TypeOK
<1>7. Visiting \subseteq Visiting' \cup {t}
  <2>1. Visiting = {stack[i].name : i \in 1..n} /\ Visiting' = {stack'[i].name : i \in 1..(n - 1)}
    BY <1>2 DEF Visiting, n
  <2> QED BY <1>2, <2>1
<1>8. CallsNew'
  <2>1. ASSUME NEW i \in 1..(n - 1)
        PROVE  resolved'[stack'[i].name] = 0 /\ world'.installed[stack'[i].name] = 0
    BY <1>1, <1>2, <1>3, <1>6 DEF CallsNew, Settled
  <2>2. ASSUME NEW i \in 1..(n - 1), NEW j \in 1..(n - 1), stack'[i].name = stack'[j].name PROVE i = j
    BY <1>2, <2>2 DEF CallsNew
  <2>3. Plan' \cap Present' = {}
    BY <1>4 DEF CallsNew
  <2> QED BY <1>2, <2>1, <2>2, <2>3 DEF CallsNew, Settled
<1>9. EdgesLead'
  <2>1. ASSUME NEW p \in Package, edges'[p] # {} PROVE p \in Plan' \cup Visiting'
    BY <1>1, <1>4, <1>7, <2>1 DEF EdgesLead
  <2>2. ASSUME NEW p \in Plan', NEW q \in edges'[p] PROVE Settled(q)'
    <3>1. CASE p = t
      <4>1. Settled(q)
        BY <1>1, <1>2, <2>2, <3>1 DEF EdgesLead
      <4> QED BY <1>1, <1>2, <1>5, <1>6, <2>2, <3>1, <4>1
    <3>2. CASE p \in Plan
      <4>1. Settled(q)
        BY <1>1, <2>2, <3>2 DEF EdgesLead
      <4> QED BY <1>1, <1>4, <1>5, <1>6, <2>2, <3>2, <4>1
    <3> QED BY <1>4, <3>1, <3>2
  <2>3. ASSUME NEW i \in 1..(n - 1), NEW q \in edges'[stack'[i].name]
        PROVE  Settled(q)' \/ (i + 1 \in 1..(n - 1) /\ q = stack'[i + 1].name)
    <3>1. q \in edges[stack[i].name] /\ q \in Package
      BY <1>1, <1>2, <1>6, <2>3
    <3>2. Settled(q) \/ (i + 1 \in Calls /\ q = stack[i + 1].name)
      BY <1>1, <1>2, <3>1 DEF EdgesLead
    <3>3. CASE Settled(q)
      BY <1>5, <3>1, <3>3
    <3>4. CASE i + 1 = n /\ q = stack[i + 1].name
      BY <1>2, <1>5, <3>1, <3>4
    <3>5. CASE i + 1 # n /\ i + 1 \in Calls /\ q = stack[i + 1].name
      BY <1>2, <3>5
    <3> QED BY <3>2, <3>3, <3>4, <3>5
  <2> QED BY <1>2, <2>1, <2>2, <2>3 DEF EdgesLead
<1>10. PlanAcyclic'
  <2>1. ASSUME NEW S \in SUBSET (Plan \cup {t}), Cycle(S) PROVE FALSE
    <3>1. t \in S
      BY <1>1, <2>1 DEF PlanAcyclic
    <3>2. t \notin edges[t]
      BY <1>1, <1>2, <1>3 DEF EdgesLead
    <3>3. \A p \in Plan : t \notin edges[p]
      BY <1>1, <1>3 DEF EdgesLead
    <3>4. Cycle(S \ {t})
      <4>1. \A p \in S \ {t} : edges[p] \cap (S \ {t}) # {}
        BY <2>1, <3>3 DEF Cycle
      <4>2. S \ {t} # {}
        BY <2>1, <3>1, <3>2 DEF Cycle
      <4> QED BY <4>1, <4>2 DEF Cycle
    <3> QED BY <1>1, <2>1, <3>4 DEF PlanAcyclic
  <2>2. \A S : Cycle(S)' <=> Cycle(S)
    BY <1>1 DEF Cycle
  <2> QED BY <1>4, <2>1, <2>2 DEF PlanAcyclic
<1> QED BY <1>8, <1>9, <1>10

\* The first call of an attempt is for the root, or there is none.
LEMMA StartKeepsGraph ==
    ASSUME GraphInv, StartAttempt
    PROVE  (CallsNew /\ EdgesLead /\ PlanAcyclic)'
<1> USE DEF GraphInv
<1> DEFINE eff == Intersect(rootReq, extra[Root])
<1>1. /\ pc = "start" /\ stack = <<>> /\ resolved = NothingResolved /\ result = "none"
      /\ edges' = NoEdges /\ Visits(Root, eff, <<>>) /\ eff.ok \subseteq Version
      /\ Root \in Package /\ ~Settled(Root)
  BY StartVisits, RootNew DEF StartAttempt, Typed, TypeOK, Req
<1> HIDE DEF eff
<1>2. CASE Fails
  <2>1. PICK e \in Outcomes : Fail(e)
    BY <1>2 DEF Fails
  <2>2. /\ UNCHANGED <<world, stack, resolved>> /\ ~Running'
    BY <2>1 DEF Fail, Running, Outcomes
  <2> QED BY <2>2 DEF CallsNew, EdgesLead, PlanAcyclic, Calls, Plan, Present, Settled
<1>3. CASE Opens(Root, eff, <<>>)
  <2>1. PICK v \in world.avail[Root] \cap eff.ok :
           Continue(Append(<<>>, [name |-> Root, version |-> v, next |-> 1]))
    BY <1>3 DEF Opens
  <2>2. [name |-> Root, version |-> v, next |-> 1] \in Frame
    BY <1>1, WorldType DEF Frame
  <2>3. /\ stack' = Append(<<>>, [name |-> Root, version |-> v, next |-> 1])
        /\ UNCHANGED <<world, resolved, result>>
    BY <2>1 DEF Continue
  <2>4. Calls' = {1} /\ stack'[1].name = Root
    BY <2>2, <2>3, PushCall, EmptySeq DEF Calls
  <2>5. Plan' = {} /\ edges' = NoEdges
    BY <1>1, <2>3 DEF Plan, NothingResolved
  <2>6. CallsNew'
    BY <1>1, <2>3, <2>4, <2>5 DEF CallsNew, Settled
  <2>7. EdgesLead'
    BY <1>1, <2>4, <2>5 DEF EdgesLead, NoEdges
  <2>8. PlanAcyclic'
    BY <2>5 DEF PlanAcyclic, Cycle
  <2> QED BY <2>6, <2>7, <2>8
<1>4. ~Restarts(Root, eff) /\ ~Reuses(Root, eff, <<>>)
  BY <1>1 DEF Restarts, Reuses, Settled, Version
<1> QED BY <1>1, <1>2, <1>3, <1>4 DEF Visits

LEMMA GraphInvInit ==
    Init => GraphInv
<1> SUFFICES ASSUME Init PROVE GraphInv
  OBVIOUS
<1>1. Calls = {} /\ Plan = {} /\ ~Running
  BY DEF Init, Calls, Plan, NothingResolved, Running
<1> QED BY <1>1, TypedInit DEF GraphInv, CallsNew, EdgesLead, PlanAcyclic

\* An attempt that is given up leaves nothing behind that matters.
LEMMA GivenUp ==
    ASSUME GraphInv, pc # "done",
           Fails \/ (\E name \in Package, eff \in Req : Restarts(name, eff))
    PROVE  (CallsNew /\ EdgesLead /\ PlanAcyclic)' /\ ~Running'
<1> USE DEF GraphInv
<1>1. CASE Fails
  <2>1. PICK e \in Outcomes : Fail(e)
    BY <1>1 DEF Fails
  <2>2. UNCHANGED <<world, stack, resolved>> /\ ~Running'
    BY <2>1 DEF Fail, Running, Outcomes
  <2> QED BY <2>2 DEF CallsNew, EdgesLead, PlanAcyclic, Calls, Plan, Present, Settled
<1>2. ASSUME NEW name \in Package, NEW eff \in Req, Restarts(name, eff)
      PROVE  (CallsNew /\ EdgesLead /\ PlanAcyclic)' /\ ~Running'
  <2>1. stack' = <<>> /\ resolved' = NothingResolved
    BY <1>2 DEF Restarts, Narrow
  <2>2. Calls' = {} /\ Plan' = {}
    BY <2>1, EmptySeq DEF Calls, Plan, NothingResolved
  <2>3. ~Running'
    <3>1. result = "none"
      BY DEF Typed
    <3>2. (pc' = "done" /\ result' = "DependencyConflict") \/ (pc' = "start" /\ result' = result)
      BY <1>2 DEF Restarts, Narrow
    <3> QED BY <3>1, <3>2 DEF Running
  <2> QED BY <2>2, <2>3 DEF CallsNew, EdgesLead, PlanAcyclic
<1> QED BY <1>1, <1>2

LEMMA GraphInvStep ==
    GraphInv /\ [Next]_vars => GraphInv'
<1> SUFFICES ASSUME GraphInv, [Next]_vars PROVE GraphInv'
  OBVIOUS
<1>1. Typed'
  BY TypedStep DEF GraphInv
<1>2. CASE StartAttempt
  BY <1>1, <1>2, StartKeepsGraph DEF GraphInv
<1>3. CASE NextDep
  <2>1. pc = "visit"
    BY <1>3 DEF NextDep
  <2>2. CASE Fails
    BY <1>1, <2>1, <2>2, GivenUp DEF GraphInv
  <2>3. ASSUME NEW name \in Package, NEW req \in Req,
               Visits(name, Intersect(req, extra[name]), Advanced),
               edges' = [edges EXCEPT ![Top.name] = @ \cup {name}]
        PROVE  (CallsNew /\ EdgesLead /\ PlanAcyclic)'
    <3> DEFINE eff == Intersect(req, extra[name])
    <3>1. extra[name] \in Req
      BY DEF GraphInv, Typed, TypeOK
    <3>2. eff \in Req
      BY <3>1, Intersection
    <3> HIDE DEF eff
    <3>3. Visits(name, eff, Advanced)
      BY <2>3 DEF eff
    <3>4. CASE Fails \/ Restarts(name, eff)
      BY <2>1, <3>2, <3>4, GivenUp
    <3>5. CASE Reuses(name, eff, Advanced)
      BY <2>1, <2>3, <3>2, <3>5, ReuseKeepsGraph
    <3>6. CASE Opens(name, eff, Advanced)
      BY <2>1, <2>3, <3>2, <3>6, OpenKeepsGraph
    <3> QED BY <3>3, <3>4, <3>5, <3>6 DEF Visits
  <2> QED BY <1>1, <1>3, <2>2, <2>3, DependencyVisited DEF GraphInv
<1>4. CASE VisitReturns
  BY <1>1, <1>4, ReturnKeepsGraph DEF GraphInv
<1>5. CASE Order
  <2>1. UNCHANGED <<world, stack, resolved, edges>> /\ Running
    BY <1>5 DEF Order, Running
  <2> QED BY <1>1, <2>1 DEF GraphInv, CallsNew, EdgesLead, PlanAcyclic, Calls, Plan, Present,
             Settled, Visiting, Cycle
<1>6. CASE UNCHANGED vars
  <2>1. UNCHANGED <<world, stack, resolved, edges, pc, result>>
    BY <1>6 DEF vars
  <2> QED BY <1>1, <2>1 DEF GraphInv, CallsNew, EdgesLead, PlanAcyclic, Calls, Plan, Present,
             Settled, Visiting, Cycle, Running
<1> QED BY <1>2, <1>3, <1>4, <1>5, <1>6 DEF Next

LEMMA GraphInvariant == Spec => []GraphInv
BY GraphInvInit, GraphInvStep, PTL DEF Spec

\* Whatever a completed visit has decided has no cycle, and nothing else has
\* edges.
LEMMA GraphSorts ==
    GraphInv => OrderNeverRefused
<1> SUFFICES ASSUME GraphInv, pc = "order", NEW S \in SUBSET Package, Cycle(S) PROVE FALSE
  BY DEF OrderNeverRefused
<1>1. Visiting = {} /\ Running
  BY EmptySeq DEF GraphInv, Typed, Visiting, Running
<1>2. \A p \in S : p \in Package /\ edges[p] # {}
  BY DEF Cycle
<1>3. S \subseteq Plan
  BY <1>1, <1>2 DEF GraphInv, EdgesLead
<1> QED BY <1>1, <1>3 DEF GraphInv, PlanAcyclic

\* install_order never refuses the graph of a completed visit: every cycle was
\* found by the visit itself.
THEOREM SortNeverRefuses == Spec => []OrderNeverRefused
BY GraphSorts, GraphInvariant, PTL

(***************************************************************************)
(* What the plan holds.                                                    *)
(***************************************************************************)
\* What NextDep visits with was asked for.
LEMMA ReachedAsked ==
    ASSUME Typed, NextDep, NEW name \in Package, NEW req, Reached(name, req)
    PROVE  req \in Asked(name)
<1> DEFINE p == Top.name
           v == Top.version
           i == Top.next
           dep == world.deps[p][v][i]
<1>1. pc = "visit" /\ i <= Len(world.deps[p][v])
  BY DEF NextDep
<1>2. p \in Package /\ v \in Version /\ i \in Nat \ {0}
  BY <1>1, TopType DEF Frame
<1>3. Len(world.deps[p][v]) \in Nat
  BY <1>2, WorldType, LenProperties
<1>4. i \in 1..Len(world.deps[p][v])
  BY <1>1, <1>2, <1>3
<1>5. \/ name = dep.name /\ req = dep.req
      \/ name \in Providers(dep.name) /\ req = Any
  BY DEF Reached
<1> HIDE DEF p, v, i
<1>6. /\ dep.req \in Asked(dep.name)
      /\ \A q : (\E u \in world.avail[q] : dep.name \in world.provides[q][u]) => Any \in Asked(q)
  BY <1>2, <1>4, DependencyAsked
<1> HIDE DEF dep
<1>7. name \in Providers(dep.name) => \E u \in world.avail[name] : dep.name \in world.provides[name][u]
  BY DEF Providers, Providing
<1> QED BY <1>5, <1>6, <1>7

\* A step learns nothing, or is a restart for something asked, never for the
\* root, which is being visited then.
LEMMA RestartOrNot ==
    ASSUME Typed, [Next]_vars
    PROVE  \/ UNCHANGED <<extra, restarts>>
           \/ pc = "visit" /\ \E name \in Package : \E req \in Asked(name) :
                 Restarts(name, Intersect(req, extra[name]))
<1>1. ASSUME NEW name, NEW eff, NEW rest, Visits(name, eff, rest), ~Restarts(name, eff)
      PROVE  UNCHANGED <<extra, restarts>>
  BY <1>1 DEF Visits, Fails, Fail, Reuses, Opens, Continue
<1>2. CASE StartAttempt
  <2>1. Root \in Package /\ rootReq \in Req /\ pc = "start"
    BY <1>2, ResolverAssumption DEF Typed, TypeOK, StartAttempt
  <2>2. ~Restarts(Root, Intersect(rootReq, extra[Root]))
    BY <2>1, RootNew DEF Restarts, Settled
  <2> QED BY <1>1, <1>2, <2>2, StartVisits
<1>3. CASE NextDep
  <2>1. CASE Fails
    BY <2>1 DEF Fails, Fail
  <2>2. ASSUME NEW name \in Package, NEW req \in Req, Reached(name, req),
               Visits(name, Intersect(req, extra[name]), Advanced)
        PROVE  \/ UNCHANGED <<extra, restarts>>
               \/ req \in Asked(name) /\ Restarts(name, Intersect(req, extra[name]))
    <3>1. req \in Asked(name)
      BY <1>3, <2>2, ReachedAsked
    <3> QED BY <1>1, <2>2, <3>1
  <2>3. pc = "visit"
    BY <1>3 DEF NextDep
  <2> QED BY <1>3, <2>1, <2>2, <2>3, DependencyVisited
<1>4. CASE VisitReturns \/ Order \/ UNCHANGED vars
  BY <1>4 DEF VisitReturns, Order, vars
<1> QED BY <1>2, <1>3, <1>4 DEF Next

LEMMA WorldKept ==
    [Next]_vars => UNCHANGED <<world, rootReq>>
BY DEF Next, StartAttempt, NextDep, VisitReturns, Order, vars, Visit, Continue, Narrow, Fail, OnCycle

LEMMA ExactInit ==
    Init => Exact
BY AnyIsRequirement DEF Init, Exact, NoReq

LEMMA ExactStep ==
    ASSUME Typed, Exact, [Next]_vars
    PROVE  Exact'
<1>1. /\ \A p : Asked(p)' = Asked(p) /\ Known(p)' = Known(p)
      /\ TagsAgree' = TagsAgree
  BY WorldKept, AskedKept
<1>2. SUFFICES ASSUME TagsAgree, NEW p \in Package, extra'[p].n # 0, NEW r \in Asked(p)
               PROVE  Agree(p, r, extra'[p])
  BY <1>1 DEF Exact, Agree
<1>3. CASE extra' = extra
  BY <1>2, <1>3 DEF Exact
<1>4. ASSUME NEW name \in Package, NEW req \in Asked(name),
             Restarts(name, Intersect(req, extra[name]))
      PROVE  Agree(p, r, extra'[p])
  <2>1. /\ extra \in [Package -> Req]
        /\ extra' = [extra EXCEPT ![name] =
                       IF extra[name].n = 0 THEN Intersect(req, extra[name])
                       ELSE Intersect(extra[name], Intersect(req, extra[name]))]
    BY <1>4 DEF Restarts, Narrow, Typed, TypeOK
  <2>2. CASE p # name
    BY <1>2, <2>1, <2>2 DEF Exact
  <2>3. CASE p = name
    BY <1>2, <2>1, <2>3, LearnedAgrees
  <2> QED BY <2>2, <2>3
<1> QED BY <1>3, <1>4, RestartOrNot

\* What is reached for a dependency answers it, in any version that is picked
\* or installed for it.
LEMMA ReachedAnswers ==
    ASSUME Typed, Exact, NextDep, NEW name \in Package, NEW req \in Req, Reached(name, req),
           NEW u \in Version, u \in Intersect(req, extra[name]).ok,
           u \in world.avail[name] \cup {world.installed[name]}
    PROVE  Answers(name, u, world.deps[Top.name][Top.version][Top.next])
<1> DEFINE dep == world.deps[Top.name][Top.version][Top.next]
<1>1. u \in Known(name)
  BY DEF Known, Version
<1>2. u \in req.fits /\ (TagsAgree => u \in req.ok)
  BY <1>1, ReachedAsked, TakenMatches
<1>3. CASE name = dep.name /\ req = dep.req
  BY <1>2, <1>3 DEF Answers
<1>4. CASE name \in Providers(dep.name)
  <2>1. \E x \in world.avail[name] : dep.name \in world.provides[name][x]
    BY <1>4 DEF Providers, Providing
  <2> QED BY <1>1, <2>1 DEF Answers
<1> QED BY <1>3, <1>4 DEF Reached

\* Supplied after a step that leaves the world alone.
Later(p, v, k) ==
    \E q \in edges'[p], u \in Version : Chosen(q, u)' /\ Answers(q, u, world.deps[p][v][k])

\* A dependency stays supplied while edges and choices are only added.
LEMMA StaysSupplied ==
    ASSUME Typed,
           \A p \in Package : edges[p] \subseteq edges'[p],
           \A q \in Package, u \in Version : Chosen(q, u) => Chosen(q, u)',
           NEW p \in Package, NEW v, NEW k, Supplied(p, v, k)
    PROVE  Later(p, v, k)
<1>1. PICK q \in edges[p], u \in Version :
         Chosen(q, u) /\ Answers(q, u, world.deps[p][v][k])
  BY DEF Supplied
<1>2. q \in Package /\ q \in edges'[p]
  BY DEF Typed, TypeOK
<1>3. Chosen(q, u)'
  BY <1>1, <1>2
<1> QED BY <1>1, <1>2, <1>3 DEF Later

LEMMA NeedsNext ==
    ASSUME UNCHANGED <<world, rootReq>>,
           \A i \in Calls' : \A k \in 1..Len(world.deps[stack'[i].name][stack'[i].version]) :
              k < stack'[i].next => Later(stack'[i].name, stack'[i].version, k),
           \A p \in Plan' : \A k \in 1..Len(world.deps[p][resolved'[p]]) : Later(p, resolved'[p], k)
    PROVE  NeedsMet'
<1>1. ASSUME NEW p, NEW v, NEW k, Later(p, v, k)
      PROVE  \E q \in edges'[p], u \in Version :
                Chosen(q, u)' /\ Answers(q, u, world.deps[p][v][k])'
  <2>1. PICK q \in edges'[p], u \in Version : Chosen(q, u)' /\ Answers(q, u, world.deps[p][v][k])
    BY <1>1 DEF Later
  <2>2. Answers(q, u, world.deps[p][v][k])'
    <3>1. TagsAgree' = TagsAgree /\ Known(q)' = Known(q) /\ world' = world
      BY AskedKept
    <3> QED BY <2>1, <3>1 DEF Answers
  <2> QED BY <2>1, <2>2
<1> QED BY <1>1 DEF NeedsMet, Supplied

\* Something settled meets the dependency at hand.
LEMMA ReuseKeepsPlan ==
    ASSUME PlanInv, NextDep, pc = "visit", NEW name \in Package, NEW req \in Req,
           Reached(name, req), Reuses(name, Intersect(req, extra[name]), Advanced),
           edges' = [edges EXCEPT ![Top.name] = @ \cup {name}]
    PROVE  (PicksPublished /\ NeedsMet /\ RootMet)'
<1> USE DEF PlanInv, GraphInv
<1> DEFINE eff == Intersect(req, extra[name])
           n == Len(stack)
<1>1. /\ stack' = Advanced /\ pc' = "visit" /\ Running
      /\ UNCHANGED <<world, rootReq, resolved, extra, restarts, result>>
  BY TopType DEF Reuses, Continue, Running
<1>2. /\ Calls' = Calls /\ Len(stack') = n /\ 1 \in Calls /\ n \in Calls
      /\ \A i \in Calls : /\ stack'[i].name = stack[i].name /\ stack'[i].version = stack[i].version
                          /\ stack'[i].next = IF i = n THEN stack[i].next + 1 ELSE stack[i].next
  BY <1>1, TopType DEF Calls
<1>3. PICK u \in eff.ok : u = resolved[name] \/ u = world.installed[name]
  BY DEF Reuses
<1>4. u \in Version
  <2>1. extra[name] \in Req
    BY DEF Typed, TypeOK
  <2>2. eff \in Req
    BY <2>1, Intersection
  <2> HIDE DEF eff
  <2>3. u \in eff.ok
    BY <1>3
  <2> QED BY <2>2, <2>3 DEF Req
<1>5. u \in world.avail[name] \cup {world.installed[name]}
  BY <1>3, <1>4 DEF PicksPublished, Plan, Version
<1>6. Answers(name, u, world.deps[Top.name][Top.version][Top.next])
  BY <1>3, <1>4, <1>5, ReachedAnswers
<1>7. Chosen(name, u)
  BY <1>3 DEF Chosen
<1> HIDE DEF eff, n
<1>8. /\ Top.name \in Package /\ Top = stack[n]
      /\ \A p \in Package : edges'[p] = edges[p] \cup (IF p = Top.name THEN {name} ELSE {})
  BY EdgeAdded DEF n
<1>9. \A q, w : Chosen(q, w) => Chosen(q, w)'
  BY <1>1, <1>2 DEF Chosen
<1>10. Plan' = Plan /\ Plan \subseteq Package
  BY <1>1 DEF Plan
<1>11. ASSUME NEW p \in Package, NEW v, NEW k, Supplied(p, v, k) PROVE Later(p, v, k)
  BY <1>8, <1>9, <1>11, StaysSupplied
<1>12. PicksPublished'
  BY <1>1, <1>2, <1>10 DEF PicksPublished
<1>13. NeedsMet'
  <2>1. ASSUME NEW i \in Calls, NEW k \in 1..Len(world.deps[stack[i].name][stack[i].version]),
               k < stack'[i].next
        PROVE  Later(stack[i].name, stack[i].version, k)
    <3>1. stack[i].name \in Package /\ stack[i].next \in Nat /\ k \in Nat
      BY CallsFacts
    <3>2. CASE k < stack[i].next
      <4>1. Supplied(stack[i].name, stack[i].version, k)
        BY <1>1, <3>2 DEF NeedsMet
      <4> QED BY <1>11, <3>1, <4>1
    <3>3. CASE ~(k < stack[i].next)
      <4>1. i = n /\ k = stack[i].next
        BY <1>2, <2>1, <3>1, <3>3
      <4>2. Answers(name, u, world.deps[stack[i].name][stack[i].version][k])
        BY <1>6, <1>8, <4>1
      <4>3. name \in edges'[stack[i].name] /\ Chosen(name, u)'
        BY <1>7, <1>8, <1>9, <4>1
      <4> QED BY <1>4, <4>2, <4>3 DEF Later
    <3> QED BY <3>2, <3>3
  <2>2. ASSUME NEW p \in Plan, NEW k \in 1..Len(world.deps[p][resolved[p]])
        PROVE  Later(p, resolved[p], k)
    <3>1. Supplied(p, resolved[p], k)
      BY <1>1 DEF NeedsMet
    <3> QED BY <1>10, <1>11, <3>1
  <2> QED BY <1>1, <1>2, <1>10, <2>1, <2>2, NeedsNext
<1>14. RootMet'
  BY <1>1, <1>2 DEF RootMet, Typed
<1> QED BY <1>12, <1>13, <1>14

\* A call is opened to meet the dependency at hand.
LEMMA OpenKeepsPlan ==
    ASSUME PlanInv, NextDep, pc = "visit", NEW name \in Package, NEW req \in Req,
           Reached(name, req), Opens(name, Intersect(req, extra[name]), Advanced),
           edges' = [edges EXCEPT ![Top.name] = @ \cup {name}]
    PROVE  (PicksPublished /\ NeedsMet /\ RootMet)'
<1> USE DEF PlanInv, GraphInv
<1> DEFINE n == Len(stack)
<1>1. PICK u \in world.avail[name] \cap Intersect(req, extra[name]).ok :
           Continue(Append(Advanced, [name |-> name, version |-> u, next |-> 1]))
  BY DEF Opens
<1>2. u \in Version /\ [name |-> name, version |-> u, next |-> 1] \in Frame
  BY WorldType DEF Frame
<1>3. /\ stack' = Append(Advanced, [name |-> name, version |-> u, next |-> 1]) /\ Running
      /\ UNCHANGED <<world, rootReq, resolved, extra, restarts, result>>
  BY <1>1 DEF Continue, Running
<1>4. /\ n \in Nat \ {0} /\ n \in Calls /\ Calls = 1..n /\ Calls' = 1..(n + 1)
      /\ \A i \in Calls : /\ stack'[i].name = stack[i].name /\ stack'[i].version = stack[i].version
                          /\ stack'[i].next = IF i = n THEN stack[i].next + 1 ELSE stack[i].next
      /\ stack'[n + 1] = [name |-> name, version |-> u, next |-> 1]
      /\ stack' # <<>>
  BY <1>2, <1>3, TopType, PushCall DEF Calls
<1>5. Answers(name, u, world.deps[Top.name][Top.version][Top.next])
  BY <1>1, <1>2, ReachedAnswers
<1> HIDE DEF n
<1>6. /\ Top.name \in Package /\ Top = stack[n]
      /\ \A p \in Package : edges'[p] = edges[p] \cup (IF p = Top.name THEN {name} ELSE {})
  BY EdgeAdded DEF n
<1>7. \A q, w : Chosen(q, w) => Chosen(q, w)'
  <2>1. \A i \in Calls : i \in Calls'
    BY <1>4
  <2> QED BY <1>3, <1>4, <2>1 DEF Chosen
<1>8. Chosen(name, u)'
  <2>1. n + 1 \in Calls' /\ stack'[n + 1].name = name /\ stack'[n + 1].version = u
    BY <1>4
  <2> QED BY <2>1 DEF Chosen
<1>9. Plan' = Plan /\ Plan \subseteq Package
  BY <1>3 DEF Plan
<1>10. ASSUME NEW p \in Package, NEW v, NEW k, Supplied(p, v, k) PROVE Later(p, v, k)
  BY <1>6, <1>7, <1>10, StaysSupplied
<1>11. PicksPublished'
  <2>1. ASSUME NEW i \in 1..(n + 1) PROVE stack'[i].version \in world.avail[stack'[i].name]
    <3>1. CASE i = n + 1
      BY <1>1, <1>4, <3>1
    <3>2. CASE i \in Calls
      BY <1>4, <3>2 DEF PicksPublished
    <3> QED BY <1>4, <3>1, <3>2
  <2> QED BY <1>3, <1>4, <1>9, <2>1 DEF PicksPublished
<1>12. NeedsMet'
  <2>1. ASSUME NEW i \in Calls, NEW k \in 1..Len(world.deps[stack[i].name][stack[i].version]),
               k < stack'[i].next
        PROVE  Later(stack[i].name, stack[i].version, k)
    <3>1. stack[i].name \in Package /\ stack[i].next \in Nat /\ k \in Nat
      BY CallsFacts
    <3>2. CASE k < stack[i].next
      <4>1. Supplied(stack[i].name, stack[i].version, k)
        BY <1>3, <3>2 DEF NeedsMet
      <4> QED BY <1>10, <3>1, <4>1
    <3>3. CASE ~(k < stack[i].next)
      <4>1. i = n /\ k = stack[i].next
        BY <1>4, <2>1, <3>1, <3>3
      <4>2. Answers(name, u, world.deps[stack[i].name][stack[i].version][k])
        BY <1>5, <1>6, <4>1
      <4>3. name \in edges'[stack[i].name]
        BY <1>6, <4>1
      <4> QED BY <1>2, <1>8, <4>2, <4>3 DEF Later
    <3> QED BY <3>2, <3>3
  <2>2. ASSUME NEW p \in Plan, NEW k \in 1..Len(world.deps[p][resolved[p]])
        PROVE  Later(p, resolved[p], k)
    <3>1. Supplied(p, resolved[p], k)
      BY <1>3 DEF NeedsMet
    <3> QED BY <1>9, <1>10, <3>1
  <2>3. ASSUME NEW i \in 1..(n + 1), NEW k \in 1..Len(world.deps[stack'[i].name][stack'[i].version]),
               k < stack'[i].next
        PROVE  Later(stack'[i].name, stack'[i].version, k)
    <3>1. CASE i \in Calls
      BY <1>4, <2>1, <2>3, <3>1
    <3>2. i # n + 1
      <4>1. k \in Nat \ {0}
        OBVIOUS
      <4> QED BY <1>4, <2>3, <4>1
    <3> QED BY <1>4, <3>1, <3>2
  <2> QED BY <1>3, <1>4, <1>9, <2>2, <2>3, NeedsNext
<1>13. RootMet'
  <2>1. 1 \in Calls /\ pc' # "order" /\ result' # "ok"
    BY <1>1, <1>3, <1>4 DEF Continue, Typed
  <2> QED BY <1>3, <1>4, <2>1 DEF RootMet
<1> QED BY <1>11, <1>12, <1>13

\* A call returns when its loop has taken up all dependencies.
LEMMA ReturnKeepsPlan ==
    ASSUME PlanInv, VisitReturns
    PROVE  (PicksPublished /\ NeedsMet /\ RootMet)'
<1> USE DEF PlanInv, GraphInv
<1> DEFINE n == Len(stack)
           t == Top.name
<1>1. /\ pc = "visit" /\ UNCHANGED <<world, rootReq, edges, extra, restarts, result>>
      /\ resolved' = [resolved EXCEPT ![t] = Top.version] /\ Running /\ result = "none"
      /\ Top.next > Len(world.deps[t][Top.version]) /\ pc' = IF n = 1 THEN "order" ELSE "visit"
  BY DEF VisitReturns, Running, Typed
<1>2. /\ n \in Nat \ {0} /\ n \in Calls /\ Calls = 1..n /\ Calls' = 1..(n - 1)
      /\ \A i \in 1..(n - 1) : stack'[i] = stack[i] /\ i \in Calls
      /\ Top = stack[n] /\ t \in Package /\ Top.version \in Version /\ Top.next \in Nat
  BY CallPopped
<1>3. resolved \in [Package -> 0..MaxVersion] /\ ~Settled(t)
  BY <1>2 DEF Typed, TypeOK, CallsNew
<1> HIDE DEF n, t
<1>4. /\ resolved'[t] = Top.version /\ \A p \in Package \ {t} : resolved'[p] = resolved[p]
      /\ Plan' = Plan \cup {t} /\ t \notin Plan /\ Plan \subseteq Package
  <2>1. Top.version # 0
    BY <1>2 DEF Version
  <2> QED BY <1>1, <1>2, <1>3, <2>1 DEF Plan, Settled
<1>5. ASSUME NEW q \in Package, NEW u \in Version, Chosen(q, u) PROVE Chosen(q, u)'
  <2>1. CASE resolved[q] = u
    <3>1. q # t
      BY <1>3, <2>1 DEF Settled, Version
    <3> QED BY <1>4, <2>1, <3>1 DEF Chosen
  <2>2. CASE world.installed[q] = u
    BY <1>1, <2>2 DEF Chosen
  <2>3. ASSUME NEW i \in Calls, stack[i].name = q, stack[i].version = u
        PROVE  Chosen(q, u)'
    <3>1. CASE i = n
      <4>1. resolved'[q] = u
        BY <1>2, <1>4, <2>3, <3>1 DEF t
      <4> QED BY <4>1 DEF Chosen
    <3>2. CASE i # n
      <4>1. i \in Calls' /\ stack'[i] = stack[i]
        BY <1>2, <3>2
      <4> QED BY <2>3, <4>1 DEF Chosen
    <3> QED BY <3>1, <3>2
  <2> QED BY <1>5, <2>1, <2>2, <2>3 DEF Chosen
<1>6. ASSUME NEW p \in Package, NEW v, NEW k, Supplied(p, v, k) PROVE Later(p, v, k)
  <2>1. \A q \in Package, u \in Version : Chosen(q, u) => Chosen(q, u)'
    BY <1>5
  <2>2. \A q \in Package : edges[q] \subseteq edges'[q]
    BY <1>1
  <2> QED BY <1>6, <2>1, <2>2, StaysSupplied
<1>7. PicksPublished'
  <2>1. ASSUME NEW p \in Plan' PROVE resolved'[p] \in world.avail[p]
    <3>1. CASE p = t
      BY <1>2, <1>4, <3>1 DEF PicksPublished, t
    <3>2. CASE p \in Plan
      BY <1>4, <3>2 DEF PicksPublished
    <3> QED BY <1>4, <3>1, <3>2
  <2>2. \A i \in 1..(n - 1) : stack'[i].version \in world.avail[stack'[i].name]
    BY <1>2 DEF PicksPublished
  <2> QED BY <1>1, <1>2, <2>1, <2>2 DEF PicksPublished
<1>8. NeedsMet'
  <2>1. ASSUME NEW i \in Calls, NEW k \in 1..Len(world.deps[stack[i].name][stack[i].version]),
               k < stack[i].next
        PROVE  Later(stack[i].name, stack[i].version, k)
    <3>1. Supplied(stack[i].name, stack[i].version, k)
      BY <1>1, <2>1 DEF NeedsMet
    <3> QED BY <1>6, <3>1, CallsFacts
  <2>2. ASSUME NEW p \in Plan', NEW k \in 1..Len(world.deps[p][resolved'[p]])
        PROVE  Later(p, resolved'[p], k)
    <3>1. CASE p = t
      <4>1. k \in 1..Len(world.deps[stack[n].name][stack[n].version])
        BY <1>2, <1>4, <2>2, <3>1 DEF t
      <4>2. Len(world.deps[t][Top.version]) \in Nat
        BY <1>2, WorldType, LenProperties
      <4>3. /\ stack[n].name = t /\ stack[n].version = Top.version
            /\ stack[n].next = Top.next
        BY <1>2 DEF t
      <4>4. Top.next \in Nat /\ Top.next > Len(world.deps[t][Top.version])
        BY <1>1, <1>2
      <4>5. k < stack[n].next
        BY <4>1, <4>2, <4>3, <4>4
      <4> QED BY <1>2, <1>4, <2>1, <3>1, <4>1, <4>5 DEF t
    <3>2. CASE p \in Plan
      <4>1. Supplied(p, resolved[p], k) /\ resolved'[p] = resolved[p]
        BY <1>1, <1>4, <2>2, <3>2 DEF NeedsMet
      <4> QED BY <1>4, <1>6, <3>2, <4>1
    <3> QED BY <1>4, <3>1, <3>2
  <2>3. ASSUME NEW i \in Calls', NEW k \in 1..Len(world.deps[stack'[i].name][stack'[i].version]),
               k < stack'[i].next
        PROVE  Later(stack'[i].name, stack'[i].version, k)
    <3>1. i \in Calls /\ stack'[i] = stack[i]
      BY <1>2
    <3> QED BY <2>1, <2>3, <3>1
  <2> QED BY <1>1, <2>2, <2>3, NeedsNext
<1>9. RootMet'
  <2>1. CASE n = 1
    BY <1>1, <1>2, <1>4, <2>1 DEF RootMet, t
  <2>2. CASE n # 1
    <3>1. stack'[1] = stack[1] /\ pc' = "visit" /\ result' = "none"
      BY <1>1, <1>2, <2>2
    <3> QED BY <1>1, <3>1 DEF RootMet
  <2> QED BY <2>1, <2>2
<1> QED BY <1>7, <1>8, <1>9

\* The root is picked in a version that was asked for.
LEMMA StartKeepsPlan ==
    ASSUME PlanInv, StartAttempt
    PROVE  (PicksPublished /\ NeedsMet /\ RootMet)'
<1> USE DEF PlanInv, GraphInv
<1> DEFINE eff == Intersect(rootReq, extra[Root])
<1>1. /\ pc = "start" /\ stack = <<>> /\ resolved = NothingResolved /\ result = "none"
      /\ edges' = NoEdges /\ Visits(Root, eff, <<>>)
      /\ Root \in Package /\ ~Settled(Root)
  BY StartVisits, RootNew DEF StartAttempt, Typed, TypeOK
<1>2. eff = rootReq /\ eff.ok \subseteq Version
  <2>1. rootReq \in Req /\ extra[Root] \in Req
    BY <1>1 DEF Typed, TypeOK
  <2>2. eff = rootReq
    BY <2>1, Intersection DEF RootMet
  <2> QED BY <2>1, <2>2, RequirementType
<1> HIDE DEF eff
<1>3. CASE Fails
  <2>1. PICK e \in Outcomes : Fail(e)
    BY <1>3 DEF Fails
  <2>2. UNCHANGED <<world, stack, resolved, extra>> /\ ~Running' /\ pc' = "done" /\ result' # "ok"
    BY <2>1 DEF Fail, Running, Outcomes
  <2> QED BY <2>2 DEF PicksPublished, NeedsMet, RootMet, Calls, Plan
<1>4. CASE Opens(Root, eff, <<>>)
  <2>1. PICK v \in world.avail[Root] \cap eff.ok :
           Continue(Append(<<>>, [name |-> Root, version |-> v, next |-> 1]))
    BY <1>4 DEF Opens
  <2>2. [name |-> Root, version |-> v, next |-> 1] \in Frame
    BY <1>1, WorldType DEF Frame
  <2>3. /\ stack' = Append(<<>>, [name |-> Root, version |-> v, next |-> 1])
        /\ UNCHANGED <<world, rootReq, resolved, extra, result>>
    BY <2>1 DEF Continue
  <2>4. Calls' = {1} /\ stack'[1] = [name |-> Root, version |-> v, next |-> 1] /\ stack' # <<>>
    BY <2>2, <2>3, PushCall, EmptySeq DEF Calls
  <2>5. Plan' = {} /\ pc' = "visit"
    BY <1>1, <2>1, <2>3, <2>4 DEF Plan, NothingResolved, Continue
  <2>6. PicksPublished'
    BY <2>1, <2>3, <2>4, <2>5 DEF PicksPublished
  <2>7. NeedsMet'
    <3>1. \A i \in Calls' : \A k \in 1..Len(world.deps[stack'[i].name][stack'[i].version]) :
             ~(k < stack'[i].next)
      BY <2>4
    <3> QED BY <2>3, <2>5, <3>1, NeedsNext
  <2>8. RootMet'
    BY <1>1, <1>2, <2>1, <2>3, <2>4, <2>5 DEF RootMet
  <2> QED BY <2>6, <2>7, <2>8
<1>5. ~Restarts(Root, eff) /\ ~Reuses(Root, eff, <<>>)
  BY <1>1, <1>2 DEF Restarts, Reuses, Settled, Version
<1> QED BY <1>1, <1>3, <1>4, <1>5 DEF Visits

LEMMA PlanGivenUp ==
    ASSUME PlanInv, pc = "visit",
           Fails \/ (\E name \in Package, eff \in Req : Restarts(name, eff))
    PROVE  (PicksPublished /\ NeedsMet /\ RootMet)'
<1> USE DEF PlanInv, GraphInv
<1>1. ~Running'
  BY GivenUp
<1>2. NeedsMet'
  BY <1>1 DEF NeedsMet
<1>3. ASSUME extra'[Root].n = 0 PROVE RootMet'
  BY <1>1, <1>3 DEF RootMet, Running
<1>4. CASE Fails
  <2>1. PICK e \in Outcomes : Fail(e)
    BY <1>4 DEF Fails
  <2>2. UNCHANGED <<world, stack, resolved, extra>>
    BY <2>1 DEF Fail
  <2> QED BY <1>2, <1>3, <2>2 DEF PicksPublished, Calls, Plan, RootMet
<1>5. ASSUME NEW name \in Package, NEW eff \in Req, Restarts(name, eff)
      PROVE  PicksPublished' /\ RootMet'
  <2>1. stack' = <<>> /\ resolved' = NothingResolved
    BY <1>5 DEF Restarts, Narrow
  <2>2. name # Root
    <3>1. 1 \in Calls /\ stack[1].name = Root
      BY TopType DEF Calls, RootMet
    <3> QED BY <1>5, <3>1 DEF CallsNew, Settled, Restarts
  <2>3. extra'[Root] = extra[Root]
    BY <1>5, <2>2, ResolverAssumption DEF Restarts, Narrow, Typed, TypeOK
  <2> QED BY <1>3, <2>1, <2>3, EmptySeq DEF PicksPublished, Calls, Plan, NothingResolved, RootMet
<1> QED BY <1>2, <1>4, <1>5

LEMMA PlanInvInit ==
    Init => PlanInv
<1> SUFFICES ASSUME Init PROVE PlanInv
  OBVIOUS
<1>1. Calls = {} /\ Plan = {} /\ ~Running
  BY DEF Init, Calls, Plan, NothingResolved, Running
<1>2. extra[Root].n = 0
  BY AnyIsRequirement, ResolverAssumption DEF Init, NoReq
<1> QED BY <1>1, <1>2, GraphInvInit, ExactInit DEF PlanInv, PicksPublished, NeedsMet, RootMet, Running, Init

LEMMA PlanInvStep ==
    ASSUME PlanInv, [Next]_vars
    PROVE  PlanInv'
<1>1. GraphInv' /\ Exact'
  BY GraphInvStep, ExactStep DEF PlanInv, GraphInv
<1>2. CASE StartAttempt
  BY <1>1, <1>2, StartKeepsPlan DEF PlanInv
<1>3. CASE NextDep
  <2>1. pc = "visit"
    BY <1>3 DEF NextDep
  <2>2. CASE Fails
    BY <1>1, <2>1, <2>2, PlanGivenUp DEF PlanInv
  <2>3. ASSUME NEW name \in Package, NEW req \in Req, Reached(name, req),
               Visits(name, Intersect(req, extra[name]), Advanced),
               edges' = [edges EXCEPT ![Top.name] = @ \cup {name}]
        PROVE  (PicksPublished /\ NeedsMet /\ RootMet)'
    <3>1. extra[name] \in Req
      BY DEF PlanInv, GraphInv, Typed, TypeOK
    <3>2. Intersect(req, extra[name]) \in Req
      BY <3>1, Intersection
    <3>3. CASE Fails \/ Restarts(name, Intersect(req, extra[name]))
      BY <2>1, <3>2, <3>3, PlanGivenUp
    <3>4. CASE Reuses(name, Intersect(req, extra[name]), Advanced)
      BY <1>3, <2>1, <2>3, <3>4, ReuseKeepsPlan
    <3>5. CASE Opens(name, Intersect(req, extra[name]), Advanced)
      BY <1>3, <2>1, <2>3, <3>5, OpenKeepsPlan
    <3> QED BY <2>3, <3>3, <3>4, <3>5 DEF Visits
  <2> QED BY <1>1, <1>3, <2>2, <2>3, DependencyVisited DEF PlanInv, GraphInv
<1>4. CASE VisitReturns
  BY <1>1, <1>4, ReturnKeepsPlan DEF PlanInv
<1>5. ASSUME UNCHANGED <<world, rootReq, stack, resolved, edges, extra>>, Running' => Running,
             pc' # "visit" \/ UNCHANGED pc, pc' = "order" \/ result' = "ok" => pc = "order" \/ result = "ok"
      PROVE  (PicksPublished /\ NeedsMet /\ RootMet)'
  <2>1. Calls' = Calls /\ Plan' = Plan /\ PicksPublished'
    BY <1>5 DEF PlanInv, PicksPublished, Calls, Plan
  <2>2. NeedsMet'
    <3>1. CASE ~Running'
      BY <3>1 DEF NeedsMet
    <3>2. CASE Running'
      <4>1. \A q \in Package, u \in Version : Chosen(q, u) => Chosen(q, u)'
        BY <1>5, <2>1 DEF Chosen
      <4>2. ASSUME NEW p \in Package, NEW v, NEW k, Supplied(p, v, k) PROVE Later(p, v, k)
        BY <1>5, <4>1, <4>2, StaysSupplied DEF PlanInv, GraphInv
      <4>3. /\ \A i \in Calls : stack[i].name \in Package
            /\ Plan \subseteq Package
        BY CallsFacts DEF Plan, PlanInv, GraphInv
      <4>4. /\ \A i \in Calls' : \A k \in 1..Len(world.deps[stack'[i].name][stack'[i].version]) :
                  k < stack'[i].next => Later(stack'[i].name, stack'[i].version, k)
            /\ \A p \in Plan' : \A k \in 1..Len(world.deps[p][resolved'[p]]) :
                  Later(p, resolved'[p], k)
        BY <1>5, <2>1, <3>2, <4>2, <4>3 DEF PlanInv, NeedsMet
      <4> QED BY <1>5, <4>4, NeedsNext
    <3> QED BY <3>1, <3>2
  <2>3. RootMet'
    BY <1>5 DEF PlanInv, RootMet
  <2> QED BY <2>1, <2>2, <2>3
<1>6. CASE Order
  BY <1>1, <1>5, <1>6 DEF Order, Running, PlanInv
<1>7. CASE UNCHANGED vars
  BY <1>1, <1>5, <1>7 DEF vars, Running, PlanInv
<1> QED BY <1>2, <1>3, <1>4, <1>6, <1>7 DEF Next

\* A plan holds the root in a version that was asked for, nothing that is
\* installed, and for each dependency of its packages something installed or
\* planned before them: whatever is published, and whatever versions provide.
THEOREM PlansAreComplete == Spec => []DependenciesInPlace
<1>1. PlanInv => DependenciesInPlace
  <2> SUFFICES ASSUME PlanInv, result = "ok" PROVE DependenciesInPlace
    BY DEF DependenciesInPlace
  <2> USE DEF PlanInv, GraphInv
  <2>1. Running /\ Calls = {}
    BY EmptySeq DEF Typed, Calls, Running
  <2>2. resolved[Root] \in rootReq.ok /\ Plan \cap Present = {}
    BY DEF RootMet, CallsNew
  <2>3. ASSUME NEW p \in Plan, NEW i \in 1..Len(world.deps[p][resolved[p]])
        PROVE  \E q \in Present \cup (edges[p] \cap Plan) :
                  Answers(q, After[q], world.deps[p][resolved[p]][i])
    <3>1. PICK q \in edges[p], u \in Version :
             Chosen(q, u) /\ Answers(q, u, world.deps[p][resolved[p]][i])
      BY <2>1 DEF NeedsMet, Supplied
    <3>2. q \in Package /\ u # 0
      BY DEF Plan, Typed, TypeOK, Version
    <3>3. resolved[q] = u \/ world.installed[q] = u
      BY <2>1, <3>1 DEF Chosen
    <3>4. CASE resolved[q] = u
      <4>1. After[q] = u /\ q \in Plan
        BY <3>2, <3>4 DEF After, Plan
      <4> QED BY <3>1, <4>1
    <3>5. CASE world.installed[q] = u
      <4>1. q \in Present /\ q \notin Plan
        BY <2>2, <3>2, <3>5 DEF Present
      <4>2. After[q] = u
        BY <3>2, <3>5, <4>1 DEF After, Plan
      <4> QED BY <3>1, <4>1, <4>2
    <3> QED BY <3>3, <3>4, <3>5
  <2> QED BY <2>2, <2>3 DEF DependenciesInPlace
<1>2. PlanInv /\ [Next]_vars => PlanInv'
  BY PlanInvStep
<1> QED BY <1>1, <1>2, PlanInvInit, PTL DEF Spec

(***************************************************************************)
(* Restarts.                                                               *)
(***************************************************************************)
\* Where a budget stands.
LEMMA BudgetStands ==
    ASSUME Typed, ComparatorsFit, Within, NEW name \in Package, NEW b \in Budgets(name)
    PROVE  /\ IsFiniteSet(Binding(name)) /\ IsFiniteSet(Obeyed(name))
           /\ Cardinality(Obeyed(name)) \in Nat /\ Cardinality(Binding(name)) \in Nat
           /\ Cardinality(Obeyed(name)) <= Cardinality(Binding(name))
           /\ \E k \in 0..Cardinality(Obeyed(name)) :
                 /\ extra[name].n <= b[k]
                 /\ \A r \in Asked(name) : extra[name].n + r.n <= MaxComparators
                 /\ \A r \in Binding(name) : r \notin Obeyed(name) =>
                       /\ k + 1 \in 0..Cardinality(Binding(name))
                       /\ 2 * extra[name].n + r.n <= b[k + 1]
                       /\ b[k + 1] \in Nat /\ b[k + 1] <= MaxComparators
<1> DEFINE all == Binding(name)
           now == Obeyed(name)
           e == extra[name]
<1>1. IsFiniteSet(all) /\ now \in SUBSET all
  BY DEF ComparatorsFit, Obeyed
<1>2. /\ IsFiniteSet(now) /\ Cardinality(now) \in Nat /\ Cardinality(all) \in Nat
      /\ Cardinality(now) <= Cardinality(all)
  BY <1>1, FS_Subset, FS_CardinalityType
<1>3. PICK k \in 0..Cardinality(now) : e.n <= b[k]
  BY DEF Within
<1>4. e.n \in Nat /\ \A r \in Asked(name) : r.n \in Nat
  <2>1. e \in Req
    BY DEF Typed, TypeOK
  <2> QED BY <2>1, AskedType, RequirementType
<1>5. /\ b \in [0..Cardinality(all) -> 0..MaxComparators] /\ MaxComparators \in Nat
      /\ \A i \in 0..(Cardinality(all) - 1) : \A r \in all : 2 * b[i] + r.n <= b[i + 1]
      /\ \A i \in 0..Cardinality(all) : \A r \in Asked(name) : b[i] + r.n <= MaxComparators
  BY ResolverAssumption DEF Budgets
<1>6. all \subseteq Asked(name)
  BY DEF Binding
<1>7. ASSUME NEW r \in all, r \notin now PROVE Cardinality(now) + 1 <= Cardinality(all)
  <2>1. IsFiniteSet(now \cup {r}) /\ Cardinality(now \cup {r}) = Cardinality(now) + 1
    BY <1>2, <1>7, FS_AddElement
  <2>2. now \cup {r} \in SUBSET all
    BY <1>1, <1>7
  <2>3. Cardinality(now \cup {r}) <= Cardinality(all)
    BY <1>1, <2>2, FS_Subset
  <2> QED BY <2>1, <2>3
<1> HIDE DEF all, now, e
<1>8. k \in 0..Cardinality(all) /\ b[k] \in Nat
  BY <1>2, <1>5
<1>9. \A r \in Asked(name) : e.n + r.n <= MaxComparators
  <2>1. ASSUME NEW r \in Asked(name) PROVE e.n + r.n <= MaxComparators
    <3>1. b[k] + r.n <= MaxComparators
      BY <1>5, <1>8
    <3> QED BY <1>3, <1>4, <1>5, <1>8, <3>1
  <2> QED BY <2>1
<1>10. ASSUME NEW r \in all, r \notin now
       PROVE  /\ k + 1 \in 0..Cardinality(all) /\ 2 * e.n + r.n <= b[k + 1]
              /\ b[k + 1] \in Nat /\ b[k + 1] <= MaxComparators
  <2>1. Cardinality(now) + 1 <= Cardinality(all)
    BY <1>7, <1>10
  <2>2. k \in 0..(Cardinality(all) - 1) /\ k + 1 \in 0..Cardinality(all)
    BY <1>2, <2>1
  <2>3. 2 * b[k] + r.n <= b[k + 1] /\ b[k + 1] \in 0..MaxComparators
    BY <1>5, <1>10, <2>2
  <2>4. r.n \in Nat
    BY <1>4, <1>6, <1>10
  <2> QED BY <1>3, <1>4, <1>5, <1>8, <2>2, <2>3, <2>4
<1>11. \E j \in 0..Cardinality(now) :
          /\ e.n <= b[j]
          /\ \A r \in Asked(name) : e.n + r.n <= MaxComparators
          /\ \A r \in all : r \notin now =>
                /\ j + 1 \in 0..Cardinality(all) /\ 2 * e.n + r.n <= b[j + 1]
                /\ b[j + 1] \in Nat /\ b[j + 1] <= MaxComparators
  BY <1>3, <1>9, <1>10
<1> QED BY <1>1, <1>2, <1>11 DEF all, now, e

\* While the budget lasts, a visit asks for what its caller and the restarts
\* ask for together.
LEMMA RequirementsAdd ==
    ASSUME Typed, Exact, Settling, Within, NEW name \in Package, NEW req \in Asked(name),
           NEW v \in Known(name)
    PROVE  v \in Intersect(req, extra[name]).ok <=>
              v \in req.ok /\ (extra[name].n # 0 => v \in extra[name].ok)
<1> DEFINE e == extra[name]
<1>1. e \in Req /\ req \in Req
  BY AskedType DEF Typed, TypeOK
<1>2. v \in Intersect(req, e).ok => v \in req.fits /\ v \in req.ok
  BY TakenMatches DEF Settling
<1>3. e.n + req.n <= MaxComparators
  <2>1. PICK b \in Budgets(name) : TRUE
    BY DEF Settling, ComparatorsFit
  <2> QED BY <2>1, BudgetStands DEF Settling
<1>4. e.n # 0 => Agree(name, req, e)
  BY DEF Exact, Settling
<1> HIDE DEF e
<1>5. e.n \in Nat /\ req.n \in Nat
  BY <1>1, RequirementType
<1>6. CASE e.n = 0
  BY <1>1, <1>6, Intersection DEF e
<1>7. CASE e.n # 0 /\ req.n = 0
  BY <1>1, <1>2, <1>7, Intersection DEF e
<1>8. CASE e.n # 0 /\ req.n # 0
  <2>1. v \in Intersect(req, e).ok => v \in e.fits
    BY <1>3, <1>5, <1>8 DEF Intersect
  <2>2. v \in Intersect(req, e).ok => v \in e.ok
    BY <1>2, <1>4, <1>8, <2>1 DEF Agree
  <2>3. v \in req.ok /\ v \in e.ok => v \in Intersect(req, e).ok
    BY <1>1, Intersection
  <2> QED BY <1>2, <1>8, <2>2, <2>3 DEF e
<1> QED BY <1>6, <1>7, <1>8

\* What a restart learns is one requirement more, within the budget.
LEMMA Learned ==
    ASSUME Typed, Exact, Settling, Within, NEW name \in Package,
           NEW req \in Binding(name), req \notin Obeyed(name), req.n # 0,
           NEW new, new = (IF extra[name].n = 0 THEN Intersect(req, extra[name])
                           ELSE Intersect(extra[name], Intersect(req, extra[name])))
    PROVE  /\ new.n # 0
           /\ \A v \in Known(name) :
                 v \in new.ok <=> v \in req.ok /\ (extra[name].n # 0 => v \in extra[name].ok)
           /\ \A b \in Budgets(name) :
                 \E k \in 0..(Cardinality(Obeyed(name)) + 1) : new.n <= b[k]
<1> DEFINE e == extra[name]
           eff == Intersect(req, e)
<1>1. e \in Req /\ req \in Req /\ req \in Asked(name)
  BY AskedType DEF Typed, TypeOK, Binding
<1>2. e.n \in Nat /\ req.n \in Nat /\ MaxComparators \in Nat
  BY <1>1, RequirementType, ResolverAssumption
<1>3. new = IF e.n = 0 THEN eff ELSE Intersect(e, eff)
  OBVIOUS
<1>4. \A v \in Known(name) : v \in eff.ok <=> v \in req.ok /\ (e.n # 0 => v \in e.ok)
  BY <1>1, RequirementsAdd
<1>5. \A b \in Budgets(name) : \E k \in 0..Cardinality(Obeyed(name)) :
         /\ e.n + req.n <= MaxComparators /\ 2 * e.n + req.n <= b[k + 1]
         /\ b[k + 1] \in Nat /\ b[k + 1] <= MaxComparators
         /\ k + 1 \in 0..(Cardinality(Obeyed(name)) + 1)
  <2>1. ASSUME NEW b \in Budgets(name)
        PROVE  \E k \in 0..Cardinality(Obeyed(name)) :
                  /\ e.n + req.n <= MaxComparators /\ 2 * e.n + req.n <= b[k + 1]
                  /\ b[k + 1] \in Nat /\ b[k + 1] <= MaxComparators
                  /\ k + 1 \in 0..(Cardinality(Obeyed(name)) + 1)
    <3>1. PICK k \in 0..Cardinality(Obeyed(name)) :
             /\ e.n + req.n <= MaxComparators /\ 2 * e.n + req.n <= b[k + 1]
             /\ b[k + 1] \in Nat /\ b[k + 1] <= MaxComparators
      BY <1>1, BudgetStands DEF Settling
    <3>2. Cardinality(Obeyed(name)) \in Nat
      BY BudgetStands DEF Settling
    <3>3. k + 1 \in 0..(Cardinality(Obeyed(name)) + 1)
      BY <3>2
    <3> QED BY <3>1, <3>3
  <2> QED BY <2>1
<1>6. PICK b0 \in Budgets(name) : TRUE
  BY DEF Settling, ComparatorsFit
<1>7. e.n # 0 => Agree(name, req, e)
  BY <1>1 DEF Exact, Settling
<1> HIDE DEF e, eff
<1>8. CASE e.n = 0
  <2>1. new = req
    BY <1>1, <1>3, <1>8, Intersection DEF eff
  <2> QED BY <1>2, <1>5, <1>8, <2>1 DEF e
<1>9. CASE e.n # 0
  <2>1. e.n + req.n <= MaxComparators /\ 2 * e.n + req.n <= MaxComparators
    BY <1>2, <1>5, <1>6
  <2>2. eff.fits = req.fits \cap e.fits /\ eff.n = req.n + e.n
    BY <1>2, <1>9, <2>1 DEF eff, Intersect
  <2>3. eff.n # 0 /\ e.n + eff.n = 2 * e.n + req.n
    BY <1>2, <1>9, <2>2
  <2> DEFINE both == e.fits \cap eff.fits
             ok == both \ (Prerelease \ (e.ok \cup eff.ok))
  <2>4. new = [fits |-> both, ok |-> ok, n |-> e.n + eff.n]
    BY <1>3, <1>9, <2>1, <2>3 DEF Intersect
  <2>5. ASSUME NEW v \in Known(name) PROVE v \in ok <=> v \in req.ok /\ v \in e.ok
    <3>1. v \in both <=> v \in e.fits /\ v \in req.fits
      BY <2>2
    <3>2. v \in req.ok => v \in req.fits
      BY <1>1, RequirementType
    <3>3. v \in e.ok => v \in e.fits
      BY <1>1, RequirementType
    <3>4. v \in both /\ v \notin Prerelease => v \in req.ok /\ v \in e.ok
      BY <1>1, <3>1, RequirementType
    <3>5. v \in both => (v \in req.ok <=> v \in e.ok)
      BY <1>7, <1>9, <3>1 DEF Agree
    <3>6. v \in eff.ok <=> v \in req.ok /\ v \in e.ok
      BY <1>4, <1>9
    <3> HIDE DEF both
    <3> QED BY <3>1, <3>2, <3>3, <3>4, <3>5, <3>6
  <2> HIDE DEF both, ok
  <2>6. new.n # 0 /\ new.ok = ok /\ new.n = 2 * e.n + req.n
    BY <1>2, <1>9, <2>3, <2>4
  <2> QED BY <1>5, <1>9, <2>5, <2>6 DEF e
<1> QED BY <1>8, <1>9

\* A restart excludes the candidate it was for, for a requirement that had not
\* caused one, and stays within the budget.
LEMMA RestartNarrows ==
    ASSUME NarrowInv, Settling, UNCHANGED <<world, rootReq>>,
           NEW name \in Package, NEW req \in Asked(name),
           Restarts(name, Intersect(req, extra[name]))
    PROVE  /\ Candidates(name)' \subseteq Candidates(name) /\ Candidates(name)' # Candidates(name)
           /\ \A q \in Package \ {name} : extra'[q] = extra[q]
           /\ \A q \in Package : Obeyed(q) \subseteq Obeyed(q)'
           /\ req \in Obeyed(name)' /\ req \notin Obeyed(name)
           /\ Within'
<1> DEFINE x == resolved[name]
           new == extra'[name]
<1> USE DEF NarrowInv
<1>1. Typed /\ Exact /\ TagsAgree /\ ComparatorsFit /\ PicksAgree /\ Within
  BY DEF Settling
<1>2. x \in Candidates(name) /\ x \notin Intersect(req, extra[name]).ok
      /\ \E r \in Asked(name) : x \in r.ok
  BY <1>1 DEF Restarts, PicksAgree, Picked, Plan
<1>3. x \in Known(name) /\ x \in world.avail[name] /\ (extra[name].n # 0 => x \in extra[name].ok)
  <2>1. world.avail[name] \subseteq Version
    BY <1>1, WorldType
  <2> QED BY <1>2, <2>1 DEF Candidates, Known, Version
<1>4. x \notin req.ok
  BY <1>1, <1>2, <1>3, RequirementsAdd
<1>5. req \in Binding(name) /\ req \notin Obeyed(name)
  BY <1>2, <1>3, <1>4 DEF Binding, Obeyed
<1>6. req.n # 0
  <2>1. req \in Req /\ x \in Version
    BY <1>1, <1>3, AskedType, WorldType
  <2>2. req.n = 0 => x \in req.fits
    BY <2>1, RequirementType, AnyIsRequirement
  <2>3. x \in req.fits => x \in req.ok
    BY <1>1, <1>2, <1>3 DEF TagsAgree
  <2> QED BY <1>4, <2>2, <2>3
<1>7. /\ extra \in [Package -> Req]
      /\ extra' = [extra EXCEPT ![name] =
                     IF extra[name].n = 0 THEN Intersect(req, extra[name])
                     ELSE Intersect(extra[name], Intersect(req, extra[name]))]
  BY DEF Restarts, Narrow, Typed, TypeOK
<1>8. \A q \in Package \ {name} : extra'[q] = extra[q]
  BY <1>7
<1>9. new = IF extra[name].n = 0 THEN Intersect(req, extra[name])
            ELSE Intersect(extra[name], Intersect(req, extra[name]))
  BY <1>7
<1> HIDE DEF x, new
<1>10. /\ new.n # 0
       /\ \A v \in Known(name) :
             v \in new.ok <=> v \in req.ok /\ (extra[name].n # 0 => v \in extra[name].ok)
       /\ \A b \in Budgets(name) :
             \E k \in 0..(Cardinality(Obeyed(name)) + 1) : new.n <= b[k]
  BY <1>1, <1>5, <1>6, <1>9, Learned
<1>11. \A v \in world.avail[name] : v \in Known(name)
  <2>1. world.avail[name] \subseteq Version
    BY <1>1, WorldType
  <2> QED BY <2>1 DEF Known, Version
<1>12. Candidates(name)' = {v \in world.avail[name] : v \in new.ok}
  BY <1>10 DEF Candidates, new
<1>13. \A v : v \in Candidates(name)' <=> v \in Candidates(name) /\ v \in req.ok
  BY <1>10, <1>11, <1>12 DEF Candidates
<1>14. Candidates(name)' \subseteq Candidates(name) /\ Candidates(name)' # Candidates(name)
  BY <1>2, <1>4, <1>13
<1>15. \A q : Binding(q)' = Binding(q) /\ Budgets(q)' = Budgets(q)
  BY AskedKept
<1>16. \A q \in Package \ {name} : Candidates(q)' = Candidates(q)
  BY <1>8 DEF Candidates
<1>17. \A q \in Package : Candidates(q)' \subseteq Candidates(q)
  BY <1>14, <1>16
<1>18. \A q \in Package : Obeyed(q) \subseteq Obeyed(q)'
  BY <1>15, <1>17 DEF Obeyed
<1>19. req \in Obeyed(name)'
  BY <1>5, <1>13, <1>15 DEF Obeyed
<1>20. Within'
  <2>1. ASSUME NEW q \in Package, NEW b \in Budgets(q)
        PROVE  \E k \in 0..Cardinality(Obeyed(q)') : extra'[q].n <= b[k]
    <3> DEFINE now == Obeyed(q)
               later == Obeyed(q)'
    <3>1. IsFiniteSet(now) /\ Cardinality(now) \in Nat /\ IsFiniteSet(Binding(q))
      BY <1>1, BudgetStands
    <3>2. later \subseteq Binding(q) /\ now \subseteq later
      BY <1>15, <1>18 DEF Obeyed
    <3> HIDE DEF now, later
    <3>3. IsFiniteSet(later) /\ Cardinality(later) \in Nat /\ Cardinality(now) <= Cardinality(later)
      BY <3>1, <3>2, FS_Subset, FS_CardinalityType
    <3>4. CASE q # name
      <4>1. PICK k \in 0..Cardinality(now) : extra[q].n <= b[k]
        BY <1>1 DEF Within, now
      <4>2. k \in 0..Cardinality(later)
        BY <3>1, <3>3
      <4> QED BY <1>8, <3>4, <4>1, <4>2 DEF later
    <3>5. CASE q = name
      <4>1. PICK k \in 0..(Cardinality(now) + 1) : new.n <= b[k]
        BY <1>10, <3>5 DEF now
      <4>2. Cardinality(now \cup {req}) = Cardinality(now) + 1
        BY <1>5, <3>1, <3>5, FS_AddElement DEF now
      <4>3. now \cup {req} \in SUBSET later
        BY <1>19, <3>2, <3>5 DEF later
      <4>4. Cardinality(now \cup {req}) <= Cardinality(later)
        BY <3>3, <4>3, FS_Subset
      <4>5. k \in 0..Cardinality(later)
        BY <3>1, <3>3, <4>2, <4>4
      <4> QED BY <3>5, <4>1, <4>5 DEF later, new
    <3> QED BY <3>4, <3>5
  <2> QED BY <1>15, <2>1 DEF Within
<1> QED BY <1>5, <1>8, <1>14, <1>18, <1>19, <1>20

\* Where nothing is learned, what was picked and the budget stand.
LEMMA PickedKept ==
    ASSUME UNCHANGED <<world, rootReq, extra>>
    PROVE  \A p, v : Picked(p, v)' = Picked(p, v)
<1>1. \A p : Asked(p)' = Asked(p) /\ Candidates(p)' = Candidates(p)
  BY AskedKept DEF Candidates
<1> QED BY <1>1 DEF Picked

LEMMA WithinKept ==
    ASSUME UNCHANGED <<world, rootReq, extra>>, Within
    PROVE  Within'
<1>1. \A p : Binding(p)' = Binding(p) /\ Budgets(p)' = Budgets(p) /\ Candidates(p)' = Candidates(p)
  BY AskedKept DEF Candidates
<1>2. \A p : Obeyed(p)' = Obeyed(p)
  BY <1>1 DEF Obeyed
<1> QED BY <1>1, <1>2 DEF Within

LEMMA PicksKept ==
    ASSUME UNCHANGED <<world, rootReq, extra, resolved>>, PicksAgree, Within,
           stack' = stack \/ \A i \in Calls' : \E j \in Calls :
              stack'[i].name = stack[j].name /\ stack'[i].version = stack[j].version
    PROVE  (PicksAgree /\ Within)'
<1>1. \A p, v : Picked(p, v)' = Picked(p, v)
  BY PickedKept
<1>2. \A i \in Calls' : \E j \in Calls :
         stack'[i].name = stack[j].name /\ stack'[i].version = stack[j].version
  BY DEF Calls
<1>3. PicksAgree'
  BY <1>1, <1>2 DEF PicksAgree, Plan
<1> QED BY <1>3, WithinKept

\* How a visit changes what was picked and learned.
LEMMA VisitNarrows ==
    ASSUME NarrowInv, Settling, UNCHANGED <<world, rootReq>>, pc \in {"start", "visit"},
           NEW name \in Package, NEW req \in Asked(name),
           NEW rest \in Seq(Frame),
           \A i \in 1..Len(rest) : /\ i \in Calls /\ rest[i].name = stack[i].name
                                   /\ rest[i].version = stack[i].version,
           Visits(name, Intersect(req, extra[name]), rest)
    PROVE  /\ (PicksAgree /\ Within)'
           /\ restarts' # restarts => Restarts(name, Intersect(req, extra[name]))
<1>1. Typed /\ Exact /\ PicksAgree /\ Within
  BY DEF NarrowInv
<1>2. CASE Fails
  <2>1. PICK e \in Outcomes : Fail(e)
    BY <1>2 DEF Fails
  <2>2. UNCHANGED <<stack, resolved, extra, restarts>>
    BY <2>1 DEF Fail
  <2> QED BY <1>1, <2>2, PicksKept
<1>3. CASE Restarts(name, Intersect(req, extra[name]))
  <2>1. stack' = <<>> /\ resolved' = NothingResolved
    BY <1>3 DEF Restarts, Narrow
  <2>2. PicksAgree'
    BY <2>1, EmptySeq DEF PicksAgree, Plan, Calls, NothingResolved
  <2> QED BY <1>3, <2>2, RestartNarrows
<1>4. CASE Reuses(name, Intersect(req, extra[name]), rest)
  <2>1. stack' = rest /\ UNCHANGED <<resolved, extra, restarts>>
    BY <1>4 DEF Reuses, Continue
  <2>2. \A i \in Calls' : \E j \in Calls : stack'[i].name = stack[j].name /\ stack'[i].version = stack[j].version
    BY <2>1 DEF Calls
  <2> QED BY <1>1, <2>1, <2>2, PicksKept
<1>5. CASE Opens(name, Intersect(req, extra[name]), rest)
  <2>1. PICK u \in world.avail[name] \cap Intersect(req, extra[name]).ok :
           Continue(Append(rest, [name |-> name, version |-> u, next |-> 1]))
    BY <1>5 DEF Opens
  <2>2. u \in Version /\ [name |-> name, version |-> u, next |-> 1] \in Frame
    BY <1>1, WorldType DEF Frame
  <2>3. /\ stack' = Append(rest, [name |-> name, version |-> u, next |-> 1])
        /\ UNCHANGED <<resolved, extra, restarts>>
    BY <2>1 DEF Continue
  <2>4. Picked(name, u)
    <3>1. u \in Known(name)
      BY <2>1, <2>2 DEF Known, Version
    <3>2. u \in req.ok /\ (extra[name].n # 0 => u \in extra[name].ok)
      BY <1>1, <2>1, <3>1, RequirementsAdd
    <3> QED BY <2>1, <3>2 DEF Picked, Candidates
  <2>5. /\ Len(rest) \in Nat /\ Calls' = 1..(Len(rest) + 1)
        /\ stack'[Len(rest) + 1] = [name |-> name, version |-> u, next |-> 1]
        /\ \A i \in 1..Len(rest) : stack'[i] = rest[i]
    BY <2>2, <2>3, PushCall, LenProperties DEF Calls
  <2>6. \A p, v : Picked(p, v)' = Picked(p, v)
    BY <2>3, PickedKept
  <2>7. ASSUME NEW i \in Calls' PROVE Picked(stack'[i].name, stack'[i].version)
    <3>1. CASE i = Len(rest) + 1
      BY <2>4, <2>5, <3>1
    <3>2. CASE i \in 1..Len(rest)
      BY <1>1, <2>5, <3>2 DEF PicksAgree
    <3> QED BY <2>5, <3>1, <3>2
  <2>8. PicksAgree'
    BY <1>1, <2>3, <2>6, <2>7 DEF PicksAgree, Plan
  <2> QED BY <1>1, <2>3, <2>8, WithinKept
<1> QED BY <1>2, <1>3, <1>4, <1>5 DEF Visits

LEMMA NarrowInvInit ==
    ASSUME Init
    PROVE  NarrowInv
<1>1. PicksAgree
  BY EmptySeq DEF Init, PicksAgree, Plan, Calls, NothingResolved
<1>2. ComparatorsFit => Within
  <2>1. ASSUME ComparatorsFit, NEW p \in Package, NEW b \in Budgets(p)
        PROVE  \E k \in 0..Cardinality(Obeyed(p)) : extra[p].n <= b[k]
    <3>1. extra[p].n = 0
      BY AnyIsRequirement DEF Init, NoReq
    <3>2. Cardinality(Obeyed(p)) \in Nat /\ Cardinality(Binding(p)) \in Nat
      <4>1. IsFiniteSet(Binding(p)) /\ Obeyed(p) \in SUBSET Binding(p)
        BY <2>1 DEF ComparatorsFit, Obeyed
      <4> QED BY <4>1, FS_Subset, FS_CardinalityType
    <3>3. b[0] \in Nat
      BY <3>2, ResolverAssumption DEF Budgets
    <3>4. 0 \in 0..Cardinality(Obeyed(p)) /\ 0 <= b[0]
      BY <3>2, <3>3
    <3> QED BY <3>1, <3>4
  <2> QED BY <2>1 DEF Within
<1> QED BY <1>1, <1>2, TypedInit, ExactInit DEF NarrowInv, Settling

\* The invariant, and what a step that restarts does.
LEMMA NarrowInvStep ==
    ASSUME NarrowInv, [Next]_vars
    PROVE  /\ NarrowInv'
           /\ Settling /\ restarts' # restarts => Narrower
<1>1. Typed' /\ Exact' /\ Typed /\ Exact
  BY TypedStep, ExactStep DEF NarrowInv
<1>2. UNCHANGED <<world, rootReq>>
  BY WorldKept
<1>3. Settling' = Settling
  BY <1>2, AskedKept DEF Settling
<1>4. SUFFICES ASSUME Settling
               PROVE  (PicksAgree /\ Within)' /\ (restarts' # restarts => Narrower)
  BY <1>1, <1>3 DEF NarrowInv
<1>5. PicksAgree /\ Within
  BY <1>4 DEF NarrowInv
<1>6. ASSUME NEW p \in Package, NEW req \in Asked(p), Restarts(p, Intersect(req, extra[p]))
      PROVE  Narrower
  BY <1>2, <1>4, <1>6, RestartNarrows DEF Narrower
<1>7. CASE StartAttempt
  <2>1. pc = "start" /\ stack = <<>> /\ Root \in Package
    BY <1>1, <1>7, RootNew DEF StartAttempt, Typed, TypeOK
  <2>2. rootReq \in Asked(Root) /\ <<>> \in Seq(Frame) /\ 1..Len(<<>>) = {}
    BY <2>1, EmptySeq, RootAsked
  <2>3. Visits(Root, Intersect(rootReq, extra[Root]), <<>>)
    BY <1>1, <1>7, StartVisits
  <2> QED BY <1>2, <1>4, <1>6, <2>1, <2>2, <2>3, VisitNarrows
<1>8. CASE NextDep
  <2>1. pc = "visit"
    BY <1>8 DEF NextDep
  <2>2. CASE Fails
    <3>1. PICK e \in Outcomes : Fail(e)
      BY <2>2 DEF Fails
    <3>2. UNCHANGED <<stack, resolved, extra, restarts>>
      BY <3>1 DEF Fail
    <3> QED BY <1>1, <1>2, <1>5, <3>2, PicksKept
  <2>3. ASSUME NEW name \in Package, NEW req \in Req, Reached(name, req),
               Visits(name, Intersect(req, extra[name]), Advanced)
        PROVE  (PicksAgree /\ Within)' /\ (restarts' # restarts => Narrower)
    <3>1. req \in Asked(name)
      BY <1>1, <1>8, <2>3, ReachedAsked
    <3>2. /\ Advanced \in Seq(Frame)
          /\ \A i \in 1..Len(Advanced) : /\ i \in Calls /\ Advanced[i].name = stack[i].name
                                         /\ Advanced[i].version = stack[i].version
      BY <1>1, <2>1, TopType DEF Calls
    <3>3. /\ (PicksAgree /\ Within)'
          /\ restarts' # restarts => Restarts(name, Intersect(req, extra[name]))
      BY <1>2, <1>4, <2>1, <2>3, <3>1, <3>2, VisitNarrows
    <3> QED BY <1>6, <3>1, <3>3
  <2> QED BY <1>1, <1>8, <2>2, <2>3, DependencyVisited
<1>9. CASE VisitReturns
  <2>1. pc = "visit" /\ UNCHANGED <<extra, restarts>>
        /\ resolved' = [resolved EXCEPT ![Top.name] = Top.version]
    BY <1>9 DEF VisitReturns
  <2>2. /\ Len(stack) \in Calls /\ Top = stack[Len(stack)] /\ Top.name \in Package
        /\ \A i \in Calls' : i \in Calls /\ stack'[i] = stack[i]
    <3>1. Len(stack) \in Nat \ {0} /\ Len(stack) \in Calls /\ Top \in Frame
      BY <1>1, <2>1, TopType
    <3>2. /\ Len(stack') = Len(stack) - 1
          /\ \A i \in 1..(Len(stack) - 1) : stack'[i] = stack[i]
      BY <1>1, <1>9, PopCall
    <3>3. Calls' = 1..(Len(stack) - 1) /\ Calls = 1..Len(stack)
      BY <3>2 DEF Calls
    <3> QED BY <3>1, <3>2, <3>3 DEF Top, Frame
  <2>3. \A p \in Plan' : Picked(p, resolved'[p])
    <3>1. resolved \in [Package -> 0..MaxVersion] /\ Picked(Top.name, Top.version)
      BY <1>1, <1>5, <2>2 DEF Typed, TypeOK, PicksAgree
    <3> QED BY <1>5, <2>1, <2>2, <3>1 DEF PicksAgree, Plan
  <2>4. \A p, v : Picked(p, v)' = Picked(p, v)
    BY <1>2, <2>1, PickedKept
  <2>5. PicksAgree'
    BY <1>5, <2>2, <2>3, <2>4 DEF PicksAgree
  <2> QED BY <1>2, <1>5, <2>1, <2>5, WithinKept
<1>10. CASE Order \/ UNCHANGED vars
  <2>1. UNCHANGED <<stack, resolved, extra, restarts>>
    BY <1>10 DEF Order, vars
  <2> QED BY <1>1, <1>2, <1>5, <2>1, PicksKept
<1> QED BY <1>7, <1>8, <1>9, <1>10 DEF Next

\* Each restart strictly narrows the candidates of one package and teaches
\* nothing about the others, where the requirements agree about pre-releases:
\* while the comparators that restarts pile up fit the parser.
THEOREM EachRestartNarrows == Spec /\ ComparatorsFit => RestartsNarrow
<1>1. ComparatorsFit /\ [Next]_vars => ComparatorsFit'
  BY WorldKept, AskedKept
<1>2. NarrowInv /\ [Next]_vars => NarrowInv'
  BY NarrowInvStep
<1>3. NarrowInv /\ ComparatorsFit /\ [Next]_vars =>
         [restarts' # restarts /\ TagsAgree => Narrower]_vars
  BY NarrowInvStep DEF Settling
<1>4. Init => NarrowInv
  BY NarrowInvInit
<1> QED BY <1>1, <1>2, <1>3, <1>4, PTL DEF Spec, RestartsNarrow

(***************************************************************************)
(* Solutions.                                                              *)
(***************************************************************************)
LEMMA GoodKept ==
    ASSUME UNCHANGED <<world, rootReq>>, NEW sel, Good(sel)'
    PROVE  Good(sel)
<1>1. PlainWorld
  <2>1. world' = world /\ PlainWorld'
    BY DEF Good
  <2>2. ASSUME NEW p, NEW q, NeedsOf(p, q) PROVE NeedsOf(p, q)'
    BY <2>1, <2>2 DEF NeedsOf
  <2>3. ~\E S \in SUBSET Package : S # {} /\ \A p \in S : \E q \in S : NeedsOf(p, q)
    BY <2>1, <2>2 DEF PlainWorld
  <2> QED BY <2>1, <2>3 DEF PlainWorld
<1>2. OnlyRangesToSettle
  <2>1. world' = world /\ OnlyRangesToSettle'
    BY DEF Good
  <2> DEFINE Names(p, q) == \E v \in world.avail[p] : \E i \in 1..Len(world.deps[p][v]) :
                               world.deps[p][v][i].name = q
  <2>2. \A p \in Package, v \in Version : world.conflicts[p][v] = {}
    BY <2>1 DEF OnlyRangesToSettle
  <2>3. \A p \in Package : Cardinality(world.avail[p]) > 1 =>
           \A v \in world.avail[p] : world.deps[p][v] = <<>>
    BY <2>1 DEF OnlyRangesToSettle
  <2>4. ~\E S \in SUBSET Package : S # {} /\ \A p \in S : \E q \in S : Names(p, q)
    <3>1. ~\E S \in SUBSET Package : S # {} /\ \A p \in S : \E q \in S : Names(p, q)'
      BY <2>1 DEF OnlyRangesToSettle
    <3>2. ASSUME NEW p, NEW q, Names(p, q) PROVE Names(p, q)'
      BY <2>1, <3>2
    <3> HIDE DEF Names
    <3> QED BY <3>1, <3>2
  <2> QED BY <2>2, <2>3, <2>4 DEF OnlyRangesToSettle
<1>3. Solution(sel)
  BY DEF Good, Solution, Present, Meets
<1> QED BY <1>1, <1>2, <1>3 DEF Good

LEMMA NeedsKept ==
    ASSUME UNCHANGED world,
           \A i \in Calls' : i + 1 \in Calls' => NeedsOf(stack'[i].name, stack'[i + 1].name)
    PROVE  (\A i \in Calls : i + 1 \in Calls => NeedsOf(stack[i].name, stack[i + 1].name))'
BY DEF NeedsOf

\* What a solution chooses of one package.
LEMMA SolutionType ==
    ASSUME Typed, NEW sel \in [Package -> 0..MaxVersion], Good(sel), NEW p \in Package
    PROVE  /\ world.installed[p] # 0 => sel[p] = world.installed[p]
           /\ sel[p] # 0 => sel[p] \in world.avail[p] /\ sel[p] \in Version
           /\ sel[p] # 0 /\ world.installed[p] = 0 =>
                 \A i \in 1..Len(world.deps[p][sel[p]]) :
                    \E q \in Package : Meets(sel, q, world.deps[p][sel[p]][i])
<1>1. Solution(sel) /\ world.installed[p] \in world.avail[p] \cup {0}
  BY DEF Good, PlainWorld
<1>2. world.avail[p] \subseteq Version
  BY WorldType
<1>3. p \in Present <=> world.installed[p] # 0
  BY DEF Present
<1> QED BY <1>1, <1>2, <1>3 DEF Solution

\* What has dependencies has one version.
LEMMA OneVersion ==
    ASSUME Typed, OnlyRangesToSettle, NEW p \in Package,
           NEW u \in world.avail[p], NEW v \in world.avail[p], Len(world.deps[p][v]) # 0
    PROVE  u = v
<1> SUFFICES ASSUME u # v PROVE FALSE
  OBVIOUS
<1>1. world.avail[p] \subseteq Version /\ IsFiniteSet(Version)
  BY WorldType, FS_Interval, WorldAssumption DEF Version
<1>2. IsFiniteSet(world.avail[p]) /\ Cardinality(world.avail[p]) \in Nat
  BY <1>1, FS_Subset, FS_CardinalityType
<1>3. IsFiniteSet({u}) /\ Cardinality({u}) = 1
  BY FS_Singleton
<1> DEFINE one == {u}
           two == one \cup {v}
<1>4. Cardinality(two) = Cardinality(one) + 1 /\ Cardinality(one) = 1
  <2>1. v \notin one /\ IsFiniteSet(one) /\ Cardinality(one) = 1
    BY <1>3
  <2> HIDE DEF one
  <2> QED BY <2>1, FS_AddElement
<1>5. two \in SUBSET world.avail[p]
  OBVIOUS
<1> HIDE DEF one, two
<1>6. Cardinality(two) <= Cardinality(world.avail[p])
  BY <1>2, <1>5, FS_Subset
<1>7. Cardinality(world.avail[p]) > 1
  BY <1>2, <1>4, <1>6
<1>8. world.deps[p][v] = <<>>
  BY <1>7 DEF OnlyRangesToSettle
<1> QED BY <1>8, EmptySeq

\* What a solution meets a dependency with is what the visit reaches for it.
LEMMA DependencyLeads ==
    ASSUME Typed, CallsNew, NEW sel \in [Package -> 0..MaxVersion], Good(sel), LeadsTo(sel), NextDep
    PROVE  \E name \in Package, req \in Req :
              /\ Reached(name, req) /\ Visit(name, req, Advanced)
              /\ sel[name] \in req.ok /\ sel[name] # 0 /\ NeedsOf(Top.name, name)
<1> DEFINE p == Top.name
           v == Top.version
           i == Top.next
           dep == world.deps[p][v][i]
<1>1. pc = "visit" /\ i <= Len(world.deps[p][v])
  BY DEF NextDep
<1>2. /\ p \in Package /\ v \in Version /\ i \in Nat \ {0}
      /\ Len(stack) \in Calls /\ Top = stack[Len(stack)]
  BY <1>1, TopType DEF Frame, Top
<1>3. world.deps[p][v] \in Seq(Dependency) /\ Len(world.deps[p][v]) \in Nat
  BY <1>2, WorldType, LenProperties
<1>4. i \in 1..Len(world.deps[p][v]) /\ dep \in Dependency /\ Len(world.deps[p][v]) # 0
  BY <1>1, <1>2, <1>3
<1>5. sel[p] # 0 /\ v \in world.avail[p] /\ world.installed[p] = 0
  BY <1>2 DEF LeadsTo, CallsNew, Settled
<1>6. \/ Matching(dep.name, dep.req) # {} /\ Visit(dep.name, dep.req, Advanced)
      \/ /\ Matching(dep.name, dep.req) = {}
         /\ \/ \E x \in Providers(dep.name) : Visit(x, Any, Advanced)
            \/ Providers(dep.name) = {}
  BY DEF NextDep, Advanced
<1>7. /\ \A name, req : \/ name = dep.name /\ req = dep.req /\ Matching(name, req) # {}
                        \/ name \in Providers(dep.name) /\ req = Any
                        => Reached(name, req)
      /\ \A q : dep.name = q \/ (\E u \in world.avail[q] : dep.name \in world.provides[q][u])
                => NeedsOf(p, q)
  BY <1>4, <1>5 DEF Reached, NeedsOf
<1> HIDE DEF p, v, i
<1>8. sel[p] = v
  BY <1>2, <1>4, <1>5, SolutionType, OneVersion DEF Good
<1>9. PICK q \in Package : Meets(sel, q, dep)
  BY <1>2, <1>4, <1>5, <1>8, SolutionType
<1> HIDE DEF dep
<1>10. dep.req \in Req
  BY <1>4 DEF Dependency
<1>11. CASE q = dep.name /\ sel[q] \in dep.req.ok
  <2>1. sel[q] # 0
    BY <1>10, <1>11, RequirementType DEF Version
  <2>2. Matching(dep.name, dep.req) # {}
    BY <1>11, <2>1, SolutionType DEF Matching
  <2> QED BY <1>6, <1>7, <1>10, <1>11, <2>1, <2>2 DEF p
<1>12. CASE sel[q] \in Any.ok /\ dep.name \in world.provides[q][sel[q]]
  <2>1. sel[q] # 0 /\ sel[q] \in world.avail[q] /\ sel[q] \in Version
    <3>1. sel[q] \in Version /\ sel[q] # 0
      BY <1>12, AnyIsRequirement, RequirementType DEF Version
    <3> QED BY <3>1, SolutionType
  <2>2. dep.name \notin Package
    BY <1>12, <2>1 DEF Good, PlainWorld
  <2>3. Matching(dep.name, dep.req) = {}
    BY <2>2 DEF Matching
  <2>4. \A x \in Providing(dep.name) : x[1] = q /\ x[2] \in Version
    BY <1>12, <2>1 DEF Providing, Good, PlainWorld
  <2>5. <<q, sel[q]>> \in Providing(dep.name)
    BY <1>12, <2>1 DEF Providing
  <2>6. \A x \in Providers(dep.name) : x = q
    BY <2>4 DEF Providers
  <2>7. Providers(dep.name) # {}
    <3> DEFINE V == {x[2] : x \in Providing(dep.name)}
    <3>1. V \in SUBSET (1..MaxVersion) /\ V # {}
      BY <2>4, <2>5 DEF Version
    <3>2. PICK m \in V : \A u \in V : u <= m
      <4> HIDE DEF V
      <4> QED BY <3>1, GreatestExists, WorldAssumption
    <3>3. PICK x \in Providing(dep.name) : x[2] = m
      OBVIOUS
    <3>4. \A y \in Providing(dep.name) : y[2] <= x[2]
      BY <3>2, <3>3
    <3> QED BY <3>4 DEF Providers
  <2>8. q \in Providers(dep.name) /\ Visit(q, Any, Advanced)
    BY <1>6, <2>3, <2>6, <2>7
  <2>9. NeedsOf(p, q)
    BY <1>7, <1>12, <2>1
  <2> QED BY <1>7, <1>12, <2>1, <2>8, <2>9, AnyIsRequirement DEF p
<1> QED BY <1>9, <1>11, <1>12 DEF Meets

\* A visit for what a solution chooses does not fail.
LEMMA VisitLeads ==
    ASSUME Typed, CallsNew,
           NEW sel \in [Package -> 0..MaxVersion], Good(sel), LeadsTo(sel),
           NEW name \in Package, NEW req \in Req,
           sel[name] \in req.ok, sel[name] # 0,
           stack = <<>> \/ (pc = "visit" /\ NeedsOf(Top.name, name)),
           NEW rest, Visit(name, req, rest)
    PROVE  LET eff == Intersect(req, extra[name])
           IN  /\ sel[name] \in eff.ok
               /\ Restarts(name, eff) \/ Reuses(name, eff, rest) \/ Opens(name, eff, rest)
<1> DEFINE eff == Intersect(req, extra[name])
<1>1. extra[name] \in Req /\ eff \in Req
  <2>1. extra[name] \in Req
    BY DEF Typed, TypeOK
  <2> QED BY <2>1, Intersection
<1>2. sel[name] \in world.avail[name] /\ sel[name] \in Version
  BY SolutionType
<1>3. sel[name] \in eff.ok
  <2>1. extra[name].n # 0 => sel[name] \in extra[name].ok
    BY DEF LeadsTo
  <2>2. extra[name].n = 0 => eff = req
    BY <1>1, Intersection
  <2>3. req.ok \cap extra[name].ok \subseteq eff.ok
    BY <1>1, Intersection
  <2> QED BY <2>1, <2>2, <2>3
<1>4. Matching(name, eff) = world.avail[name] \cap eff.ok
  BY DEF Matching
<1>5. name \notin Visiting
  <2>1. CASE stack = <<>>
    BY <2>1, EmptySeq DEF Visiting
  <2>2. CASE pc = "visit" /\ NeedsOf(Top.name, name)
    <3> SUFFICES ASSUME name \in Visiting PROVE FALSE
      OBVIOUS
    <3>1. PICK j \in Calls : name = stack[j].name
      BY DEF Visiting, Calls
    <3>2. Len(stack) \in Nat \ {0} /\ Calls = 1..Len(stack) /\ Top = stack[Len(stack)]
      BY <2>2, TopType DEF Calls, Top
    <3> DEFINE S == {stack[i].name : i \in j..Len(stack)}
    <3>3. S \in SUBSET Package /\ name \in S
      BY <3>1, <3>2, CallsFacts
    <3>4. ASSUME NEW p \in S PROVE \E q \in S : NeedsOf(p, q)
      <4>1. PICK i \in j..Len(stack) : p = stack[i].name
        OBVIOUS
      <4>2. CASE i = Len(stack)
        BY <2>2, <3>2, <3>3, <4>1, <4>2
      <4>3. CASE i # Len(stack)
        <5>1. i \in Calls /\ i + 1 \in Calls /\ i + 1 \in j..Len(stack)
          BY <3>1, <3>2, <4>1, <4>3
        <5>2. stack[i + 1].name \in S
          BY <5>1
        <5>3. NeedsOf(stack[i].name, stack[i + 1].name)
          BY <5>1 DEF LeadsTo
        <5> QED BY <4>1, <5>2, <5>3
      <4> QED BY <4>2, <4>3
    <3> HIDE DEF S
    <3> QED BY <3>3, <3>4 DEF Good, PlainWorld
  <2> QED BY <2>1, <2>2
<1>6. eff.ok \subseteq Version
  <2> HIDE DEF eff
  <2> QED BY <1>1, RequirementType
<1> HIDE DEF eff
<1>7. \/ resolved[name] \in eff.ok /\ Continue(rest)
      \/ resolved[name] \notin eff.ok \cup {0} /\ Narrow(name, eff)
      \/ /\ resolved[name] = 0
         /\ \/ world.installed[name] \in eff.ok /\ Continue(rest)
            \/ world.installed[name] \notin eff.ok \cup {0}
            \/ /\ world.installed[name] = 0
               /\ \/ Matching(name, eff) = {}
                  \/ /\ Matching(name, eff) # {}
                     /\ Continue(Append(rest, [name |-> name, next |-> 1,
                                               version |-> Newest(Matching(name, eff))]))
  BY <1>5 DEF Visit, eff
<1>8. world.installed[name] = 0 \/ world.installed[name] \in eff.ok
  BY <1>3, SolutionType
<1>9. Matching(name, eff) # {} /\ Newest(Matching(name, eff)) \in world.avail[name] \cap eff.ok
  BY <1>2, <1>3, <1>4, <1>6, NewestIsCandidate
<1>10. Restarts(name, eff) \/ Reuses(name, eff, rest) \/ Opens(name, eff, rest)
  <2>1. CASE resolved[name] \in eff.ok /\ Continue(rest)
    BY <2>1 DEF Reuses
  <2>2. CASE resolved[name] \notin eff.ok \cup {0} /\ Narrow(name, eff)
    BY <2>2 DEF Restarts
  <2>3. CASE resolved[name] = 0 /\ world.installed[name] \in eff.ok /\ Continue(rest)
    BY <2>3 DEF Reuses
  <2>4. CASE /\ resolved[name] = 0 /\ world.installed[name] = 0
             /\ Continue(Append(rest, [name |-> name, next |-> 1,
                                       version |-> Newest(Matching(name, eff))]))
    <3>1. ~Settled(name)
      BY <2>4 DEF Settled
    <3>2. \A v : [name |-> name, next |-> 1, version |-> v] = [name |-> name, version |-> v, next |-> 1]
      OBVIOUS
    <3>3. Continue(Append(rest, [name |-> name, version |-> Newest(Matching(name, eff)), next |-> 1]))
      BY <2>4, <3>2
    <3> QED BY <1>5, <1>9, <3>1, <3>3 DEF Opens
  <2> QED BY <1>7, <1>8, <1>9, <2>1, <2>2, <2>3, <2>4
<1> QED BY <1>3, <1>10 DEF eff

\* Every restart is for a requirement more, so there are not too many of them.
LEMMA RestartsCounted ==
    ASSUME NarrowInv, Settling, EnoughRestarts, restarts <= Cardinality(Heeded),
           UNCHANGED <<world, rootReq>>, NEW name \in Package, NEW req \in Asked(name),
           Restarts(name, Intersect(req, extra[name]))
    PROVE  restarts' <= Cardinality(Heeded)' /\ restarts + 1 < MaxRestarts
<1> DEFINE all == Demands
           now == Heeded
           later == Heeded'
<1>1. IsFiniteSet(all) /\ Cardinality(all) < MaxRestarts
  BY DEF EnoughRestarts
<1>2. /\ \A q \in Package : Obeyed(q) \subseteq Obeyed(q)'
      /\ req \in Obeyed(name)' /\ req \notin Obeyed(name)
  BY RestartNarrows
<1>3. req \in Req
  BY AskedType DEF NarrowInv
<1>4. \A q : Obeyed(q)' \subseteq Binding(q)
  BY AskedKept DEF Obeyed
<1>5. later = {x \in Package \X Req : x[2] \in Obeyed(x[1])'}
  BY DEF Heeded
<1>6. now \in SUBSET later /\ later \in SUBSET all
  BY <1>2, <1>4, <1>5 DEF Heeded, Demands
<1>7. <<name, req>> \in later /\ <<name, req>> \notin now
  BY <1>2, <1>3, <1>5 DEF Heeded
<1> HIDE DEF all, now, later
<1>8. IsFiniteSet(now) /\ IsFiniteSet(later) /\ Cardinality(later) <= Cardinality(all)
  BY <1>1, <1>6, FS_Subset
<1>9. Cardinality(now \cup {<<name, req>>}) = Cardinality(now) + 1
  BY <1>7, <1>8, FS_AddElement
<1>10. Cardinality(now \cup {<<name, req>>}) <= Cardinality(later)
  BY <1>6, <1>7, <1>8, FS_Subset
<1>11. Cardinality(now) \in Nat /\ Cardinality(later) \in Nat /\ Cardinality(all) \in Nat
  BY <1>1, <1>8, FS_CardinalityType
<1>12. restarts \in Nat /\ restarts <= Cardinality(now) /\ MaxRestarts \in Nat
  BY ResolverAssumption DEF NarrowInv, Typed, TypeOK, now
<1>13. restarts' = restarts + 1
  BY DEF Restarts, Narrow
<1>14. restarts + 1 <= Cardinality(later)
  BY <1>9, <1>10, <1>11, <1>12
<1>15. restarts + 1 < MaxRestarts
  BY <1>1, <1>8, <1>11, <1>12, <1>14
<1> QED BY <1>13, <1>14, <1>15 DEF later

\* Such a visit leads on to the solution.
LEMMA VisitStaysOn ==
    ASSUME EnoughRestarts, Settling, NarrowInv, CallsNew,
           restarts <= Cardinality(Heeded), pc \in {"start", "visit"},
           NEW sel \in [Package -> 0..MaxVersion], Good(sel), LeadsTo(sel),
           UNCHANGED <<world, rootReq>>, NEW name \in Package, NEW req \in Asked(name),
           sel[name] \in req.ok, sel[name] # 0,
           NEW rest \in Seq(Frame),
           \/ stack = <<>> /\ rest = <<>>
           \/ pc = "visit" /\ NeedsOf(Top.name, name) /\ rest = Advanced,
           Visit(name, req, rest)
    PROVE  LeadsTo(sel)'
<1> USE DEF NarrowInv
<1> DEFINE eff == Intersect(req, extra[name])
<1>1. /\ sel[name] \in eff.ok
      /\ Restarts(name, eff) \/ Reuses(name, eff, rest) \/ Opens(name, eff, rest)
  BY VisitLeads, AskedType
<1>2. extra[name] \in Req /\ eff \in Req
  <2>1. extra[name] \in Req /\ req \in Req
    BY AskedType DEF Typed, TypeOK
  <2> QED BY <2>1, Intersection
<1>3. /\ Len(rest) = Len(stack) /\ Len(stack) \in Nat /\ Calls = 1..Len(rest)
      /\ \A i \in Calls : rest[i].name = stack[i].name /\ rest[i].version = stack[i].version
  BY TopType, EmptySeq DEF Calls
<1>4. extra[name].n # 0 => sel[name] \in extra[name].ok
  BY DEF LeadsTo
<1>5. CASE Restarts(name, eff)
  <2>1. restarts + 1 # MaxRestarts
    <3>1. restarts + 1 < MaxRestarts
      BY <1>5, RestartsCounted
    <3> QED BY <3>1, ResolverAssumption DEF Typed, TypeOK
  <2>2. /\ stack' = <<>> /\ pc' = "start"
        /\ extra' = [extra EXCEPT ![name] = IF extra[name].n = 0 THEN eff ELSE Intersect(extra[name], eff)]
    BY <1>5, <2>1 DEF Restarts, Narrow
  <2>3. sel[name] \in extra'[name].ok
    <3> HIDE DEF eff
    <3>1. extra'[name] = IF extra[name].n = 0 THEN eff ELSE Intersect(extra[name], eff)
      BY <2>2 DEF Typed, TypeOK
    <3>2. extra[name].n # 0 => sel[name] \in Intersect(extra[name], eff).ok
      BY <1>1, <1>2, <1>4, Intersection
    <3> QED BY <1>1, <3>1, <3>2
  <2>4. \A p \in Package : extra'[p].n # 0 => sel[p] \in extra'[p].ok
    BY <2>2, <2>3 DEF LeadsTo, Typed, TypeOK
  <2>5. Calls' = {}
    BY <2>2, EmptySeq DEF Calls
  <2> QED BY <2>2, <2>4, <2>5 DEF LeadsTo
<1> HIDE DEF eff
<1>6. CASE Reuses(name, eff, rest)
  <2>1. stack' = rest /\ extra' = extra /\ pc' # "done" /\ Calls' = Calls
    BY <1>3, <1>6 DEF Reuses, Continue, Calls
  <2>2. \A i \in Calls' : i + 1 \in Calls' => NeedsOf(stack'[i].name, stack'[i + 1].name)
    BY <1>3, <2>1 DEF LeadsTo
  <2> QED BY <1>3, <2>1, <2>2, NeedsKept DEF LeadsTo
<1>7. CASE Opens(name, eff, rest)
  <2>1. PICK u \in world.avail[name] \cap eff.ok :
           Continue(Append(rest, [name |-> name, version |-> u, next |-> 1]))
    BY <1>7 DEF Opens
  <2>2. [name |-> name, version |-> u, next |-> 1] \in Frame
    BY WorldType DEF Frame
  <2> DEFINE n == Len(rest)
  <2>3. /\ stack' = Append(rest, [name |-> name, version |-> u, next |-> 1])
        /\ extra' = extra /\ pc' # "done"
    BY <2>1 DEF Continue
  <2>4. /\ n \in Nat /\ Calls = 1..n /\ Calls' = 1..(n + 1)
        /\ stack'[n + 1].name = name /\ stack'[n + 1].version = u
        /\ \A i \in 1..n : stack'[i].name = stack[i].name /\ stack'[i].version = stack[i].version
    BY <1>3, <2>2, <2>3, PushCall DEF Calls
  <2>5. n = 0 \/ NeedsOf(stack[n].name, name)
    BY <1>3, EmptySeq DEF Top
  <2> HIDE DEF n
  <2>6. ASSUME NEW i \in Calls', i + 1 \in Calls'
        PROVE  NeedsOf(stack'[i].name, stack'[i + 1].name)
    <3>1. CASE i = n
      BY <2>4, <2>5, <3>1
    <3>2. CASE i # n
      <4>1. i \in Calls /\ i + 1 \in Calls
        BY <2>4, <2>6, <3>2
      <4> QED BY <2>4, <4>1 DEF LeadsTo
    <3> QED BY <3>1, <3>2
  <2>7. \A i \in Calls' : sel[stack'[i].name] # 0 /\ stack'[i].version \in world.avail[stack'[i].name]
    <3>1. ASSUME NEW i \in 1..(n + 1)
          PROVE  sel[stack'[i].name] # 0 /\ stack'[i].version \in world.avail[stack'[i].name]
      <4>1. CASE i = n + 1
        BY <2>1, <2>4, <4>1
      <4>2. CASE i \in 1..n
        BY <2>4, <4>2 DEF LeadsTo
      <4> QED BY <2>4, <4>1, <4>2
    <3> QED BY <2>4, <3>1
  <2> QED BY <2>3, <2>6, <2>7, NeedsKept DEF LeadsTo
<1> QED BY <1>1, <1>5, <1>6, <1>7 DEF eff

\* Every step of a resolution leads on to every solution there is.
LEMMA LeadsOn ==
    ASSUME EnoughRestarts, Settling, GraphInv, NarrowInv,
           restarts <= Cardinality(Heeded), NEW sel \in [Package -> 0..MaxVersion],
           Good(sel), LeadsTo(sel), [Next]_vars
    PROVE  LeadsTo(sel)'
<1> USE DEF GraphInv
<1>1. UNCHANGED <<world, rootReq>>
  BY WorldKept
<1>2. CASE StartAttempt
  <2>1. pc = "start" /\ stack = <<>> /\ Root \in Package /\ rootReq \in Req
    BY <1>2, RootNew DEF StartAttempt, Typed, TypeOK, NarrowInv
  <2>2. sel[Root] \in rootReq.ok /\ sel[Root] # 0
    BY <2>1, RequirementType DEF Good, Solution, Version
  <2>3. rootReq \in Asked(Root) /\ <<>> \in Seq(Frame) /\ Visit(Root, rootReq, <<>>)
    BY <1>2, <2>1, EmptySeq, RootAsked DEF StartAttempt
  <2> QED BY <1>1, <2>1, <2>2, <2>3, VisitStaysOn
<1>3. CASE NextDep
  <2>1. PICK name \in Package, req \in Req :
           /\ Reached(name, req) /\ Visit(name, req, Advanced)
           /\ sel[name] \in req.ok /\ sel[name] # 0 /\ NeedsOf(Top.name, name)
    BY <1>3, DependencyLeads
  <2>2. pc = "visit"
    BY <1>3 DEF NextDep
  <2>3. Advanced \in Seq(Frame)
    BY <2>2, TopType
  <2>4. req \in Asked(name)
    BY <1>3, <2>1, ReachedAsked
  <2> QED BY <1>1, <2>1, <2>2, <2>3, <2>4, VisitStaysOn
<1>4. CASE VisitReturns
  <2>1. pc' # "done" /\ extra' = extra /\ pc = "visit"
    BY <1>4 DEF VisitReturns
  <2>2. Len(stack) \in Nat \ {0} /\ Calls = 1..Len(stack)
    BY <2>1, TopType DEF Calls
  <2>3. Calls' = 1..(Len(stack) - 1) /\ \A i \in Calls' : stack'[i] = stack[i]
    BY <1>4, PopCall DEF Calls
  <2>4. \A i \in Calls' : i \in Calls /\ stack'[i] = stack[i] /\ (i + 1 \in Calls' => i + 1 \in Calls)
    BY <2>2, <2>3
  <2>5. \A i \in Calls' : i + 1 \in Calls' => NeedsOf(stack'[i].name, stack'[i + 1].name)
    BY <2>4 DEF LeadsTo
  <2> QED BY <1>1, <2>1, <2>4, <2>5, NeedsKept DEF LeadsTo
<1>5. CASE Order
  <2>1. UNCHANGED <<world, stack, extra>> /\ pc = "order"
    BY <1>5 DEF Order
  <2>2. ~\E S \in SUBSET Package : Cycle(S)
    BY <2>1, GraphSorts DEF OrderNeverRefused
  <2>3. \A p \in Package, v \in Version : world.conflicts[p][v] = {}
    BY DEF Good, OnlyRangesToSettle
  <2>4. \A p \in Plan : p \in Package /\ resolved[p] \in Version
    <3>1. resolved \in [Package -> 0..MaxVersion]
      BY DEF Typed, TypeOK
    <3> QED BY <3>1, WorldAssumption DEF Plan, Version
  <2>5. \A q \in Present : q \in Package /\ world.installed[q] \in Version
    BY WorldType, WorldAssumption DEF Present, Version
  <2>6. ~Conflicting
    BY <2>3, <2>4, <2>5 DEF Conflicting
  <2>7. result' = "ok"
    BY <1>5, <2>2, <2>6 DEF Order
  <2>8. Calls' = Calls /\ \A i \in Calls' : i + 1 \in Calls' => NeedsOf(stack'[i].name, stack'[i + 1].name)
    BY <2>1 DEF LeadsTo, Calls
  <2> QED BY <1>1, <2>1, <2>7, <2>8, NeedsKept DEF LeadsTo
<1>6. CASE UNCHANGED vars
  <2>1. UNCHANGED <<stack, extra, pc, result>>
    BY <1>6 DEF vars
  <2>2. Calls' = Calls /\ \A i \in Calls' : i + 1 \in Calls' => NeedsOf(stack'[i].name, stack'[i + 1].name)
    BY <2>1 DEF LeadsTo, Calls
  <2> QED BY <1>1, <2>1, <2>2, NeedsKept DEF LeadsTo
<1> QED BY <1>2, <1>3, <1>4, <1>5, <1>6 DEF Next

LEMMA SolveInvInit ==
    ASSUME Init
    PROVE  SolveInv
<1>1. Calls = {} /\ pc # "done" /\ restarts = 0 /\ \A p \in Package : extra[p].n = 0
  BY EmptySeq, AnyIsRequirement DEF Init, Calls, NoReq
<1>2. ASSUME EnoughRestarts PROVE restarts <= Cardinality(Heeded)
  <2>1. Heeded \in SUBSET Demands
    BY DEF Heeded, Demands, Obeyed
  <2>2. Cardinality(Heeded) \in Nat
    BY <1>2, <2>1, FS_Subset, FS_CardinalityType DEF EnoughRestarts
  <2> QED BY <1>1, <2>2
<1>3. \A sel : LeadsTo(sel)
  BY <1>1 DEF LeadsTo
<1> QED BY <1>2, <1>3 DEF SolveInv

LEMMA SolveInvStep ==
    ASSUME GraphInv, NarrowInv, SolveInv, [Next]_vars
    PROVE  SolveInv'
<1>1. UNCHANGED <<world, rootReq>>
  BY WorldKept
<1>2. Settling' = Settling /\ EnoughRestarts' = EnoughRestarts
  BY <1>1, AskedKept DEF Settling
<1>3. ASSUME Settling, EnoughRestarts PROVE restarts' <= Cardinality(Heeded)'
  <2>1. CASE UNCHANGED <<extra, restarts>>
    <3>1. \A p : Binding(p)' = Binding(p) /\ Candidates(p)' = Candidates(p)
      BY <1>1, <2>1, AskedKept DEF Candidates
    <3>2. \A p : Obeyed(p)' = Obeyed(p)
      BY <3>1 DEF Obeyed
    <3>3. Heeded' = Heeded
      BY <3>2 DEF Heeded
    <3> QED BY <1>3, <2>1, <3>3 DEF SolveInv
  <2>2. ASSUME NEW name \in Package, NEW req \in Asked(name),
               Restarts(name, Intersect(req, extra[name]))
        PROVE  restarts' <= Cardinality(Heeded)'
    BY <1>1, <1>3, <2>2, RestartsCounted DEF SolveInv
  <2> QED BY <2>1, <2>2, RestartOrNot DEF GraphInv
<1>4. ASSUME Settling, EnoughRestarts, NEW sel \in [Package -> 0..MaxVersion], Good(sel)'
      PROVE  LeadsTo(sel)'
  <2>1. Good(sel)
    BY <1>1, <1>4, GoodKept
  <2> QED BY <1>4, <2>1, LeadsOn DEF SolveInv
<1> QED BY <1>2, <1>3, <1>4 DEF SolveInv

\* Where only ranges are to be settled, a capability has one provider, all
\* that is installed is published and the requirements agree about
\* pre-releases, a resolution finds a plan if any choice of versions installs
\* the root: while the comparators fit the parser and the restarts do not run
\* out.
THEOREM SolvableIsSolved ==
    Spec /\ ComparatorsFit /\ EnoughRestarts => [](PlainWorld => SolvedIfSolvable)
<1>1. Init => GraphInv /\ NarrowInv /\ SolveInv
  BY GraphInvInit, NarrowInvInit, SolveInvInit
<1>2. GraphInv /\ NarrowInv /\ SolveInv /\ [Next]_vars => (GraphInv /\ NarrowInv /\ SolveInv)'
  BY GraphInvStep, NarrowInvStep, SolveInvStep
<1>3. ComparatorsFit /\ EnoughRestarts /\ [Next]_vars => ComparatorsFit' /\ EnoughRestarts'
  BY WorldKept, AskedKept
<1>4. SolveInv /\ ComparatorsFit /\ EnoughRestarts => (PlainWorld => SolvedIfSolvable)
  BY DEF SolveInv, Settling, SolvedIfSolvable, AlwaysSolved, Good, LeadsTo
<1> QED BY <1>1, <1>2, <1>3, <1>4, PTL DEF Spec
=============================================================================
