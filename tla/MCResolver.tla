----------------------------- MODULE MCResolver -----------------------------
(***************************************************************************)
(* Diamonds: app needs left, right and lib; left and right need lib too,   *)
(* each with a range of its own; right may also need the capability cap.   *)
(***************************************************************************)
EXTENDS Resolver

MCPackage == {"app", "left", "right", "lib"}

\* Versions 1, 2 and 3 are 0.9.0, 1.0.0-alpha and 3.0.0.  A range that ends at
\* 1.0.0-alpha may name it, and only then matches it.
Tagged == {2}
Span(l, h) == [fits |-> l..h, ok |-> l..h \ Tagged,
               n |-> IF l = 1 /\ h = 3 THEN 0 ELSE IF l = 1 \/ h = 3 THEN 1 ELSE 2]
Naming(r) == [r EXCEPT !.ok = r.fits]
Ranges == {Span(l, h) : <<l, h>> \in {x \in (1..3) \X (1..3) : x[1] <= x[2]}}
            \cup {Naming(Span(1, 2)), Naming(Span(2, 2)), Naming(Span(2, 3))}
Wide == {r \in Ranges : r.fits \in {1..3, 1..2, 2..3}}
Dep(name, req) == [name |-> name, req |-> req]
Leaf == [v \in 1..3 |-> <<>>]

\* r, l, t: the ranges of app, left and right on lib; a: lib's versions in the
\* index; i: the one installed; cap: the dependencies right adds; pr: what
\* each version of lib provides.
World(r, l, t, a, i, cap, pr) ==
    [avail |-> [p \in MCPackage |-> IF p = "lib" THEN a ELSE {1}],
     deps |-> [p \in MCPackage |->
        CASE p = "app" -> [v \in 1..3 |-> <<Dep("left", Any), Dep("right", Any), Dep("lib", r)>>]
          [] p = "left" -> [v \in 1..3 |-> <<Dep("lib", l)>>]
          [] p = "right" -> [v \in 1..3 |-> <<Dep("lib", t)>> \o cap]
          [] OTHER -> Leaf],
     provides |-> [p \in MCPackage |-> IF p = "lib" THEN pr ELSE [v \in 1..3 |-> {}]],
     conflicts |-> [p \in MCPackage |-> [v \in 1..3 |-> {}]],
     installed |-> [p \in MCPackage |-> IF p = "lib" THEN i ELSE 0]]

NoCap == [v \in 1..3 |-> {}]
AllCap == [v \in 1..3 |-> {"cap"}]
Diamonds ==
    {World(r, l, t, a, i, cap, AllCap) :
        r \in Wide, l \in Ranges, t \in Ranges, a \in SUBSET (1..3), i \in 0..3,
        cap \in {<<>>, <<Dep("cap", Any)>>}}
Published == {w \in Diamonds : w.installed["lib"] \in w.avail["lib"] \cup {0}}
LocalOnly == {w \in Diamonds : w.installed["lib"] \notin w.avail["lib"] \cup {0}}
Exact == {Any}

\* Graphs with cycles and conflicts among three packages.
Knot(l, t, c) ==
    [World(Any, Any, Any, {1}, 0, <<>>, NoCap) EXCEPT
        !.deps = [p \in MCPackage |-> [v \in 1..3 |->
            IF p = "app" THEN <<Dep("left", Any), Dep("right", Any)>>
            ELSE IF p = "left" THEN l ELSE IF p = "right" THEN t ELSE <<>>]],
        !.conflicts = [p \in MCPackage |-> [v \in 1..3 |-> c[p]]],
        !.installed = [p \in MCPackage |-> IF p = "lib" THEN 1 ELSE 0]]
OptDeps == {<<>>} \cup {<<Dep(p, Any)>> : p \in MCPackage}
             \cup {<<Dep(p, Any), Dep(q, Any)>> : p, q \in {"left", "right", "lib"}}
Knots == {Knot(l, t, c) : l, t \in OptDeps,
            c \in [MCPackage -> {{}, {"right"}, {"lib"}}]}

DiamondsAndKnots == Published \cup Knots

\* lib provides cap in some of its versions only.
Drifting == {World(r, Any, Any, 1..3, 0, <<Dep("cap", Any)>>, pr) :
               r \in Ranges, pr \in [1..3 -> {{}, {"cap"}}]}

\* lib in 0.9.0, 1.0.0-alpha and 3.0.0: <=1.0.0-alpha with <2.0.0 is solved by
\* 0.9.0, * with >=1.0.0-alpha,<2.0.0 by none.
Tagging == {World(Any, x[1], x[2], 1..3, 0, <<>>, NoCap) :
              x \in {<<Naming(Span(1, 2)), Span(1, 2)>>, <<Any, Naming(Span(2, 2))>>}}

\* One diamond, seven wide: d1 needs lib < 8, d2 needs lib < 7, ... d7 needs
\* lib < 2, so lib 1 suits them all.  With the real constants.
Side == <<"d1", "d2", "d3", "d4", "d5", "d6", "d7">>
ChainPackage == {"app", "lib"} \cup {Side[i] : i \in 1..7}
ChainDeps(p) ==
    IF p = "lib" THEN <<>>
    ELSE IF p = "app" THEN [i \in 1..7 |-> Dep(Side[i], Any)]
    ELSE LET i == CHOOSE k \in 1..7 : Side[k] = p
         IN  <<Dep("lib", [fits |-> 1..(8 - i), ok |-> 1..(8 - i), n |-> 1])>>
Chain == {[avail |-> [p \in ChainPackage |-> IF p = "lib" THEN 1..7 ELSE {1}],
           deps |-> [p \in ChainPackage |-> [v \in 1..7 |-> ChainDeps(p)]],
           provides |-> [p \in ChainPackage |-> [v \in 1..7 |-> {}]],
           conflicts |-> [p \in ChainPackage |-> [v \in 1..7 |-> {}]],
           installed |-> [p \in ChainPackage |-> 0]]}
=============================================================================
