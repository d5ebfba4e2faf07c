----------------------------- MODULE MCLifecycle -----------------------------
(***************************************************************************)
(* Three packages in two versions: app may need lib or the capability cap, *)
(* lib may need base, base provides cap.                                   *)
(***************************************************************************)
EXTENDS Lifecycle

Dep(name, ok) == [name |-> name, fits |-> ok, ok |-> ok]
MCPackage == {"app", "lib", "base"}
World(app, lib, libs, bases, caps) ==
    [avail |-> [p \in MCPackage |-> CASE p = "app" -> {1, 2} [] p = "lib" -> libs [] p = "base" -> bases],
     deps |-> [p \in MCPackage |-> CASE p = "app" -> app [] p = "lib" -> lib [] p = "base" -> <<{}, {}>>],
     provides |-> [p \in MCPackage |-> IF p = "base" THEN caps ELSE <<{}, {}>>]]

AppDeps == {{}, {Dep("cap", {1, 2})}} \cup {{Dep("lib", ok)} : ok \in {{1}, {2}, {1, 2}}}
Both == {1, 2}
\* Both versions of everything are published; lib's new version may need base.
Moving == {World(<<app1, app2>>, <<{}, lib2>>, Both, Both, <<{"cap"}, {"cap"}>>) :
             app1 \in AppDeps \ {{}, {Dep("lib", {2})}}, app2 \in {{}, {Dep("cap", Both)}, {Dep("lib", {2})}},
             lib2 \in {{}, {Dep("base", Both)}}}
\* The newest base no longer provides cap.
Dropping == {World(app, [v \in 1..2 |-> {}], {1}, Both, <<{"cap"}, {}>>) : app \in [1..2 -> AppDeps]}
\* lib 2 is a pre-release, which base names and app does not.
Tagged == {[World(<<{[Dep("lib", Both) EXCEPT !.ok = {1}], Dep("base", Both)}, {}>>, <<{}, {}>>,
                  Both, {1}, <<{}, {}>>) EXCEPT !.deps["base"] = <<{Dep("lib", {2})}, {}>>]}
MovingAndDropping == Moving \cup Dropping \cup Tagged
\* app needs lib in the version app itself is in.
Paired == {World(<<{Dep("lib", {1, 2})}, {Dep("lib", {1})}>>, [v \in 1..2 |-> {}], Both, {1}, <<{}, {}>>)}
\* app's new version needs a newer lib, which nothing upgrades with it.
Raised == {World(<<{Dep("lib", {1})}, {Dep("lib", {2})}>>, [v \in 1..2 |-> {}], {1}, {1}, <<{}, {}>>)}
=============================================================================
