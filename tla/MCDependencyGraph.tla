------------------------- MODULE MCDependencyGraph -------------------------
(* Every graph on four nodes, self-dependencies included.                  *)
EXTENDS DependencyGraph, TLC
CONSTANTS n1, n2, n3, n4
Nodes4 == {n1, n2, n3, n4}
Sym == Permutations(Nodes4)
=============================================================================
