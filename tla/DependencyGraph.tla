--------------------------- MODULE DependencyGraph ---------------------------
(***************************************************************************)
(* dependency::graph::DependencyGraph: the graph the resolver fills while  *)
(* it visits packages, and the topological sort (Kahn's algorithm) that    *)
(* turns it into an install order.                                         *)
(*                                                                         *)
(* Every collection the sort iterates over is hashed, so the order in      *)
(* which ready nodes are queued is arbitrary: the queue is a set here and  *)
(* pop_front takes any member.  One Pop is one round of the while loop.    *)
(***************************************************************************)
EXTENDS Naturals, Sequences, FiniteSets

CONSTANT Node
ASSUME NodeAssumption == IsFiniteSet(Node)

VARIABLES
    nodes,      \* the keys of `edges`
    edges,      \* edges[n]: what n directly depends on
    pc,         \* "build", then "sort", then "done"
    inDegree,   \* dependencies of a node not yet in the order
    queue,      \* nodes ready to be placed
    order,      \* the nodes placed so far
    result      \* "none", "ok" or "CircularDependency"

vars == <<nodes, edges, pc, inDegree, queue, order, result>>

TypeOK ==
    /\ nodes \subseteq Node
    /\ edges \in [Node -> SUBSET Node]
    /\ pc \in {"build", "sort", "done"}
    /\ inDegree \in [Node -> Nat]
    /\ queue \subseteq nodes
    /\ order \in Seq(Node)
    /\ result \in {"none", "ok", "CircularDependency"}

Init ==
    /\ nodes = {} /\ edges = [n \in Node |-> {}]
    /\ pc = "build" /\ result = "none"
    /\ inDegree = [n \in Node |-> 0] /\ queue = {} /\ order = <<>>

AddNode(n) ==
    /\ pc = "build"
    /\ nodes' = nodes \cup {n}
    /\ UNCHANGED <<edges, pc, inDegree, queue, order, result>>

AddEdge(from, dependsOn) ==
    /\ pc = "build"
    /\ nodes' = nodes \cup {from, dependsOn}
    /\ edges' = [edges EXCEPT ![from] = @ \cup {dependsOn}]
    /\ UNCHANGED <<pc, inDegree, queue, order, result>>

\* mutant of InDegrees: dependents are counted.
OutDegrees == [n \in Node |-> Cardinality({m \in nodes : n \in edges[m]})]

InDegrees == [n \in Node |-> Cardinality(edges[n])]

\* The first loops of install_order count dependencies and queue the leaves.
InstallOrder ==
    /\ pc = "build" /\ pc' = "sort"
    /\ inDegree' = InDegrees
    /\ queue' = {n \in nodes : inDegree'[n] = 0}
    /\ UNCHANGED <<nodes, edges, order, result>>

Dependents(d) == {n \in nodes : d \in edges[n]}

\* mutant of Pop: a dependent is looked at before its count goes down.
PopTooSoon(node) ==
    /\ pc = "sort" /\ node \in queue /\ order' = Append(order, node)
    /\ inDegree' = [n \in Node |-> IF n \in Dependents(node) THEN inDegree[n] - 1
                                   ELSE inDegree[n]]
    /\ queue' = (queue \ {node}) \cup {n \in Dependents(node) : inDegree[n] = 0}
    /\ UNCHANGED <<nodes, edges, pc, result>>

Pop(node) ==
    /\ pc = "sort" /\ node \in queue
    /\ order' = Append(order, node)
    /\ inDegree' = [n \in Node |-> IF n \in Dependents(node) THEN inDegree[n] - 1
                                   ELSE inDegree[n]]
    /\ queue' = (queue \ {node}) \cup {n \in Dependents(node) : inDegree'[n] = 0}
    /\ UNCHANGED <<nodes, edges, pc, result>>

\* mutant of Finish: what was placed is the answer.
FinishAnyhow ==
    /\ pc = "sort" /\ queue = {} /\ pc' = "done" /\ result' = "ok"
    /\ UNCHANGED <<nodes, edges, inDegree, queue, order>>

Finish ==
    /\ pc = "sort" /\ queue = {} /\ pc' = "done"
    /\ result' = IF Len(order) = Cardinality(nodes) THEN "ok" ELSE "CircularDependency"
    /\ UNCHANGED <<nodes, edges, inDegree, queue, order>>

Build == \E n, m \in Node : AddNode(n) \/ AddEdge(n, m)
Sort  == InstallOrder \/ Finish \/ \E n \in Node : Pop(n)
Next  == Build \/ Sort

Spec == Init /\ [][Next]_vars

(***************************************************************************)
(* Properties                                                              *)
(***************************************************************************)
Placed == {order[i] : i \in 1..Len(order)}

\* A package is placed only after everything it depends on: at no point does
\* the order hold a node whose dependencies are not all before it.
DependenciesFirst ==
    \A i \in 1..Len(order) : edges[order[i]] \subseteq {order[j] : j \in 1..(i - 1)}

\* No package is placed, hence installed, twice.
PlacedOnce == \A i, j \in 1..Len(order) : order[i] = order[j] => i = j

\* An order that is returned holds every node of the graph.
OrderComplete == result = "ok" => Placed = nodes

\* A graph is refused only if it has a cycle: some nodes that each depend on
\* another of them, so that none of them could ever be placed first.
RefusesOnlyCycles ==
    result = "CircularDependency" =>
        \E S \in SUBSET nodes : S # {} /\ \A n \in S : edges[n] \cap S # {}
=============================================================================
