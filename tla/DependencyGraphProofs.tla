------------------------ MODULE DependencyGraphProofs ------------------------
(***************************************************************************)
(* Proofs about DependencyGraph, for every finite set of nodes: whatever   *)
(* the order in which edges are added and ready nodes are taken, the order *)
(* returned is topological and complete, and only cyclic graphs are        *)
(* refused.                                                                *)
(***************************************************************************)
EXTENDS DependencyGraph, FiniteSetTheorems, TLAPS

\* The properties need to know what the counters and the queue mean.
Closed   == \A n \in Node : edges[n] \subseteq nodes /\ (edges[n] # {} => n \in nodes)
Counters == \A n \in Node : inDegree[n] = Cardinality(edges[n] \ Placed)
Ready    == queue = {n \in nodes \ Placed : edges[n] \subseteq Placed}

GInv ==
    /\ TypeOK /\ Closed
    /\ Placed \subseteq nodes
    /\ Cardinality(Placed) = Len(order)
    /\ DependenciesFirst /\ PlacedOnce
    /\ pc = "build" => order = <<>>
    /\ pc # "build" => Counters /\ Ready
    /\ pc # "done" => result = "none"
    /\ result = "ok" => Len(order) = Cardinality(nodes)
    /\ result = "CircularDependency" => pc = "done" /\ queue = {} /\ Len(order) # Cardinality(nodes)

\* Every set of nodes is finite.
LEMMA NodesFinite ==
    ASSUME NEW S \in SUBSET Node
    PROVE  IsFiniteSet(S) /\ Cardinality(S) \in Nat /\ (Cardinality(S) = 0 <=> S = {})
BY NodeAssumption, FS_Subset, FS_CardinalityType, FS_EmptySet

\* Appending a node adds it, and only it, to what is placed.
LEMMA AppendPlaces ==
    ASSUME order \in Seq(Node), NEW node \in Node, order' = Append(order, node)
    PROVE  /\ Len(order') = Len(order) + 1
           /\ order'[Len(order) + 1] = node
           /\ \A i \in 1..Len(order) : order'[i] = order[i]
           /\ Placed' = Placed \cup {node}
<1>1. /\ Len(order') = Len(order) + 1 /\ Len(order) \in Nat
      /\ order'[Len(order) + 1] = node
      /\ \A i \in 1..Len(order) : order'[i] = order[i]
  OBVIOUS
<1>2. Placed' = Placed \cup {node}
  BY <1>1 DEF Placed
<1> QED BY <1>1, <1>2

\* Taking an element away from a finite set lowers its cardinality by one.
LEMMA OneLess ==
    ASSUME NEW S \in SUBSET Node, NEW P, NEW node \in Node, node \notin P
    PROVE  Cardinality(S \ (P \cup {node})) =
             IF node \in S THEN Cardinality(S \ P) - 1 ELSE Cardinality(S \ P)
<1>1. IsFiniteSet(S \ P)
  BY NodesFinite
<1>2. CASE node \in S
  <2>1. S \ (P \cup {node}) = (S \ P) \ {node}
    OBVIOUS
  <2> QED BY <1>1, <1>2, <2>1, FS_RemoveElement
<1>3. CASE node \notin S
  <2>1. S \ (P \cup {node}) = S \ P
    BY <1>3
  <2> QED BY <1>3, <2>1
<1> QED BY <1>2, <1>3

\* One round of the loop keeps everything true.
LEMMA PopKeepsInv ==
    ASSUME GInv, NEW node \in Node, Pop(node)
    PROVE  GInv'
<1>0. /\ order \in Seq(Node) /\ pc = "sort" /\ pc' = "sort"
      /\ order' = Append(order, node)
      /\ UNCHANGED <<nodes, edges, result>>
  BY DEF Pop, GInv, TypeOK
<1>1. node \in nodes /\ node \notin Placed /\ edges[node] \subseteq Placed
  BY <1>0 DEF Pop, GInv, Ready
<1>2. /\ Len(order') = Len(order) + 1 /\ Len(order) \in Nat
      /\ order'[Len(order) + 1] = node
      /\ \A i \in 1..Len(order) : order'[i] = order[i]
      /\ Placed' = Placed \cup {node}
  BY <1>0, AppendPlaces
<1>3. Counters'
  <2> SUFFICES ASSUME NEW n \in Node
               PROVE  inDegree'[n] = Cardinality(edges[n] \ (Placed \cup {node}))
    BY <1>0, <1>2 DEF Counters
  <2>1. inDegree[n] = Cardinality(edges[n] \ Placed)
    BY <1>0 DEF GInv, Counters
  <2>2. inDegree'[n] = IF node \in edges[n] THEN inDegree[n] - 1 ELSE inDegree[n]
    <3>1. node \in edges[n] => n \in nodes
      BY DEF GInv, Closed
    <3> QED BY <3>1 DEF Pop, Dependents
  <2>3. edges[n] \in SUBSET Node
    BY DEF GInv, TypeOK
  <2>4. Cardinality(edges[n] \ (Placed \cup {node})) =
          IF node \in edges[n] THEN Cardinality(edges[n] \ Placed) - 1
          ELSE Cardinality(edges[n] \ Placed)
    BY <1>1, <2>3, OneLess
  <2> QED BY <2>1, <2>2, <2>4
<1>4. \A n \in Placed : edges[n] \subseteq Placed
  <2> SUFFICES ASSUME NEW i \in 1..Len(order) PROVE edges[order[i]] \subseteq Placed
    BY DEF Placed
  <2>1. \A j \in 1..(i - 1) : j \in 1..Len(order)
    BY <1>2
  <2>2. edges[order[i]] \subseteq {order[j] : j \in 1..(i - 1)}
    BY DEF GInv, DependenciesFirst
  <2> QED BY <2>1, <2>2 DEF Placed
<1>5. Ready'
  <2>1. \A n \in Dependents(node) : inDegree'[n] = 0 <=> edges[n] \subseteq Placed'
    <3> SUFFICES ASSUME NEW n \in Dependents(node)
                 PROVE  inDegree'[n] = 0 <=> edges[n] \subseteq Placed'
      OBVIOUS
    <3>1. n \in Node /\ edges[n] \ Placed' \in SUBSET Node
      BY DEF GInv, TypeOK, Dependents
    <3>2. inDegree'[n] = Cardinality(edges[n] \ Placed')
      BY <1>0, <1>3, <3>1 DEF Counters
    <3>3. inDegree'[n] = 0 <=> edges[n] \ Placed' = {}
      BY <3>1, <3>2, NodesFinite
    <3> QED BY <3>3
  <2>2. \A n \in Dependents(node) : n \notin Placed'
    BY <1>1, <1>2, <1>4 DEF Dependents
  <2>3. queue = {n \in nodes \ Placed : edges[n] \subseteq Placed}
    BY <1>0 DEF GInv, Ready
  <2>4. queue' = (queue \ {node}) \cup {n \in Dependents(node) : inDegree'[n] = 0}
    BY DEF Pop
  <2>5. queue' = {n \in nodes \ Placed' : edges[n] \subseteq Placed'}
    BY <1>1, <1>2, <2>1, <2>2, <2>3, <2>4 DEF Dependents
  <2> QED BY <1>0, <2>5 DEF Ready
<1>6. DependenciesFirst'
  <2> SUFFICES ASSUME NEW i \in 1..Len(order')
               PROVE  edges[order'[i]] \subseteq {order'[j] : j \in 1..(i - 1)}
    BY <1>0 DEF DependenciesFirst
  <2>1. CASE i = Len(order')
    <3>1. Placed = {order'[j] : j \in 1..(i - 1)}
      BY <1>2, <2>1 DEF Placed
    <3> QED BY <1>1, <1>2, <2>1, <3>1
  <2>2. CASE i # Len(order')
    <3>1. i \in 1..Len(order)
      BY <1>2, <2>2
    <3>2. edges[order[i]] \subseteq {order[j] : j \in 1..(i - 1)}
      BY <3>1 DEF GInv, DependenciesFirst
    <3>3. \A j \in 1..(i - 1) : order'[j] = order[j]
      BY <1>2, <3>1
    <3> QED BY <1>2, <3>1, <3>2, <3>3
  <2> QED BY <2>1, <2>2
<1>7. PlacedOnce'
  <2>1. \A i \in 1..Len(order) : order[i] # node
    BY <1>1 DEF Placed
  <2> QED BY <1>2, <2>1 DEF GInv, PlacedOnce
<1>8. Cardinality(Placed') = Len(order')
  <2>1. IsFiniteSet(Placed)
    BY NodesFinite DEF GInv, TypeOK
  <2>2. Cardinality(Placed \cup {node}) = Cardinality(Placed) + 1
    BY <1>1, <2>1, FS_AddElement, Zenon
  <2> QED BY <1>1, <1>2, <2>2 DEF GInv
<1>9. TypeOK'
  <2>1. inDegree' \in [Node -> Nat]
    <3>1. \A n \in Node : inDegree'[n] \in Nat
      <4> SUFFICES ASSUME NEW n \in Node PROVE inDegree'[n] \in Nat
        OBVIOUS
      <4>1. edges[n] \ Placed' \in SUBSET Node
        BY DEF GInv, TypeOK
      <4>2. inDegree'[n] = Cardinality(edges[n] \ Placed')
        BY <1>0, <1>3 DEF Counters
      <4> QED BY <4>1, <4>2, NodesFinite
    <3> QED BY <3>1 DEF Pop
  <2>2. queue' \subseteq nodes /\ order' \in Seq(Node)
    BY <1>0 DEF Pop, Dependents, GInv, TypeOK
  <2> QED BY <1>0, <2>1, <2>2 DEF GInv, TypeOK
<1> QED
  BY <1>0, <1>1, <1>2, <1>3, <1>5, <1>6, <1>7, <1>8, <1>9 DEF GInv, Closed

\* The counters and the queue mean what Kahn's algorithm needs them to mean,
\* from the first edge to the answer.
THEOREM Inductive == Spec => []GInv
<1>1. Init => GInv
  <2> SUFFICES ASSUME Init PROVE GInv
    OBVIOUS
  <2>1. order = <<>> /\ Len(order) = 0 /\ Placed = {}
    BY DEF Init, Placed
  <2>2. Cardinality(Placed) = Len(order)
    BY <2>1, FS_EmptySet
  <2> QED BY <2>1, <2>2 DEF Init, GInv, TypeOK, Closed, DependenciesFirst, PlacedOnce
<1>2. GInv /\ [Next]_vars => GInv'
  <2> SUFFICES ASSUME GInv, [Next]_vars PROVE GInv'
    OBVIOUS
  <2> USE DEF GInv, TypeOK
  <2>1. ASSUME NEW n \in Node, NEW m \in Node, AddNode(n) \/ AddEdge(n, m) PROVE GInv'
    <3>0. order = <<>> /\ UNCHANGED <<pc, inDegree, order, result, queue>>
      BY <2>1 DEF AddNode, AddEdge
    <3>1. Placed = {} /\ Placed' = {}
      BY <3>0 DEF Placed
    <3>2. nodes' \subseteq Node /\ nodes \subseteq nodes' /\ edges' \in [Node -> SUBSET Node]
      BY <2>1 DEF AddNode, AddEdge
    <3>3. Closed'
      BY <2>1 DEF AddNode, AddEdge, Closed
    <3>4. pc = "build" /\ Len(order) = 0
      BY <2>1, <3>0 DEF AddNode, AddEdge
    <3> QED BY <3>0, <3>1, <3>2, <3>3, <3>4 DEF DependenciesFirst, PlacedOnce
  <2>2. CASE InstallOrder
    <3>1. /\ order = <<>> /\ Placed = {} /\ Placed' = {} /\ pc' = "sort"
          /\ UNCHANGED <<nodes, edges, order, result>>
      BY <2>2 DEF InstallOrder, Placed
    <3>2. \A n \in Node : inDegree'[n] = Cardinality(edges[n])
      BY <2>2 DEF InstallOrder, InDegrees
    <3>3. Counters'
      BY <3>1, <3>2 DEF Counters
    <3>4. Ready'
      <4>1. \A n \in nodes : inDegree'[n] = 0 <=> edges[n] \subseteq {}
        BY <3>2, NodesFinite
      <4> QED BY <2>2, <3>1, <4>1 DEF InstallOrder, Ready
    <3>5. inDegree' \in [Node -> Nat]
      BY <2>2, NodesFinite DEF InstallOrder, InDegrees
    <3>6. queue' \subseteq nodes
      BY <2>2 DEF InstallOrder
    <3>7. pc = "build" /\ result = "none"
      BY <2>2 DEF InstallOrder
    <3> QED BY <3>1, <3>3, <3>4, <3>5, <3>6, <3>7 DEF Closed, DependenciesFirst, PlacedOnce
  <2>3. ASSUME NEW n \in Node, Pop(n) PROVE GInv'
    BY <2>3, PopKeepsInv
  <2>4. CASE Finish
    <3>1. UNCHANGED <<nodes, edges, inDegree, queue, order>> /\ Placed' = Placed
      BY <2>4 DEF Finish, Placed
    <3>2. UNCHANGED <<Closed, Counters, Ready, DependenciesFirst, PlacedOnce>>
      BY <3>1 DEF Closed, Counters, Ready, DependenciesFirst, PlacedOnce
    <3> QED BY <2>4, <3>1, <3>2 DEF Finish
  <2>5. CASE UNCHANGED vars
    <3>1. UNCHANGED vars /\ Placed' = Placed
      BY <2>5 DEF vars, Placed
    <3>2. UNCHANGED <<Closed, Counters, Ready, DependenciesFirst, PlacedOnce>>
      BY <3>1 DEF vars, Closed, Counters, Ready, DependenciesFirst, PlacedOnce
    <3>3. TypeOK'
      BY <3>1 DEF vars, TypeOK
    <3> QED BY <3>1, <3>2, <3>3 DEF vars
  <2> QED
    BY <2>1, <2>2, <2>3, <2>4, <2>5 DEF Next, Build, Sort
<1> QED BY <1>1, <1>2, PTL DEF Spec

\* Dependencies are always before their dependents, whatever the graph.
THEOREM OrderIsTopological == Spec => [](DependenciesFirst /\ PlacedOnce)
<1>1. GInv => DependenciesFirst /\ PlacedOnce
  BY DEF GInv
<1> QED BY <1>1, Inductive, PTL

\* An order that is returned leaves no package of the graph out.
THEOREM OrderIsComplete == Spec => []OrderComplete
<1>1. GInv => OrderComplete
  <2> SUFFICES ASSUME GInv, result = "ok" PROVE Placed = nodes
    BY DEF OrderComplete
  <2>1. IsFiniteSet(nodes) /\ Placed \in SUBSET nodes
    BY NodesFinite DEF GInv, TypeOK
  <2>2. Cardinality(Placed) = Cardinality(nodes)
    BY DEF GInv
  <2> QED BY <2>1, <2>2, FS_Subset
<1> QED BY <1>1, Inductive, PTL

\* The sort's collections are well typed: every queued node is in the graph, and
\* no in-degree goes below zero (graph.rs:66-71, an unsigned subtraction).
THEOREM TypeCorrect == Spec => []TypeOK
<1>1. GInv => TypeOK
  BY DEF GInv
<1> QED BY <1>1, Inductive, PTL

\* CircularDependency is reported only for graphs that have a cycle: the
\* nodes that were never ready each wait for another of them.
THEOREM RefusalIsJustified == Spec => []RefusesOnlyCycles
<1>1. GInv => RefusesOnlyCycles
  <2> SUFFICES ASSUME GInv, result = "CircularDependency"
               PROVE  \E S \in SUBSET nodes : S # {} /\ \A n \in S : edges[n] \cap S # {}
    BY DEF RefusesOnlyCycles
  <2>1. Placed # nodes
    BY DEF GInv
  <2>2. \A n \in nodes \ Placed : edges[n] \cap (nodes \ Placed) # {}
    BY DEF GInv, TypeOK, Ready, Closed
  <2>3. nodes \ Placed # {}
    BY <2>1 DEF GInv
  <2> QED BY <2>2, <2>3
<1> QED BY <1>1, Inductive, PTL
=============================================================================
