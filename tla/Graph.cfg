SPECIFICATION Spec
CONSTANTS
    n1 = n1
    n2 = n2
    n3 = n3
    n4 = n4
    Node <- Nodes4
SYMMETRY Sym
CHECK_DEADLOCK FALSE
INVARIANTS
    DependenciesFirst
    OrderComplete
    RefusesOnlyCycles
