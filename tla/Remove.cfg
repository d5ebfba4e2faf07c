SPECIFICATION Spec
CONSTANTS
    a = a
    b = b
    c = c
    v = v
    Package <- Packages
    Virtual = {v}
    Commands = {"remove", "cascade", "autoremove"}
    HookFails = TRUE
    MaxDepth = 4
SYMMETRY Sym
CHECK_DEADLOCK FALSE
INVARIANTS
    NothingBroken
    EssentialKept
    WantedKept
    CascadeIsJustified
    AcyclicCascadeReturns
