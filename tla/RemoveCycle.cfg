SPECIFICATION Spec
CONSTANTS
    a = a
    b = b
    c = c
    v = v
    Package <- Packages
    Virtual = {}
    Commands = {"cascade"}
    HookFails = FALSE
    MaxDepth = 4
INVARIANTS
    CascadeReturns
