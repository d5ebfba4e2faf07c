SPECIFICATION Unmarked
CONSTANTS
    a = a
    b = b
    c = c
    v = v
    Package <- Packages
    Virtual = {v}
    Commands = {"cascade"}
    HookFails = FALSE
    MaxDepth = 4
CHECK_DEADLOCK FALSE
INVARIANTS
    NothingEverBroken
