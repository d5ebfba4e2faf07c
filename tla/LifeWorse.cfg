SPECIFICATION Spec
CONSTANTS
    Package <- MCPackage
    Virtual = {"cap"}
    MaxVersion = 2
    Worlds <- Paired
    Commands = {"install_local", "upgrade"}
    Faults = {"install"}
CHECK_DEADLOCK FALSE
INVARIANTS
    NeverWorse
