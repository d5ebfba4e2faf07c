SPECIFICATION Spec
CONSTANTS
    Package <- MCPackage
    Virtual = {"cap"}
    MaxVersion = 2
    Worlds <- Moving
    Commands = {"install_local", "upgrade"}
    Faults = {}
CHECK_DEADLOCK FALSE
INVARIANTS
    NothingToPull
    HistoryComplete
