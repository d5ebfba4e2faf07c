SPECIFICATION Spec
CONSTANTS
    Package <- MCPackage
    Virtual = {"cap"}
    MaxVersion = 2
    Worlds <- Raised
    Commands = {"install", "upgrade"}
    Faults = {}
CHECK_DEADLOCK FALSE
INVARIANTS
    UpgradeKeepsSound
