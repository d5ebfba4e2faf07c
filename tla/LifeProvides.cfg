SPECIFICATION Spec
CONSTANTS
    Package <- MCPackage
    Virtual = {"cap"}
    MaxVersion = 2
    Worlds <- Dropping
    Commands = {"install_local", "upgrade"}
    Faults = {}
CHECK_DEADLOCK FALSE
INVARIANTS
    UpgradeTakesNothing
