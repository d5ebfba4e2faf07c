SPECIFICATION Spec
CONSTANTS
    Package <- MCPackage
    Virtual = {"cap"}
    MaxVersion = 2
    Worlds <- Paired
    Commands = {"install_local", "upgrade_all"}
    Faults = {}
CHECK_DEADLOCK FALSE
PROPERTIES
    BumpBreaksNobody
