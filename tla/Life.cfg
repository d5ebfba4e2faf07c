SPECIFICATION Spec
CONSTANTS
    Package <- MCPackage
    Virtual = {"cap"}
    MaxVersion = 2
    Worlds <- MovingAndDropping
    Commands = {"install", "install_local", "upgrade", "upgrade_all", "hold"}
    Faults = {"fetch", "install", "remove"}
CHECK_DEADLOCK FALSE
INVARIANTS
    TypeOK
    InstallAllOrNothing
    NewPackagesComplete
    FlagsSurvive
    OthersKeepDependencies
    OneLossAtMost
PROPERTIES
    HoldRespected
    HistoryNotAhead
