SPECIFICATION Spec
CONSTANTS
    Package <- ChainPackage
    Virtual = {"cap"}
    MaxVersion = 7
    Prerelease = {}
    Root = "app"
    Worlds <- Chain
    RootReqs <- Exact
    MaxRestarts = 200
    MaxComparators = 32
CHECK_DEADLOCK FALSE
PROPERTIES
    RestartsNarrow
