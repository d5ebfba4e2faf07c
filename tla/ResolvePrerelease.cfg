SPECIFICATION Spec
CONSTANTS
    Package <- MCPackage
    Virtual = {"cap"}
    MaxVersion = 3
    Prerelease = {2}
    Root = "app"
    Worlds <- Tagging
    RootReqs <- Exact
    MaxRestarts = 200
    MaxComparators = 32
CHECK_DEADLOCK FALSE
INVARIANTS
    AlwaysSolved
    DependenciesMet
