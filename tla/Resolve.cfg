SPECIFICATION Spec
CONSTANTS
    Package <- MCPackage
    Virtual = {"cap"}
    MaxVersion = 3
    Prerelease = {2}
    Root = "app"
    Worlds <- DiamondsAndKnots
    RootReqs <- Exact
    MaxRestarts = 10
    MaxComparators = 32
CHECK_DEADLOCK FALSE
INVARIANTS
    TypeOK
    DependenciesInPlace
    SolvedIfSolvable
    OrderNeverRefused
PROPERTIES
    RestartsNarrow
    ResolutionEnds
