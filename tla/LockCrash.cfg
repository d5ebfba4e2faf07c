SPECIFICATION Spec
CONSTANTS
    cli1 = cli1
    cli2 = cli2
    daemon = daemon
    a = a
    b = b
    Proc <- Procs
    Daemon = {cli2}
    Package <- Packages
    CrashAt <- AnyPlace
    SaveFails = TRUE
SYMMETRY Sym
INVARIANTS
    MutualExclusion
PROPERTIES
    FreshWritesOwnRecordOnly
