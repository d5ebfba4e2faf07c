SPECIFICATION Spec
CONSTANTS
    Package <- MCPackage
    File <- MCFile
    Payload <- MCPayload
    None = None
    Foreign = Foreign
    ForeignAt = {}
    Faults = {"rename", "restore"}
    CrashAt = {}
INVARIANTS
    FailureRestores
