SPECIFICATION Spec
CONSTANTS
    Package <- MCPackage
    File <- MCFile
    Payload <- MCPayload
    None = None
    Foreign = Foreign
    ForeignAt = {"f1"}
    Faults = {"hook"}
    CrashAt = {}
INVARIANTS
    FailureRestores
