SPECIFICATION Spec
CONSTANTS
    Package <- MCPackage
    File <- MCFile
    Payload <- MCPayload
    None = None
    Foreign = Foreign
    ForeignAt = {}
    Faults = {"extract", "hash", "hook", "rename"}
    CrashAt = {"extract", "check", "pre_install", "pre_remove"}
INVARIANTS
    FailureRestores
    SuccessPersisted
PROPERTIES
    AtomicSpec
    TransactionEnds
