SPECIFICATION Spec
CONSTANTS
    Package <- MCPackage
    File <- MCFile
    Payload <- MCPayload
    None = None
    Foreign = Foreign
    ForeignAt = {}
    Faults = {"hook"}
    CrashAt = {}
INVARIANTS
    PostInstallAfterPersist
