SPECIFICATION Spec
CONSTANTS
    Package <- MCPackage
    File <- MCFile
    Payload <- MCPayload
    None = None
    Foreign = Foreign
    ForeignAt = {}
    Faults = {"save"}
    CrashAt <- AllSteps
INVARIANTS
    DatabasesAgree
    FailureRestores
