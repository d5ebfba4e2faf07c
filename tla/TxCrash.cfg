SPECIFICATION Spec
CONSTANTS
    Package <- MCPackage
    File <- MCFile
    Payload <- MCPayload
    None = None
    Foreign = Foreign
    ForeignAt = {"f1", "f2"}
    Faults = {"extract", "hash", "hook", "rename", "undo"}
    CrashAt <- NotInTheGaps
INVARIANTS
    DatabasesAgree
    PayloadRecoverable
PROPERTIES
    OthersUntouched
