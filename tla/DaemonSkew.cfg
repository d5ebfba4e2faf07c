CONSTANTS
    Daemon = {d1}
    Client = {c1, c2}
    Used = {"install", "list"}
    MaxRequests = 2
    MaxProgress = 1
    Capacity = 1
    Stalling = {}
    Supervised = TRUE
    Faults = {"newer_daemon"}
    None = None
    Stale = Stale
SPECIFICATION Spec
INVARIANT AnswersInStep
CHECK_DEADLOCK FALSE
