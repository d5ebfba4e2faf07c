CONSTANTS
    Daemon = {d1}
    Client = {c1, c2}
    Used = {"install", "list"}
    MaxRequests = 2
    MaxProgress = 1
    Capacity = 1
    Stalling = {}
    Supervised = TRUE
    Faults = {"panic", "kill", "disconnect", "newer_client"}
    None = None
    Stale = Stale
SPECIFICATION FairSpec
INVARIANT AnswersInStep
INVARIANT OkMeansDone
PROPERTY EveryCallReturns
PROPERTY ThreadsEnd
CHECK_DEADLOCK FALSE
