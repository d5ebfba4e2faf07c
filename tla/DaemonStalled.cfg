CONSTANTS
    Daemon = {d1}
    Client = {c1, c2}
    Used = {"install", "list"}
    MaxRequests = 1
    MaxProgress = 2
    Capacity = 1
    Stalling = {c2}
    Supervised = TRUE
    Faults = {}
    None = None
    Stale = Stale
SPECIFICATION FairSpec
CHECK_DEADLOCK FALSE
PROPERTY EveryCallReturns
