CONSTANTS
    Daemon = {d1, d2, d3}
    Client = {c1}
    Used = {"ping", "install", "list"}
    MaxRequests = 2
    MaxProgress = 1
    Capacity = 1
    Stalling = {}
    Supervised = FALSE
    Faults = {}
    None = None
    Stale = Stale
SPECIFICATION Spec
INVARIANT SocketReachable
CHECK_DEADLOCK FALSE
