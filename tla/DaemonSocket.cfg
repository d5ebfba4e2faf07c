CONSTANTS
    Daemon = {d1, d2, d3}
    Client = {c1}
    Used = {"ping", "install", "list"}
    MaxRequests = 2
    MaxProgress = 1
    Capacity = 1
    Stalling = {}
    Supervised = TRUE
    Faults = {"panic", "signal", "kill", "disconnect", "newer_daemon"}
    None = None
    Stale = Stale
SPECIFICATION Spec
INVARIANT SocketReachable
CHECK_DEADLOCK FALSE
