CONSTANTS
    a = a
    c = c
    k = k
    old = old
    new = new
    damaged = damaged
    local = local
    broken = broken
    b1 = b1
    b2 = b2
    b2r = b2r
    b1x = b1x
    b3 = b3
    p1 = p1
    p1x = p1x
    p2 = p2
    p3 = p3
    None = None
    Torn = Torn
    Stale = Stale
    Unreadable = Unreadable
    Proc = {cli, daemon}
    Package = {a, c}
    Build = {b1, b2, b2r, b1x, b3}
    Payload = {p1, p1x, p2, p3}
    Doc = {old, new, damaged, local, broken}
    Signer = {k}
    Trusted = {k}
    RetryAttempts = 2
    CleanRacing = TRUE
    Archive <- MCArchive
    Listing <- MCListing
    Signature <- MCSignature
    Repositories <- MCRepositories
    Offers <- MCOffers
SPECIFICATION Spec
INVARIANT ReplacementReady
CHECK_DEADLOCK FALSE
