\* Two nodes with a Redis each, two requests at a time.
CONSTANTS
    w1 = w1
    w2 = w2
    c1 = c1
    c2 = c2
    NoCache = NoCache
    Workers = {w1, w2}
    Caches = {c1, c2}
    MaxVersion = 2
    MaxTime = 3
    TTL = 1
    ExpiresAt = 3
SPECIFICATION Spec
SYMMETRY Symmetric
INVARIANTS
    TypeOK
    BoundedStaleness
    RevokedAtOnce
    SnapshotsBounded
PROPERTIES
    ImplementsAuthority
CHECK_DEADLOCK FALSE
