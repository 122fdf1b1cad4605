SPECIFICATION Spec
CONSTANTS
    Tokens = {k1, k2}
    Tasks = {t1, t2}
    NoToken = NoToken
    AccessTtl = 2
    RefreshTtl = 3
    Horizon = 7
    MaxRequests = 2
    MaxFailures = 1
SYMMETRY Symmetry
INVARIANT TrailBounded
PROPERTY RevokedIsRefused
CHECK_DEADLOCK FALSE
