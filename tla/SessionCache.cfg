SPECIFICATION Spec
SYMMETRY Symmetry
CONSTANTS
    Nodes = {n1, n2}
    Requests = {r1, r2}
    Updates = {u1, u2}
    Paths = {"browser", "admin", "sid", "sub", "rp", "refresh", "login"}
    NoEntry = NoEntry
    NoSession = NoSession
    L1Ttl = 1
    IdleTimeout = 2
    AbsoluteEnd = 3
    MaxFaults = 1
    MaxTime = 3
    MaxBegun = 3
    CrowdedTime = 2
    CrowdedPaths = {"sid", "refresh"}
CONSTRAINT BegunBound
INVARIANTS TypeOK LogoutClearsBothLayers LogoutReachesEveryProcess LiveSessionIsServed
    NoAssertionPastTheDeadlines
PROPERTY RevocationIsFinal
CHECK_DEADLOCK FALSE
