SPECIFICATION Spec
SYMMETRY Symmetry
CONSTANTS
    Nodes = {n1, n2}
    Requests = {r1}
    Updates = {u1, u2}
    Paths = {"saml", "sid"}
    NoEntry = NoEntry
    NoSession = NoSession
    L1Ttl = 1
    IdleTimeout = 2
    AbsoluteEnd = 2
    MaxFaults = 1
    MaxTime = 2
    MaxBegun = 3
    CrowdedTime = 2
    CrowdedPaths = {"saml", "sid"}
INVARIANT TwoLogoutsClear
CHECK_DEADLOCK FALSE
