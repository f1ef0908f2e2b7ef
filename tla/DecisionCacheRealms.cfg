SPECIFICATION DecisionSpec
CONSTANTS
    MaxTime = 2
    Realms = {"r1", "r2"}
    Processes = {p}
    PepChecks = {x1, x2}
    Registrations <- MCRegistrations
    Inputs <- MCInputs
    Requests <- MCRequests
    Bundle <- MCBundle
    Fallback <- MCFallback
    PositiveTtl <- MCPositiveTtl
    NegativeTtl <- MCNegativeTtl
    FailOpen <- MCFailOpen
    RiskyKeys = {"k2"}
    Shared = Shared
    NoRevision = NoRevision
INVARIANT
    OldQuarantineStaysInItsRealm
CHECK_DEADLOCK FALSE
