SPECIFICATION Spec
SYMMETRY Symmetry
CONSTANTS
    Calls = {k1, k2, k3}
    Codes = {c1}
    LinkedCodes = {c1}
    Legacy = {f0}
    NoCall = NoCall
    NoCred = NoCred
    NoDeadline = NoDeadline
    CodeExpiry = 1
    AccessTTL = 2
    RefreshTTLs = {1, 2}
    MaxTime = 1
    MaxFaults = 1
INVARIANTS TypeOK OneTokenAfterRevocation UnspentTokenIsCurrent ReuseRevokesFamily DeletedUserHasNoTokens
PROPERTIES EachCredentialClaimedOnce DeadlineIsFinal
CHECK_DEADLOCK FALSE
