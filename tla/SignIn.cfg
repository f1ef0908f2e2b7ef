SPECIFICATION SignInSpec
SYMMETRY Symmetry
CONSTRAINT ClockBound
CONSTANTS
    MaxTime = 4

    Logins = {x1, x2, z}
    Emails = {a, b}
    Accounts = {a}
    Realm = Realm
    NoWindow = NoWindow
    MaxPerAccount = 2
    MaxPerRealm = 2
    Lockout = 2
    MaxEntries = 2

    Starts = {x1, x2}
    PushCalls = {y1, y2}
    Devices = {1}
    NoChallenge = NoChallenge
    MaxSends = 1
    PushWindow = 1
    Horizon = 1
    Ttl = 2
    Cooldown = 1
    MaxAttempts = 2
    Slots = 1

    Proofs = {x1, x2, z}
    TotpIds = {1, 2}
    NoTotp = NoTotp

    Challenges = {x1, x2, z}
    Finishes = {y1, y2, z}
    Passkeys = {1}
    NoPasskey = NoPasskey
    NoChallengeTaken = NoChallengeTaken
    UserKey = UserKey
    CeremonyTtl = 1
    Capacity = 1
    MaxCount = 2

    Visits = {x1, x2}
    Completions = {y1, y2}
    ParTtl = 2
    ApprovalTtl = 1
    MaxStoreFaults = 1
INVARIANTS
    SignInTypeOK
    LimiterHoldsAndLetsGo
    PushSessionIsApproved SendsWithinQuota
    TotpStepsRise
    PasskeyProofIsFresh
    PushedRequestGivesOneCode
PROPERTIES
    LockoutYieldsOnlyToOverlap
CHECK_DEADLOCK FALSE
