SPECIFICATION ServicesSpec
SYMMETRY Symmetry
CONSTRAINT ClockBound LastReadsCache AccessBound MailBound
CONSTANTS
    MaxTime = 4

    Setups <- MCSetups
    Grants = {g1}
    Calls = {x1, x2}
    Approvals = {y1, y2}
    Users = {u1, u2}
    RealmUsers = {u1, u2}
    NoCall = NoCall
    NoGrant = NoGrant
    NoUser = NoUser
    Never = Never
    TTL = 1
    Interval = 1
    SlowDown = 1
    MaxInterval = 2
    MaxFaults = 1

    Streams = {s1, s2}
    Appends = {x1, x2}
    JobStream = s1
    ArchiveNote = ArchiveNote
    ReadyNote = ReadyNote
    NoHash = NoHash
    NoStream = NoStream
    Retention = 1
    ListCap = 2

    Jobs = {x1, x2}
    NoDelivery = NoDelivery
    EventLimit = 1
    MaxDeliveries = 2
    MaxEvents = 2

    Presentations = {x1, x2}
    JtiTtl = 1
    NonceTtl = 3
    MaxProofAge = 2
    MaxSkew = 1

    Issuers = {x1, x2}
    Redeemers = {y1, y2}
    Writers = {w}
    Purposes = {"verification", "link", "reset"}
    Addresses = {m1, m2}
    NoMail = NoMail
    MaxIssues = 1
    IssueWindow = 2
    MailTtl = 1
    MaxTries = 1

    Requesters = {x1, x2, w}
    Reviews = {v}
    Approvers = {u1}
    Members = {m1, m2}
    RequestExpiry = 2
    Lifetimes = {1}

    Realms = {"r1", "r2"}
    Processes = {p}
    PepChecks = {x1, x2, w}
    Third = w
    Registrations <- MCRegistrations
    Inputs <- MCInputs
    Requests <- MCRequests
    Bundle <- MCBundle
    Fallback <- MCFallback
    PositiveTtl <- MCPositiveTtl
    NegativeTtl <- MCNegativeTtl
    FailOpen <- MCFailOpen
    RiskyKeys = {"k2"}
    Shared = Shared
    NoRevision = NoRevision

    Usersets = {"root", "a", "b", "c"}
    Root = "root"
    Subject = "subject"
    Relations <- MCRelations
    MaxDepth = 2
    MaxEdits = 2
INVARIANTS
    ServicesTypeOK
    TokensOnlyForTheApprover
    EveryChainVerifies PurgeReadyIsArchivedUndisturbed
    NothingUndeliveredIsDropped
    ReplayIsRefused
    MailsAreLimited
    RefusalStands
    AnswersAreOfThePolicy
    CheckFollowsTuples
PROPERTIES
    EachGrantClaimedOnce
CHECK_DEADLOCK FALSE
