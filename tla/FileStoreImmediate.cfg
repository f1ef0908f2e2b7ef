SPECIFICATION Spec
CONSTANTS
    Writers = {w1, rv}
    Revokers = {rv}
    Creators = {c1}
    Rotators = {r1, r2}
    Txns = {t1}
    Opener = opener
    Flusher = flusher
    Stoppers = {}
    Cancellable = {}
    NoOne = NoOne
    NoHash = NoHash
    NoTmp = NoTmp
    Mode = "immediate"
    LegacyFile = TRUE
    MaxFaults = 1
    MaxCrashes = 1
INVARIANTS TypeOK AckedWritesDurable FailedChangeLeavesNoTrace RotationAcceptedOnce
PROPERTY RevocationPermanent
CHECK_DEADLOCK FALSE
