CONSTANTS
    Writers = {w1, rv}
    Revokers = {rv}
    Creators = {c1}
    Rotators = {r1, r2}
    Txns = {}
    Opener = opener
    Flusher = flusher
    Stoppers = {}
    Cancellable = {w1, r1}
    NoOne = NoOne
    NoHash = NoHash
    NoTmp = NoTmp
    Mode = "immediate"
    LegacyFile = FALSE
    MaxFaults = 0
    MaxCrashes = 0
CHECK_DEADLOCK FALSE
SPECIFICATION Spec
INVARIANTS AckedWritesDurable
