CONSTANTS
    Writers = {w1, rv}
    Revokers = {rv}
    Creators = {c1}
    Rotators = {r1}
    Txns = {}
    Opener = opener
    Flusher = flusher
    Stoppers = {stop}
    Cancellable = {}
    NoOne = NoOne
    NoHash = NoHash
    NoTmp = NoTmp
    Mode = "interval"
    LegacyFile = FALSE
    MaxFaults = 0
    MaxCrashes = 0
CHECK_DEADLOCK FALSE
SPECIFICATION Spec
INVARIANTS CleanShutdownPersists
