CONSTANTS
    Writers = {w1}
    Revokers = {}
    Creators = {c1}
    Rotators = {r1}
    Txns = {t1}
    Opener = opener
    Flusher = flusher
    Stoppers = {stop}
    Cancellable = {}
    NoOne = NoOne
    NoHash = NoHash
    NoTmp = NoTmp
    Mode = "interval"
    LegacyFile = TRUE
    MaxFaults = 1
    MaxCrashes = 1
CHECK_DEADLOCK FALSE
SPECIFICATION FairSpec
INVARIANT LagIsCovered
PROPERTY AckedWritesReachDisk
