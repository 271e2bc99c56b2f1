SPECIFICATION FileSpec
CONSTANTS
    w1 = w1
    w2 = w2
    w3 = w3
    p1 = p1
    p2 = p2
    Writers = {w1, w2, w3}
    Processes = {p1, p2}
    ProcessOf <- TwoAndOne
    LockAttempts = 2
    MaxCommits = 1
    NoLock = NoLock
    NoFile = NoFile
SYMMETRY Alike
INVARIANTS
    SerializedUntilRobbed
    AckedWritesKept
    ComparedStillCurrent
    IntactUntilShared
CHECK_DEADLOCK FALSE
