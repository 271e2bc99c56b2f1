SPECIFICATION FairSpec
CONSTANTS
    r1 = r1
    r2 = r2
    Requests = {r1, r2}
    Mixes <- TwoMixes
    Batches = {1, 2}
    MaxQueued = 1
    MaxHooks = 2
    MaxPrompts = 2
INVARIANTS
    BoundaryHonest
    PumpFaithful
PROPERTIES StopEnds
CHECK_DEADLOCK FALSE
