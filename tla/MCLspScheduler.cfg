SPECIFICATION FairSpec
CONSTANTS
    a = a
    b = b
    u = u
    Docs = {a, b, u}
    Roots = {1, 2}
    RootOf <- ProjectAndScratch
    Scratch = {u}
    Requests = {q1, q2}
    MaxPending = 1
    MaxRetries = 2
    MaxRevision = 2
INVARIANTS
    AnsweredOnce
    FindingsCurrent
PROPERTY
    WorkEnds
