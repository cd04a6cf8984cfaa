SPECIFICATION FairSpec
CONSTANTS
    Workers = {w1, w2}
    Requests = {r1, r2, r3}
    Names = {n1}
    Contents = {c1, c2}
    None = None
INVARIANTS
    ContentUniquePerDocument
    VersionsComplete
    ResponseTruthful
PROPERTY LockReleased
