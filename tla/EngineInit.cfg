SPECIFICATION FairSpec
CONSTANTS
    Processes = {p1, p2}
    Requests = {r1, r2, r3}
    LastObject = 5
    TableOf <- SmallSchema
INVARIANTS
    TypeOK
    CompleteOrUnderway
    InitialisedHasTables
PROPERTY EventuallyComplete
