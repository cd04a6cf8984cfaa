SPECIFICATION FairSpec
CONSTANTS
    Calls = {c1, c2}
    Clients = {k1}
    ClientOf <- Shared
    Rpm = 2
    Window = 4
    MaxRetries = 2
    TimeoutSeconds = 1
    MaxPieces = 1
    None = None
INVARIANTS
    TypeOK
    RateLimited
    AllRetriesUsed
PROPERTY CallsEnd
