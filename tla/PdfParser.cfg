SPECIFICATION FairSpec
CONSTANTS
    Parses = {p1, p2}
    Main = p1
    Blank = Blank
    PoolSize = 1
    SampleLimit = 2
    Uploads <- SmallUploads
INVARIANTS
    TypeOK
    ResultComplete
    NothingVanishes
    ColumnsInOrder
PROPERTIES
    ParseEnds
    ThreadsFreed
