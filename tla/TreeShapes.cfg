SPECIFICATION Spec
CONSTANTS
    Documents <- MCDocuments
    Blocks <- AllKinds
    MaxBlocks = 5
    MaxDepth = 3
INVARIANTS
    TypeOK
    ValidTree
    NearestValidAncestor
    TextInPlace
    NothingLost
