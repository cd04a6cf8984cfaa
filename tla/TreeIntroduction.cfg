SPECIFICATION Spec
CONSTANTS
    Documents <- MCDocuments
    Blocks <- AllKinds
    MaxBlocks = 3
    MaxDepth = 10
INVARIANT
    IntroductionKept
