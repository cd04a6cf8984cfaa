SPECIFICATION Spec
CONSTANTS
    Headings <- MCHeadings
    Bodies <- MCBodies
    Key <- MCKey
    Words <- MCWords
    Trees <- TwoSections
    MaxVersions = 3
INVARIANTS
    TypeOK
    LineageUnique
    LineageNeverReturns
    RootKeepsLineage
    IdenticalKeepsLineage
    FlaggedIfOtherSection
PROPERTY ImplementsDocumentVersions
