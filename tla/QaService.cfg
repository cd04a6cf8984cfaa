SPECIFICATION QaSpec
CONSTANTS
    Lineages = {l1, l2}
    Hashes = {h1, h2}
    Selections = {s1}
    Generations = {g1}
    Reports = {q1, q2}
    MaxVersions = 3
    None = None
SYMMETRY Interchangeable
INVARIANTS
    TypeOK
    SourcesPinned
    AnswerMatchesRow
    ReportOfOneVersion
    RemovedStaysRemoved
    RoutesAgree
