SPECIFICATION Spec
CONSTANTS
    Workers = {w1}
    Requests = {r1, r2, r3, r4}
    Names = {n1, n2}
    Contents = {c1, c2, c3}
    None = None
SYMMETRY Interchangeable
INVARIANTS
    TypeOK
    MatchedAgainstPredecessor
    IdempotentAnswers
PROPERTY ImplementsVersionLog
