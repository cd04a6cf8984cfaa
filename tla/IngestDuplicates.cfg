SPECIFICATION Spec
CONSTANTS
    Workers = {w1, w2}
    Requests = {r1, r2}
    Names = {n1}
    Contents = {c1}
    None = None
INVARIANT NoSilentDuplication
