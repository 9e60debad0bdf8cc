SPECIFICATION Spec
CONSTANTS
    p1 = p1
    p2 = p2
    p3 = p3
    t1 = t1
    t2 = t2
    c1 = c1
    c2 = c2
    None = None
    Procs = {p1, p2, p3}
    Roles <- StageRoles
    Texts = {t1, t2}
    ChunkIds = {c1, c2}
    ChunksOf <- Plans
    MaxRev = 2
    Rivals = 0
CHECK_DEADLOCK FALSE
INVARIANTS
    CurrentIsComplete
    ResultsAreTrue
    UnmovedIsCurrent
