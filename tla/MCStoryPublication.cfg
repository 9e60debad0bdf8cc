SPECIFICATION Spec
CONSTANTS
    p1 = p1
    p2 = p2
    c1 = c1
    c2 = c2
    o1 = o1
    o2 = o2
    None = None
    Procs = {p1, p2}
    Configs = {c1, c2}
    Outputs = {o1}
    Calls <- ChainCalls
    MaxInput = 2
    MaxRev = 2
    MaxOrphans = 1
CHECK_DEADLOCK FALSE
INVARIANTS
    CurrentIsComplete
    OvertakenIsNotPublished
    AnswersAreTrue
    AloneIsServed
PROPERTIES
    ImplementsLineage
