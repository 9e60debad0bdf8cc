CONSTANTS
    Writers = {w1, w2, w3}
    Ids = {i1}
    Contents = {x, y}
    None = None
    Torn = Torn
SPECIFICATION FairSpec
INVARIANTS RepliesAreTrue
PROPERTIES ImplementsWriteOnce PutsReturn
