SPECIFICATION ConsolidationSpec
CONSTANTS
    Candidates = {1, 2, 3, 4}
    Inputs <- MCInputs
    KindOf <- KindsOfEntities
    Selections <- Citations
    MaxPairs = 2
    MaxCandidates = 3
    None = None
CHECK_DEADLOCK FALSE
INVARIANTS
    IdentityHonoursDecisions
    RecordsFollowTheText
    ChangesAreKept
