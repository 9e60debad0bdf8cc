SPECIFICATION Spec
CONSTANTS
    Candidates = {1, 2, 3, 4}
    Indexes <- LateCast
    Keys = {"li bai", "li po", "li", "old man"}
    Tokens <- TokensOfNames
    StrongKeys = {"li bai", "li po", "old man"}
    Excluded = {}
    HardSets <- Hard
    Selections <- Citations
    MaxPairs = 2
    MaxCandidates = 3
    MaxRounds = 2
CHECK_DEADLOCK FALSE
INVARIANTS
    MapHonoursDecisions
    IdsFollowTheText
    ProviderIsAskedWhatIsOpen
    RunsVerify
