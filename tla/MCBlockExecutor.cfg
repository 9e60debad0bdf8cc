CONSTANTS
    N = 3
    MaxLimit = 3
    Ordinals <- MCOrdinals
SPECIFICATION FairSpec
INVARIANTS ConcurrencyIsInvisible LowestErrorIsRaised NothingIsLeftBehind
PROPERTIES ResolutionEnds
