SPECIFICATION AnalysisSpec
CONSTANTS
    Cases <- MCCases
    Outlines <- MCOutlines
    MaxCited = 1
    Unset = Unset
CHECK_DEADLOCK FALSE
INVARIANTS
    EveryEventIsReadOnce
    ReadingsStayGrounded
    MeaningSurvives
