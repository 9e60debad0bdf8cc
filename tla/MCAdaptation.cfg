SPECIFICATION Spec
CONSTANTS
    Inputs <- MCInputs
    MaxRounds = 2
    None = None
    Absent = Absent
\* Callers stop when they have an answer or were refused.
CHECK_DEADLOCK FALSE
INVARIANTS
    TargetsAreSchedulable
    PlanHonoursReview
    SkeletonReplays
    AnswersWereCurrent
