SPECIFICATION Spec
CONSTANTS
    p1 = p1
    p2 = p2
    p3 = p3
    q1 = q1
    q2 = q2
    None = None
    Procs = {p1, p2, p3}
    Inputs <- MCInputs
    Requests = {q1, q2}
    MaxRounds = 2
    MaxAttempts <- MCAttempts
    MaxRev = 3
CHECK_DEADLOCK FALSE
INVARIANTS
    ResultsAreTrue
    ProviderCallsAreNeeded
    PlansReadTheText
    ExtractionsAreGrounded
