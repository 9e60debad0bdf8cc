CONSTANTS
    Runners = {r1, r2}
    N = 2
    Requests = {q1, q2}
    Proposals = {x, y}
    MaxRounds = 2
    None = None
SYMMETRY Symmetry
SPECIFICATION RunnerSpec
INVARIANTS ProviderCallsAreBounded CalledWindowsStayClaimed ReportsAreTrue
