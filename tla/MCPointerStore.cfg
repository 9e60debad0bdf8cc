CONSTANTS
    t1 = t1
    t2 = t2
    a1 = a1
    Procs = {p1, p2}
    Revs = {1, 2}
    Targets = {t1, t2}
    Approvals = {a1}
    Approves <- MCApproves
    None = None
SPECIFICATION FairSpec
INVARIANTS HeadAlwaysLoads CurrentApprovedIsApproved
PROPERTIES ImplementsRegister CallsReturn
