\* Liveness, so no symmetry: two threads compete for the lock over one plan.
SPECIFICATION FairSpec
CONSTANTS
    Callers = {c1, c2}
    Plans = {p1}
    ApprovalIds = {a1, a2}
    NoPlan = NoPlan
    NoApproval = NoApproval
    Free = Free
    MaxRequests = 2
    MaxRestarts = 0
PROPERTIES
    EveryCallReturns
CHECK_DEADLOCK FALSE
