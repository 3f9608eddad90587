SPECIFICATION Spec
CONSTANTS
    Callers = {c1}
    Plans = {p1}
    ApprovalIds = {a1, a2}
    NoPlan = NoPlan
    NoApproval = NoApproval
    Free = Free
    MaxRequests = 2
    MaxRestarts = 0
INVARIANT FinalStatusMatchesRouter
CHECK_DEADLOCK FALSE
