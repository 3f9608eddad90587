SPECIFICATION Spec
CONSTANTS
    Callers = {c1}
    Plans = {p1}
    ApprovalIds = {a1, a2, a3}
    NoPlan = NoPlan
    NoApproval = NoApproval
    Free = Free
    MaxRequests = 3
    MaxRestarts = 0
PROPERTY AnswerIsTheExecution
CHECK_DEADLOCK FALSE
