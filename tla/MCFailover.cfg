\* Two threads, two plans, two requests (calls of the pipeline or approvals
\* an operator creates by hand), one loss of the process.
SPECIFICATION Spec
SYMMETRY Symmetry
CONSTANTS
    Callers = {c1, c2}
    Plans = {p1, p2}
    ApprovalIds = {a1, a2}
    NoPlan = NoPlan
    NoApproval = NoApproval
    Free = Free
    MaxRequests = 2
    MaxRestarts = 1
INVARIANTS
    TypeOK
    ExecutionIsGoverned
    AtMostOnce
    ExecutedHasAnswer
    RouterChangeIsAccounted
PROPERTIES
    ImplementsGovernedExecution
CHECK_DEADLOCK FALSE
