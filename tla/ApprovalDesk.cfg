SPECIFICATION DeskSpec
CONSTANTS
    ApprovalIds = {a1}
    Plans = {p1}
    NoPlan = NoPlan
INVARIANT RefusalIsBinding
CHECK_DEADLOCK FALSE
