\* A risk that resolves, one that only updates, one that creates.
SPECIFICATION ChainSpec
CONSTANTS
    Publishers = {"p1", "p2"}
    Operators = {"op"}
    Interfaces = {"eth0"}
    Types = {"congestion", "flap"}
    Risks = {10, 22, 90}
    Targets = {"CLOSED", "OPEN", "MITIGATED"}
    Deployments <- MCDeployments
    MaxIncidents = 2
    MaxAdvice = 2
INVARIANTS
    StatusIsExplained
    OneRepositoryNeverCollides
    ShutdownIsFinal
    ChainIsSupported
    OneAdviceUnlessCrowded
CHECK_DEADLOCK FALSE
