\* Two workers compete for the wide layers; every agent may be tried twice.
SPECIFICATION FairSpec
CONSTANTS
    Nodes <- Agents
    Graphs <- MCGraphs
    MaxRetries = 1
    MaxWorkers = 2
INVARIANTS
    TypeOK
    DependencyOrder
    FailureContained
    SkipJustified
    NothingLeftBehind
    MonitorAgrees
    CompletedIsExplained
PROPERTIES
    SettledStaysSettled
    Terminates
CHECK_DEADLOCK FALSE
