\* Two threads for two collectors: their triggers can hold the whole pool.
SPECIFICATION FairSpec
CONSTANTS
    Collectors = {"Simulation", "SNMP"}
    Simulation = {"Simulation"}
    Priority <- MCPriority
    InitialMode = "FAILOVER"
    Modes = {"FAILOVER", "HYBRID"}
    FailedAfter = 1
    FailoverAfter = 3
    Loops = {"poll-1"}
    MaxWorkers = 2
    MaxRetries = 1
    Futures = {1, 2, 3, 4}
INVARIANTS
    TypeOK
    RunningIsCollecting
    EnabledMatchesMode
PROPERTIES
    OnlyTheModeCollects
    CyclesEnd
    StoppedIsQuiet
CHECK_DEADLOCK FALSE
