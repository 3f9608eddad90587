\* A tick of 150 seconds, the hour shortened to two hold times and its limit to two
\* moves: two moves a hold time apart leave the limit alone to block a third, and the
\* bound on the records leaves room for one more than the limit.
SPECIFICATION Spec
CONSTANTS
    Providers = {"ISP-A", "ISP-B"}
    Primary = "ISP-A"
    Metrics <- MCMetrics
    Pasts <- MCPasts
    Durations = {0, 29, 30}
    Recoveries = {59, 60}
    MinDegradation = 30
    MinRecovery = 60
    Delays = {1, 3}
    Cooldown = 1
    Hold = 2
    Hour = 4
    MaxPerHour = 2
    MaxRecords = 3
INVARIANTS
    NoFlapping
    MachineFollowsRecords
    NoContradictoryAdvice
    HealthyIsLeftAlone
