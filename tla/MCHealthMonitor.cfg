SPECIFICATION FairMonitorSpec
CONSTANTS
    Configs <- MCConfigs
    AgeCap = 2
    UptimeCap = 1
    MaxJumps = 1
    NoState = NoState
    InitialDelay = 1
    MaxReloads = 1
INVARIANTS
    MonitorTypeOK
    RestartBudget
PROPERTIES
    ImplementsScheduler
    NoRestartBehindBreaker
    OpenBreakerWaits
    UnhealthyIsRechecked
