SPECIFICATION FairSpec
CONSTANTS
    Tasks = {automation, health, status}
    OnDemand = {automation, status}
    BackoffTasks = {health, status}
    Intervals = {2, 3}
    Delays = {4}
    InitialDelay <- MCInitialDelay
    MaxReloads = 2
INVARIANTS
    TypeOK
    PeriodFollowsConfig
    SilentOnlyAfterBackoff
PROPERTIES
    ServedForever
