SPECIFICATION FairMonitorSpec
CONSTANTS
    Configs <- MCEnabled
    AgeCap = 2
    UptimeCap = 1
    MaxJumps = 1
    NoState = NoState
    InitialDelay = 1
    MaxReloads = 1
PROPERTIES
    PollsForever
