SPECIFICATION FairSpec
CONSTANTS
    Configs <- MCConfigs
    AgeCap = 2
    UptimeCap = 2
    MaxJumps = 1
    NoState = NoState
INVARIANTS
    TypeOK
    BreakerMemory
    ReportedRestartIsCounted
PROPERTIES
    OkMeansWritten
    BreakerRecovers
