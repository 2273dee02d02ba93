SPECIFICATION GraceSpec
CONSTANTS
    Configs <- MCConfigs
    AgeCap = 2
    UptimeCap = 2
    MaxJumps = 0
    NoState = NoState
PROPERTIES
    GraceBeforeRestart
