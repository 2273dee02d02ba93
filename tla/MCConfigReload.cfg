SPECIFICATION FairSpec
CONSTANTS
    Configs = {default, other, legacy, silent}
    Legacy = {legacy}
    other = other
    silent = silent
    Clamp <- MCClamp
    Default = default
    Absent = Absent
    Corrupt = Corrupt
    None = None
    MaxEdits = 4
INVARIANTS
    TypeOK
    InStep
    WatchFollowsFile
PROPERTIES
    Settles
    ChangesArrive
CHECK_DEADLOCK FALSE
