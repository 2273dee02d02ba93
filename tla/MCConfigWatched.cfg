SPECIFICATION FairSpec
CONSTANTS
    Configs = {default, other, legacy, silent}
    Legacy = {legacy}
    other = other
    silent = silent
    Clamp <- MCClamp
    Default = default
    Absent = Absent
    Corrupt = Corrupt
    None = None
    MaxEdits = 3
PROPERTIES
    WatchedChangesArrive
CHECK_DEADLOCK FALSE
