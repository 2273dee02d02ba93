SPECIFICATION FairSpec
CONSTANTS
    Pids = {p1, p2, p3}
    Stops = {s1, s2}
    None = None
INVARIANTS
    TypeOK
    OneDaemon
    PidFileNamesTheDaemon
PROPERTIES
    PidFileLostToPredecessor
    StopIsObeyed
CHECK_DEADLOCK FALSE
