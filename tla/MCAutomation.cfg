SPECIFICATION MCFairSpec
CONSTANTS
    Apps = {app, system}
    ThirdParty = {app}
    Unwanted = {system}
    UserLists <- TheUserLists
    app = app
    system = system
    Daemon = daemon
    Commands = {command}
    None = None
    MaxChanges = 2
    MaxFailures = 1
INVARIANTS
    TypeOK
    KnownWereTargeted
PROPERTIES
    OthersLinesAreKept
    PendingIsApplied
    GoneAppsGo
    NewAppsArrive
