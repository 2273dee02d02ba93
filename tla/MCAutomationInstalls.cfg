SPECIFICATION AloneSpec
CONSTANTS
    Apps = {app, system}
    ThirdParty = {app}
    Unwanted = {system}
    UserLists <- TheUserLists
    app = app
    system = system
    Daemon = daemon
    Commands = {}
    None = None
    MaxChanges = 2
    MaxFailures = 1
PROPERTIES
    InstallsArrive
