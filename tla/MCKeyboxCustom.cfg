SPECIFICATION KeyboxSpec
CONSTANTS
    Keyboxes = {k1, k2, gen}
    Sound = {k1, k2}
    Generated = gen
    Installed = {k1}
    Sources <- TheSources
    Preferred = "custom"
    CustomUrl = FALSE
    BootRetries = 2
    KeyboxDaemon = daemon
    KeyboxCommands = {command}
    Nil = Nil
    MaxOffers = 1
    MaxCommands = 0
    MaxFaults = 0
PROPERTIES CustomStaysUntouched
