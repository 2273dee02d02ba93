SPECIFICATION MCUpkeepSpec
CONSTANTS
    Keyboxes = {k1, k2, gen}
    Sound = {k1, k2}
    Generated = gen
    Installed = {k1}
    Sources <- TheSources
    Preferred = "yurikey"
    CustomUrl = FALSE
    BootRetries = 2
    KeyboxDaemon = daemon
    KeyboxCommands = {command}
    Nil = Nil
    MaxOffers = 2
    MaxCommands = 1
    MaxFaults = 1
    k1 = k1
    k2 = k2
    gen = gen
    PublicKeys <- ThePublicKeys
    KeyType <- TheKeyType
    AnchorType <- TheAnchorType
    Certificates <- TheCertificates
    RevokedOnline <- TheRevokedOnline
    RevokedEmbedded <- TheRevokedEmbedded
    Unusable = Garbage
    Ignored = Spaces
    Garbage = Garbage
    Spaces = Spaces
    Absent = Absent
    Garbled = Garbled
    Documents <- TheDocuments
    Times = {0, 3}
    PreNtp = 1
    Stores <- TheStores
    CustomDates <- TheCustomDates
    FoundDates <- TheFoundDates
    FactoryDates <- TheFactoryDates
    OwnParts <- TheOwnParts
    Pages <- ThePages
    Table <- TheTable
    Instants <- TheInstants
    PatchRetries = 2
    MaxPatchFaults = 1
    RegionProps = {"hwc", "sku"}
    RegionValues = {"CN", "GLOBAL"}
    Booted <- TheBooted
    MaxRegionFaults = 2
    Original = original
    Texts = {text1, text2}
    StatusDaemon = daemon
    StatusCommands = {command}
    Nowhere = Nowhere
    MaxStatusRuns = 2
    MaxStatusFaults = 1
INVARIANTS
    UpkeepTypeOK
    KeyboxIsWhole
    AcceptedIsTrusted
    DatesHold
    RegionUndone
    BackupIsOriginal
PROPERTIES
    ReplacedIsKept
    KeyboxArrives
    OriginalComesBack
