SPECIFICATION HostSpec
CONSTANTS
    MaxLetters = 2
    PageSize = 1
    MaxUpsets = 1
    MaxAhead = 1
    Budget = 2
    Hosts = {h1, h2}
    MaxWrites = 3
    LockAttempts = 2
    MaxStoreFaults = 1
    Plugins = {p1, p2}
    MaxDaemons = 2
    MaxLifeFaults = 1
INVARIANTS
    AnnouncedTwiceOnlyInARace
    SecondDaemonIsExplained
PROPERTIES
    MailIsAnnounced
    WatcherKeepsThePromise
    StoreIsAtomic
    RegistrationHeals
CHECK_DEADLOCK FALSE
