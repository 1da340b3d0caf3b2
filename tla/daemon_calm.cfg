SPECIFICATION Spec
CONSTANTS
    MaxMail = 2
    PageLimit = 1
    MaxPages = 2
    PendingCap = 1
    MaxCrashes = 0
    MaxFaults = 0
    MaxLost = 0
    MaxMutes = 1
    MaxCloses = 1
INVARIANTS
    EveryLossIsExplained
PROPERTIES
    PersistedCursorIsMonotone
