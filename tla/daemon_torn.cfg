SPECIFICATION Spec
CONSTANTS
    MaxMail = 1
    PageLimit = 1
    MaxPages = 2
    PendingCap = 1
    MaxCrashes = 1
    MaxFaults = 0
    MaxLost = 0
    MaxMutes = 0
    MaxCloses = 0
INVARIANT CrashDropsNothing
