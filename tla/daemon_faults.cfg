SPECIFICATION Spec
CONSTANTS
    MaxMail = 2
    PageLimit = 1
    MaxPages = 2
    PendingCap = 2
    MaxCrashes = 1
    MaxFaults = 1
    MaxLost = 1
    MaxMutes = 1
    MaxCloses = 1
ACTION_CONSTRAINT WithinBudget
INVARIANTS
    AckedIsDurable
    NoDuplicateWithoutFault
    BatchIsArmed
PROPERTIES
    DaemonKeepsThePromise
