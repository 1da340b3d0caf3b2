SPECIFICATION LoopsSpec
CONSTANTS
    MaxMail = 3
    MaxBreaks = 3
    Unanswered = TRUE
    Consumers = {c1, c2}
    MaxLeaseFaults = 2
    Spaces = {w1}
    Places = {a1, a2}
    MaxLives = 2
    MaxChanges = 2
    MaxPasses = 2
    MaxPosts = 1
    MaxTurnsOfFate = 2
    MaxReadFaults = 1
    Rotators = {p1, p2}
    Full = 2
    Keep = 3
    MaxLines = 6
    MaxLogFaults = 1
INVARIANTS
    BellIsWatched
    SharedRoundsAreExplained
    StrayWakersAreExplained
    LostLinesAreExplained
    ReportAgreesWithRounds
PROPERTIES
    BellIsRestored
    LettersAreFetched
    LedgersAreConsumed
    MissingMailIsFetched
CHECK_DEADLOCK FALSE
