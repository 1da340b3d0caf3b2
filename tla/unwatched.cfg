SPECIFICATION WatchSpec
CONSTANTS
    MaxLetters = 1
    PageSize = 1
    MaxUpsets = 0
    MaxAhead = 0
PROPERTY EveryInboxIsWatched
CHECK_DEADLOCK FALSE
