SPECIFICATION BadgeBoundSpec
CONSTANTS
    Keys = {k1}
    Channels = {"stream", "daemon"}
    MaxNews = 1
    MaxReads = 1
    MaxFaults = 1
    GiveUpAfter = 2
    Slots = 2
INVARIANTS
    OldCountsAreExplained
PROPERTY BadgeConverges
