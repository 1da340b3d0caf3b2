SPECIFICATION FairSpec
CONSTANTS
    Hosts = {h1}
    MaxMail = 2
    MaxLines = 3
    MaxPerRound = 1
    PageLimit = 1
    MaxExits = 1
    MaxBreaks = 1
    MaxCloses = 1
INVARIANTS
    ToldOncePerLife
PROPERTIES
    LedgeredIsSettled
    ConsumerKeepsThePromise
