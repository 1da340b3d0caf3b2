SPECIFICATION Spec
CONSTANTS
    Hosts = {h1, h2}
    MaxMail = 2
    MaxLines = 2
    MaxPerRound = 1
    PageLimit = 1
    MaxExits = 1
    MaxBreaks = 1
    MaxCloses = 0
INVARIANTS
    CursorCoversTheSettled
    NothingNewIsSwallowed
