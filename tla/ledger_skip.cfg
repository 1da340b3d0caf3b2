SPECIFICATION Spec
CONSTANTS
    Hosts = {h1}
    MaxMail = 2
    MaxLines = 3
    MaxPerRound = 1
    PageLimit = 2
    MaxExits = 0
    MaxBreaks = 0
    MaxCloses = 0
PROPERTY RestIsSelectedNext
