SPECIFICATION FairSpec
CONSTANTS
    MaxMail = 0
    MaxBreaks = 1
    Unanswered = TRUE
PROPERTY HandshakeSettles
CHECK_DEADLOCK FALSE
