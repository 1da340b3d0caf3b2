SPECIFICATION MachineSpec
CONSTANTS
    MaxFrames = 4
    Ceiling = 2
    Sessions = {1, 2}
    MaxWakes = 1
    Window = 2
    MaxHours = 3
    MaxLetters = 3
    MaxStumbles = 1
    MaxWorks = 3
    MaxMarkFaults = 1
    Pods = {1, 2}
    Requests = {r1, r2}
    MaxAsked = 2
    MaxKeyMishaps = 1
    Peers = {a1, a2}
    Askers = {b1, b2}
    Ttl = 2
    Patience = 1
    Places = 1
    MaxTime = 3
INVARIANTS
    TextsAreHeard
    WakesArePaidFor
    KeysAreExplained
    AnswersAreYoung
PROPERTIES
    MarksAreExplained
CHECK_DEADLOCK FALSE
