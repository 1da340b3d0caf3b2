SPECIFICATION RecordsBoundSpec
CONSTANTS
    MaxSpaces = 2
    Agents = {1, 2, 3}
    OldAgents = {1}
    Jobs = {1, 2}
    MaxBegun = 3
    RecordsBudget = 3
    MaxTurns = 1
    MaxMishaps = 1
PROPERTY RemovalIsOfOneRecord
CHECK_DEADLOCK FALSE
