SPECIFICATION PanelSideSpec
CONSTANTS
    w1 = w1
    w2 = w2
    d1 = d1
    d2 = d2
    None = None
    ListSets <- MCListSets
    Workspaces = {w1, w2}
    Folders = {"all", "unread"}
    Groups = {"g"}
    Cwds = {d1, d2}
    WorkspaceOf <- MCWorkspaceOf
    PanelLetters = {1, 2}
    Home <- MCHome
    MaxPanelAsks = 2
    MaxMarks = 2
    MaxDrafts = 2
    MaxKeys = 3
    MaxTouches = 3
    MaxSpaces = 2
    Agents = {1, 2, 3}
    OldAgents = {1}
    Jobs = {1, 2}
    MaxBegun = 3
    RecordsBudget = 3
    MaxTurns = 1
    MaxMishaps = 1
    Sessions = {s1, s2}
    MaxArrivals = 2
    MaxLimit = 2
INVARIANTS
    ShownReadIsRead
    RetriesDeliverOnce
    CredentialsAreKept
    HiddenIsExplained
PROPERTIES
    FittingListsStay
    OthersAreLeftAlone
CHECK_DEADLOCK FALSE
