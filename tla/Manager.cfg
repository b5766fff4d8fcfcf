CONSTANTS
    c1 = c1
    c2 = c2
    p1 = p1
    p2 = p2
    a1 = a1
    s1 = s1
    s2 = s2
    System = System
    Callers <- OneCaller
    Polls <- TwoPolls
    PageLimit = 1
    Capacity = 2
    MaxRuns = 2
    MaxLines = 3
    MaxLate = 1
    Texts <- EditorTexts
    Fields <- EditorFields
    MaxWrites = 2
    MaxLoads = 1
    FileTexts <- DeployedTexts
    Environments <- DeployedEnvironments
    Requests <- OneClient
    Timeout = 1
    MaxEdits = 2
    MaxBoots = 2
    Pids <- TwoPids
    MaxLooks = 1
SPECIFICATION ManagerSpec
INVARIANTS
    BufferIsWindow
    ShownOnce
    NothingLost
    OnlyServersKilled
    RefusalHasReason
    MountsWhatIsEnabled
PROPERTIES
    KeepsThePromise
    SavesWhatWasShown
    ShutdownEnds
CHECK_DEADLOCK FALSE
