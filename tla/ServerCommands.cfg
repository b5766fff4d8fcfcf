CONSTANTS
    c1 = c1
    c2 = c2
    p1 = p1
    p2 = p2
    Callers <- TwoCallers
    Polls <- NoPolls
    PageLimit = 1
    Capacity = 1
    MaxRuns = 2
    MaxLines = 1
    MaxLate = 0
SPECIFICATION FairSpec
INVARIANTS
    OneServerAtATime
    StopMeansDead
PROPERTY
    CommandsEnd
