CONSTANTS
    u1 = u1
    u2 = u2
    h1 = h1
    h2 = h2
    NoUser = NoUser
    Users <- OneUser
    Handlers <- MCHandlers
    TTL = 1
    MaxTokens = 2
    MaxTime = 0
SPECIFICATION Spec
SYMMETRY Symmetry
INVARIANT
    SuccessorDiesWithFamily
