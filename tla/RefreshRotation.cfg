CONSTANTS
    u1 = u1
    u2 = u2
    h1 = h1
    h2 = h2
    NoUser = NoUser
    Users <- OneUser
    Handlers <- MCHandlers
    TTL = 1
    MaxTokens = 3
    MaxTime = 2
SPECIFICATION Spec
SYMMETRY Symmetry
INVARIANTS
    SingleUsableToken
    ReplayDetectable
    NoSessionOutlivesAccount
PROPERTY
    ClosedForGood
