CONSTANTS
    r1 = r1
    r2 = r2
    o1 = o1
    h1 = h1
    h2 = h2
    u1 = u1
    u2 = u2
    u3 = u3
    Registrars <- TwoRegistrars
    Operators <- OneOperator
    MaxUsers = 3
    Requests <- TwoRequests
    Users <- ThreeUsers
    NoUser = NoUser
    MaxTokens = 2
    MaxTime = 2
SPECIFICATION IdentitySpec
SYMMETRY Symmetry
INVARIANTS
    MirrorUnlessDisturbed
    SessionsEnd
PROPERTIES
    AdminRemains
    LastAdministratorStays
    ForeignSessionsUntouched
CHECK_DEADLOCK FALSE
