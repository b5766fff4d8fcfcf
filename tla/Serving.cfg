CONSTANTS
    n1 = n1
    n2 = n2
    r1 = r1
    r2 = r2
    Clients = {"c"}
    Names <- TwoNames
    Attempts <- TwoAtOnce
    Burst = 2
    Rate = 1
    MaxFailures = 2
    MaxLockout = 2
    SprayFailures = 3
    SprayWindow = 2
    MaxTracked = 1
    MaxTime = 4
    Hosts = {"h1"}
    Tenants = {"t1", "t2"}
    Disks <- SomeDisks
    Requests <- SomeRequests
    EditorOf = {"cms", "t1"}
    MaxChanges = 1
    Templates = {"page"}
    Partials = {"part"}
    Modules = {"m"}
    Renders <- TwoAtOnce
    Uses <- UsesOf
    Bodies <- SomeBodies
    Needs <- NeedsTwice
    MaxDepth = 1
    MaxLoads = 2
    MaxMoments = 2
    MaxEdits = 1
SPECIFICATION ServingSpec
SYMMETRY Symmetry
INVARIANTS
    LimitsHold
    AnswersHold
    ActsWhereAuthorized
    RendersHold
PROPERTY
    LockKept
