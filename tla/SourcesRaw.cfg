CONSTANTS
    n1 = n1
    n2 = n2
    r1 = r1
    r2 = r2
    Clients = {"c"}
    Names <- TwoNames
    Attempts <- TwoAtOnce
    Burst = 2
    Rate = 1
    MaxFailures = 2
    MaxLockout = 1
    SprayFailures = 3
    SprayWindow = 2
    MaxTracked = 1
    MaxTime = 1
    Hosts = {"h1"}
    Tenants = {"t1", "t2"}
    Disks <- SomeDisks
    Requests <- SomeRequests
    EditorOf = {"cms", "t1"}
    MaxChanges = 1
    Templates = {"page"}
    Partials = {"part"}
    Modules = {"m"}
    Renders <- TwoAtOnce
    Uses <- UsesOf
    Bodies <- SomeBodies
    Needs <- NeedsTwice
    MaxDepth = 1
    MaxLoads = 0
    MaxMoments = 2
    MaxEdits = 0
SPECIFICATION ServingSpec
INVARIANT
    SourcesNeverRaw
