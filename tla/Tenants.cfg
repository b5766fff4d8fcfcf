CONSTANTS
    h1 = h1
    h2 = h2
    t1 = t1
    a = a
    r1 = r1
    r2 = r2
    Handlers <- TwoHandlers
    Tenants <- OneTenant
    Hosts <- OneHost
    Roots <- TwoRoots
    HostLists <- ListOrNone
    MaxOrgs = 4
SPECIFICATION Spec
SYMMETRY Symmetry
INVARIANTS
    HostsServed
    SnapshotCurrent
PROPERTY
    StartsEmpty
