CONSTANTS
    e1 = e1
    e2 = e2
    acme = acme
    zeta = zeta
    Editors <- MCEditors
    Orgs <- MCOrgs
    States <- MCStates
    MaxPages = 2
    MaxSaves = 3
    MaxRevisions = 2
    MaxHops = 2
    LastSecond = 2
    Requests <- MCEditors
    Organizations <- MCOrgs
    MaxSitePages = 2
    MaxMenus = 2
    MaxItems = 1
    MaxUploads = 1
SPECIFICATION ContentSpec
SYMMETRY OrgSymmetry
INVARIANTS
    PanelShowsTheTree
    HistoryMatches
    VisitorsAgree
    NavigationOpens
    FilesMatchRows
PROPERTY
    UntouchedKeepsVisibility
CHECK_DEADLOCK FALSE
