CONSTANTS
    e1 = e1
    e2 = e2
    acme = acme
    zeta = zeta
    Editors <- MCEditors
    Orgs = {acme}
    States <- MCStates
    MaxPages = 2
    MaxSaves = 4
    MaxRevisions = 2
    MaxHops = 2
    LastSecond = 2
SPECIFICATION Spec
SYMMETRY EditorSymmetry
INVARIANT NoCycleUnderSingleWriter
CHECK_DEADLOCK FALSE
