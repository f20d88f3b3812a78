SPECIFICATION Spec
CONSTANTS
    Processes = {p1, p2}
    Names = {a, b}
    Principals = {alice}
    UserEntry = UserEntry
    None = None
    Unreadable = Unreadable
    MaxClusters = 3
    MaxCommands = 4
SYMMETRY Symmetry
INVARIANTS MergedIsReachable LeadsToItsName
CHECK_DEADLOCK FALSE
