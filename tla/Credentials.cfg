SPECIFICATION Spec
CONSTANTS
    Nodes = {n1, n2}
    ServiceAccounts = {sa1}
    Roles = {r1}
    Requests = {q1, q2}
    Keys = {k1, k2, k3}
    NoKey = NoKey
    NoName = NoName
    None = None
    NodeRole = NodeRole
    MaxIDs = 2
    MaxBoots = 1
    MaxTime = 2
    TTL = 1
SYMMETRY Symmetry
INVARIANTS NeverMisattributed RevokedOnlyByName
CHECK_DEADLOCK FALSE
