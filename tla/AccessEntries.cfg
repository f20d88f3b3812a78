SPECIFICATION Spec
CONSTANTS
    Handlers = {h1}
    Principals = {p1}
    Policies = {view, admin, unsupported}
    Namespaces = {ns1, ns2}
    Roles = {"view", "admin"}
    RoleOf <- DistinctRoles
    NoRole = NoRole
    NoEntry = NoEntry
    Serialized = TRUE
    Failures = TRUE
    view = view
    admin = admin
    viewAlias = viewAlias
    unsupported = unsupported
SYMMETRY Symmetry
INVARIANTS RecordedIsBound NoUnexplainedAccess
PROPERTY RemovalIsWholeOrRepeatable
