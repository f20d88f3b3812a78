SPECIFICATION Spec
CONSTANTS
    Handlers = {h1}
    Principals = {p1}
    Policies = {view}
    Namespaces = {ns1}
    Roles = {"view", "admin"}
    RoleOf <- DistinctRoles
    NoRole = NoRole
    NoEntry = NoEntry
    Serialized = TRUE
    Failures = FALSE
    view = view
    admin = admin
    viewAlias = viewAlias
    unsupported = unsupported
PROPERTY DisassociateRemovesBindings
