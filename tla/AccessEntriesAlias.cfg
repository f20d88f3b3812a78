SPECIFICATION Spec
CONSTANTS
    Handlers = {h1}
    Principals = {p1}
    Policies = {view, viewAlias}
    Namespaces = {ns1}
    Roles = {"view", "admin"}
    RoleOf <- AliasedRoles
    NoRole = NoRole
    NoEntry = NoEntry
    Serialized = TRUE
    Failures = TRUE
    view = view
    admin = admin
    viewAlias = viewAlias
    unsupported = unsupported
INVARIANT RecordedIsBound
