SPECIFICATION AgentFairSpec
CONSTANTS
    Services = {s1, s2}
    None = None
    Foreign = Foreign
    Edits <- AllAtOnce
    Addresses = {x}
    MaxChanges = 2
    MaxFailures = 1
PROPERTIES ClaimsOnlyUnclaimed Claims GracefulExit Leaves
