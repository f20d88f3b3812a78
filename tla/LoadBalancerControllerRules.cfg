SPECIFICATION FairSpec
CONSTANTS
    Services = {s1}
    None = None
    Foreign = Foreign
    Edits = {}
    Addresses = {x}
    MaxChanges = 1
    MaxFailures = 0
PROPERTY ClaimsAsInstalled
CHECK_DEADLOCK FALSE
