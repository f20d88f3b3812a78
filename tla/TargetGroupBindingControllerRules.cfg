SPECIFICATION FairSpec
CONSTANTS
    Bindings = {b1}
    Services = {A}
    Slices = {e1}
    Addresses = {x}
    Workers = {w1}
    None = None
    Edits = {}
    Owner <- SliceOwner
    Relabelling = FALSE
    MaxChanges = 1
    MaxFailures = 0
PROPERTY ConvergesAsInstalled
CHECK_DEADLOCK FALSE
