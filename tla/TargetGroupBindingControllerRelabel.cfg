SPECIFICATION FairSpec
CONSTANTS
    Bindings = {b1}
    Services = {A, B}
    Slices = {e1}
    Addresses = {x}
    Workers = {w1}
    None = None
    Edits <- OneByOne
    Owner <- SliceOwner
    Relabelling = TRUE
    MaxChanges = 3
    MaxFailures = 0
PROPERTIES Converges
CHECK_DEADLOCK FALSE
