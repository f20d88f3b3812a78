SPECIFICATION FairSpec
CONSTANTS
    Bindings = {b1}
    Services = {A, B}
    Slices = {e1}
    Addresses = {x}
    Workers = {w1}
    None = None
    Edits <- OneByOne
    Owner <- SliceOwner
    Relabelling = FALSE
    MaxChanges = 3
    MaxFailures = 1
INVARIANTS StatusIsOfItsGeneration NothingForgotten
PROPERTY Converges
CHECK_DEADLOCK FALSE
