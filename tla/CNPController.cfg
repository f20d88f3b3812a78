SPECIFICATION FairSpec
CONSTANTS
    Policies = {p1}
    Namespaces = {n1}
    Specs = {s1, s2}
    None = None
    LabelStripping = TRUE
    MaxChanges = 3
    MaxFailures = 1
PROPERTIES ForeignNeverOverwritten DeletesOnlyUnwanted Converges
CHECK_DEADLOCK FALSE
