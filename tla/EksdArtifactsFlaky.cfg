SPECIFICATION ArtifactsSpec
CONSTANTS
    Minors = {"1.33", "1.36"}
    MaxNumber <- Numbers
    Incomplete <- OneIncomplete
    MaxFailures = 2
    Torn = Torn
    EKSVersion = "1.33"
    Processes = {p1}
    Binaries = {b1, b2}
    Missing = Missing
    Overlap = FALSE
    MaxTroubles = 0
PROPERTY NeverOlder
