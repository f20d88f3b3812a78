SPECIFICATION ArtifactsSpec
CONSTANTS
    Minors = {"1.33", "1.36"}
    MaxNumber <- Numbers
    Incomplete <- OneIncomplete
    MaxFailures = 2
    Torn = Torn
    EKSVersion = "1.33"
    Processes = {p1, p2, p3}
    Binaries = {b1, b2}
    Missing = Missing
    Overlap = FALSE
    MaxTroubles = 3
INVARIANTS LatestIsCurrent ReturnedIsComplete ExtractsVerified
PROPERTIES NeverDowngrades SearchEnds Recovers
