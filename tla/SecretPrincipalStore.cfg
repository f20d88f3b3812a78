SPECIFICATION FairSpec
CONSTANTS
    Clients = {c1, c2}
    Names = {n1, n2}
    Keys = {k1, k2}
    NoName = NoName
    NoKey = NoKey
    MaxAttempts = 2
INVARIANTS TypeOK UniqueName
PROPERTIES GivesUpOnlyUnderContention AckedCallsTookEffect
           CallsTerminate ImplementsPrincipalStore
CHECK_DEADLOCK FALSE
