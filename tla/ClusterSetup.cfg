SPECIFICATION FairSpec
CONSTANTS
    MaxRuns = 2
    Preinstalled <- RaskClasses
    WithKumo = TRUE
    Reuse = TRUE
    Overlap = FALSE
    MaxTries = 2
    MaxFailures = 1
    MaxTouches = 2
INVARIANTS SoleDefault AuthenticatorTrusted
PROPERTIES ReadyIsComplete FailsOnlyForCause SetsUpOrFails
CHECK_DEADLOCK FALSE
