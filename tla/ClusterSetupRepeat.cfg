SPECIFICATION FairSpec
CONSTANTS
    MaxRuns = 2
    Preinstalled <- RaskClasses
    WithKumo = TRUE
    Reuse = TRUE
    Overlap = FALSE
    MaxTries = 2
    MaxFailures = 0
    MaxTouches = 0
PROPERTIES RepeatServes
CHECK_DEADLOCK FALSE
