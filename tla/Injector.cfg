SPECIFICATION InjectorSpec
CONSTANTS
    Containers = {c1}
    InitContainers = {i1}
    PodChoices <- Pods
    AWSEndpoint = TRUE
    Broken = Broken
    MaxChanges = 3
INVARIANTS KeepsWhatUsersSet TokenIsMounted SecondPassIsEmpty
CHECK_DEADLOCK FALSE
