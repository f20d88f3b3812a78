SPECIFICATION FairSpec
CONSTANTS
    Services = {s1, s2}
    None = None
    Foreign = Foreign
    Edits <- OneByOne
    Addresses = {x, y}
    MaxChanges = 2
    MaxFailures = 0
PROPERTIES IngressFollowsNodes
