SPECIFICATION TranslationSpec
CONSTANTS
    Sources = {a, b, Outside}
    Outside = Outside
    a = a
    b = b
    Protocols = {"TCP", "UDP", "SCTP"}
    MinPort = 1
    MaxPort = 4
    MaxRules = 2
    RuleChoices <- NamedPorts
INVARIANTS EnforcedOrReported OthersStayOpen
CHECK_DEADLOCK FALSE
