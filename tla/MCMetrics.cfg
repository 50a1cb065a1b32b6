CONSTANTS
    Goroutines = {g1}
    Given <- MCGiven
    Severities = {2, 5}
    MaxInits = 2
    Services = {"auth", "wit", "a-b"}
    Invalid = {"a-b"}
    MaxRecorders = 2
SPECIFICATION Spec
INVARIANTS
    MessagesFollowTheLevel
    ReportsAreExposed
    ReportsGoForward
CHECK_DEADLOCK FALSE
