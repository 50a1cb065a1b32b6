CONSTANTS
    IDs = {"a", "nil"}
    Nil = "nil"
    Vars = {s, t}
    MaxCap = 3
SPECIFICATION Spec
PROPERTIES
    ResultsAreRight
    OthersKeepTheirIDs
VIEW Slices
CHECK_DEADLOCK FALSE
