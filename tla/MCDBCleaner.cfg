CONSTANTS
    space = space
    item = item
    event = event
    NoRow = NoRow
    Rows = {space, item, event}
    Parent <- MCParent
    Keyless = {event}
    Goroutines = {g1, g2}
    MaxTests = 2
    MaxEntities = 3
    MaxCrossings = 1
SPECIFICATION Spec
INVARIANTS
    CleanerInv
PROPERTIES
    NilMeansClean
    CleansAllOrNothing
    LeavesOthersAlone
VIEW AllButReport
SYMMETRY Interchangeable
CHECK_DEADLOCK FALSE
