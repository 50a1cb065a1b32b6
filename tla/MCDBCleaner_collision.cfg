CONSTANTS
    space = space
    item = item
    event = event
    NoRow = NoRow
    Rows = {space, item, event}
    Parent <- MCParent
    Keyless = {event}
    Goroutines = {g1}
    MaxTests = 2
    MaxEntities = 3
    MaxCrossings = 1
SPECIFICATION Spec
PROPERTY DeletesOnlyCreated
CHECK_DEADLOCK FALSE
