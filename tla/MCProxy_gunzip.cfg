CONSTANTS
    MaxSize = 3
    Buffer = 2
    Paths <- MCPaths
    Queries <- MCQueries
SPECIFICATION Spec
INVARIANT WritesGunzippedData
CHECK_DEADLOCK FALSE
