CONSTANTS
    MaxSize = 3
    Buffer = 2
    Paths <- MCPaths
    Queries <- MCQueries
SPECIFICATION Spec
INVARIANTS
    ResponseInv
    TruncationsAreKnown
    JoinedBySlash
PROPERTY AnsweredOnce
CHECK_DEADLOCK FALSE
