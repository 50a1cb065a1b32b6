CONSTANTS
    Keys = {"old", "new", "other"}
    KeyIDs = {"a", "b"}
    KeySet <- MCKeySet
    Tokens <- MCTokens
SPECIFICATION Spec
INVARIANTS
    RequestsInv
    ActsForCaller
    RefusalsAre401
    StatusesSurvive
    CountsMatchAnswers
    PanicsAreKnown
    InternalDetailsHidden
CHECK_DEADLOCK FALSE
