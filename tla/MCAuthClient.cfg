CONSTANTS
    keys = keys
    token = token
    scope = scope
    recorder = recorder
    spare = spare
    Calls = {keys, token, scope}
    Kind <- MCKind
    Transports = {recorder, spare}
    NoTransport = NoTransport
    Option <- MCOption
SPECIFICATION Spec
INVARIANTS
    ClientInv
    OnlyFailedChecksHoldConnections
    VerdictsComeFromAuth
    OwnOrStrangers
CHECK_DEADLOCK FALSE
