CONSTANTS
    main = main
    worker = worker
    late = late
    direct = direct
    recorder = recorder
    Calls = {main, worker, late, direct}
    Kind <- MCKind
    Transports = {recorder}
    NoTransport = NoTransport
    Option <- MCOption
    DefaultCallers = {main, worker, late}
    DevKey <- MCDevKey
SPECIFICATION LiveManagerSpec
INVARIANTS
    OnceInv
    CallersAgree
    NothingOnlyAfterPanic
    ManagersAreWhole
PROPERTY CallersReturn
CHECK_DEADLOCK FALSE
