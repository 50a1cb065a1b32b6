CONSTANTS
    r1 = r1
    r2 = r2
    alice = alice
    Clients = {c1, c2}
    Requests = {r1, r2}
    Users = {alice}
    UserOf <- MCUserOf
    WithUser = {c1}
    Nobody = Nobody
    Nothing = Nothing
SPECIFICATION FairSpec
INVARIANT EventsAreOwn
PROPERTIES
    CallsEnd
    HandedOverIsCaptured
CHECK_DEADLOCK FALSE
