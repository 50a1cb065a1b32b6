---------------------------- MODULE TokenManager ----------------------------
(***************************************************************************)
(* auth.NewManager and auth.DefaultManager: the construction of token      *)
(* managers on top of jwk.FetchKeys (module AuthClient, whose calls are    *)
(* all FetchKeys here).  Some callers go through DefaultManager, which     *)
(* builds one manager under a sync.Once and hands its result to everybody, *)
(* whatever their configuration.                                           *)
(***************************************************************************)
EXTENDS AuthClient

CONSTANTS
    DefaultCallers,  \* the calls made through DefaultManager
    DevKey           \* per call: is GetDevModePrivateKey() "unset", "valid" or "invalid"

ASSUME TokenManagerAssumption ==
    /\ \A c \in Calls : Kind[c] = "keys"
    /\ DefaultCallers \subseteq Calls
    /\ DevKey \in [Calls -> {"unset", "valid", "invalid"}]
    \* DefaultManager hands no options on to NewManager
    /\ \A c \in DefaultCallers : Option[c] = NoTransport

VARIABLES
    step,           \* where each caller of NewManager or DefaultManager is
    returned,       \* what it got: a pair of a manager and an error
    once,           \* defaultOnce
    default         \* defaultManager and defaultErr

managerVars == <<step, returned, once, default>>
allVars == <<vars, managerVars>>

\* A manager is the set of the sources its keys come from.
NoManager == {"nil"}
Nothing == [manager |-> NoManager, err |-> FALSE]
Failure == [manager |-> NoManager, err |-> TRUE]
ManagerOf(keys) == [manager |-> keys, err |-> FALSE]

ManagerInit ==
    /\ Init
    /\ step = [c \in Calls |-> "call"]
    /\ returned = [c \in Calls |-> Nothing]
    /\ once = "fresh"
    /\ default = Nothing

StepTo(c, from, to) == step[c] = from /\ step' = [step EXCEPT ![c] = to]

-----------------------------------------------------------------------------
(* NewManager.                                                             *)

NewManager(c) ==
    /\ c \notin DefaultCallers
    /\ StepTo(c, "call", "fetch")
    /\ UNCHANGED <<vars, returned, once, default>>

\* The steps of jwk.FetchKeys, called by NewManager.
Fetch(c) ==
    /\ step[c] = "fetch"
    /\ FetchKeys(c)
    /\ UNCHANGED managerVars

RemoteKeys(c) == IF result[c] = "granted" THEN {"auth"} ELSE {}
DevKeys(c) == IF DevKey[c] = "valid" THEN {"dev"} ELSE {}

\* Mutant: an invalid dev-mode key is skipped, with what was loaded.
LenientManager(c) ==
    IF result[c] = "error" THEN ManagerOf(DevKeys(c)) ELSE ManagerOf(RemoteKeys(c) \cup DevKeys(c))

\* All the keys, or an error and no manager.
Built(c) ==
    IF result[c] = "error" \/ DevKey[c] = "invalid" THEN Failure
    ELSE ManagerOf(RemoteKeys(c) \cup DevKeys(c))

Returns(c, r) ==
    /\ StepTo(c, "fetch", "returned")
    /\ returned' = [returned EXCEPT ![c] = r]

NewManagerReturns(c) ==
    /\ c \notin DefaultCallers /\ pc[c] = "returned"
    /\ Returns(c, Built(c))
    /\ UNCHANGED <<vars, once, default>>

-----------------------------------------------------------------------------
(* DefaultManager.                                                         *)

\* Mutant: if defaultManager == nil { ... }
EnterUnlocked(c) ==
    /\ c \in DefaultCallers /\ default = Nothing
    /\ StepTo(c, "call", "fetch")
    /\ once' = "running"
    /\ UNCHANGED <<vars, returned, default>>

\* The first caller runs the function given to Do.
EnterOnce(c) ==
    /\ c \in DefaultCallers /\ once = "fresh"
    /\ StepTo(c, "call", "fetch")
    /\ once' = "running"
    /\ UNCHANGED <<vars, returned, default>>

\* Both globals are assigned, Do ends, they are returned.
OnceReturns(c) ==
    /\ c \in DefaultCallers /\ pc[c] = "returned"
    /\ Returns(c, Built(c))
    /\ default' = Built(c)
    /\ once' = "done"
    /\ UNCHANGED vars

\* Mutant: a panic leaves the Once locked.
StuckOnce(c) ==
    /\ pc[c] = "panicked"
    /\ StepTo(c, "fetch", "panicked")
    /\ UNCHANGED <<vars, returned, once, default>>

\* A panic ends NewManager, and Do with it if that is the caller: the globals
\* keep their zero values for good.
NewManagerPanics(c) ==
    /\ pc[c] = "panicked"
    /\ StepTo(c, "fetch", "panicked")
    /\ once' = IF c \in DefaultCallers THEN "done" ELSE once
    /\ UNCHANGED <<vars, returned, default>>

\* Mutant: Do does not wait for the call that is under way.
ReturnsEarly(c) ==
    /\ c \in DefaultCallers /\ once # "fresh"
    /\ StepTo(c, "call", "returned")
    /\ returned' = [returned EXCEPT ![c] = default]
    /\ UNCHANGED <<vars, once, default>>

\* Every other caller waits for Do to end and returns the globals.
ReturnsDefault(c) ==
    /\ c \in DefaultCallers /\ once = "done"
    /\ StepTo(c, "call", "returned")
    /\ returned' = [returned EXCEPT ![c] = default]
    /\ UNCHANGED <<vars, once, default>>

DefaultManager(c) == EnterOnce(c) \/ OnceReturns(c) \/ ReturnsDefault(c)

Manager(c) ==
    \/ NewManager(c) \/ Fetch(c) \/ NewManagerReturns(c) \/ NewManagerPanics(c)
    \/ DefaultManager(c)

ManagerNext == \E c \in Calls : Manager(c)

ManagerSpec == ManagerInit /\ [][ManagerNext]_allVars

\* What a caller waits for the Auth service to do: answer, and send all of its
\* answer's body, which ReadBody reads.  http.DefaultClient has no timeout.
Waiting(c) == pc[c] = "await" \/ (pc[c] = "read" /\ body[c] = "unread")

\* The Go scheduler runs every goroutine that can run.  Nothing is assumed of the
\* Auth service.
Local(c) == Manager(c) /\ ~Waiting(c)

LiveManagerSpec == ManagerSpec /\ \A c \in Calls : WF_allVars(Local(c))
-----------------------------------------------------------------------------
(* Properties.                                                             *)

Outcomes == [manager : (SUBSET {"auth", "dev"}) \cup {NoManager}, err : BOOLEAN]

\* The variables stay in their types.  While the Once runs exactly its one runner is inside NewManager and nobody
\* has a result; afterwards every result is what the globals hold, and they
\* are empty only because the runner panicked (auth/token.go:58-63).
OnceInv ==
    /\ step \in [Calls -> {"call", "fetch", "returned", "panicked"}]
    /\ returned \in [Calls -> Outcomes]
    /\ once \in {"fresh", "running", "done"}
    /\ default \in Outcomes
    /\ \A c \in DefaultCallers :
          /\ step[c] = "fetch" => once = "running"
          /\ step[c] = "returned" => once = "done" /\ returned[c] = default
    /\ \A c, d \in DefaultCallers : step[c] = "fetch" /\ step[d] = "fetch" => c = d
    /\ once = "done" /\ default = Nothing => \E d \in DefaultCallers : step[d] = "panicked"

\* Everybody who got something from DefaultManager got the same manager and
\* the same error, whoever built it, whenever they asked and whatever their
\* own configuration was (auth/token.go:58-63).
CallersAgree ==
    \A c, d \in DefaultCallers :
        step[c] = "returned" /\ step[d] = "returned" => returned[c] = returned[d]

\* DefaultManager returns neither a manager nor an error only to those who
\* come after the one whose NewManager panicked (auth/token.go:58-63).
NothingOnlyAfterPanic ==
    \A c \in DefaultCallers :
        step[c] = "returned" /\ returned[c] = Nothing =>
            \E d \in DefaultCallers : step[d] = "panicked"

\* A manager is never partial: it has all the keys of a 200 answer to the one
\* request made for it, and the dev-mode key of the configuration it was
\* built with, if that has one (auth/token.go:131-161).
ManagersAreWhole ==
    \A c \in Calls :
        step[c] = "returned" /\ returned[c].manager # NoManager =>
            \E d \in Calls :
                /\ (c \notin DefaultCallers => d = c) /\ (c \in DefaultCallers => d \in DefaultCallers)
                /\ answer[d].status = "ok" /\ body[d] = "drained"
                /\ DevKey[d] # "invalid"
                /\ "auth" \in returned[c].manager <=> answer[d].payload = "granted"
                /\ "dev" \in returned[c].manager <=> DevKey[d] = "valid"

\* Nobody waits in DefaultManager or NewManager forever, unless the Auth service
\* never answers a request for keys, or begins an answer and never ends its body:
\* there is no timeout, and then all callers of DefaultManager wait with the
\* first (auth/token.go:59, auth/jwk/fetch_keys.go:44,54, httpsupport/http_client.go:57-64).
CallersReturn ==
    (\A c \in Calls : []<>~Waiting(c)) =>
        \A c \in Calls : step[c] = "call" ~> step[c] \in {"returned", "panicked"}
=============================================================================
