--------------------------- MODULE MCTokenManager ---------------------------
(***************************************************************************)
(* Instances of TokenManager for TLC.                                      *)
(***************************************************************************)
EXTENDS TokenManager, TLC

CONSTANTS main, worker, late, direct, recorder

MCKind == main :> "keys" @@ worker :> "keys" @@ late :> "keys" @@ direct :> "keys"

\* One call goes to NewManager directly; it brings a round-tripper and makes
\* the other ones' requests race with its assignment.
MCOption == main :> NoTransport @@ worker :> NoTransport @@ late :> NoTransport @@ direct :> recorder

\* The callers of DefaultManager have different configurations.
MCDevKey == main :> "valid" @@ worker :> "invalid" @@ late :> "unset" @@ direct :> "valid"
=============================================================================
