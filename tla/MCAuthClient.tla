---------------------------- MODULE MCAuthClient ----------------------------
(***************************************************************************)
(* Instances of AuthClient for TLC.                                        *)
(***************************************************************************)
EXTENDS AuthClient, TLC

CONSTANTS keys, token, scope, recorder, spare

\* One call of each kind; two bring round-trippers of their own.
MCKind == keys :> "keys" @@ token :> "token" @@ scope :> "scope"
MCOption == keys :> recorder @@ token :> spare @@ scope :> NoTransport
=============================================================================
