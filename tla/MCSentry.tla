------------------------------ MODULE MCSentry ------------------------------
(***************************************************************************)
(* Instances of Sentry for TLC.                                            *)
(***************************************************************************)
EXTENDS Sentry, TLC

CONSTANTS r1, r2, alice

\* An authenticated request and an anonymous one.
MCUserOf == r1 :> alice @@ r2 :> Nobody
=============================================================================
