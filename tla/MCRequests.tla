----------------------------- MODULE MCRequests -----------------------------
(***************************************************************************)
(* Instances of Requests for TLC.                                          *)
(***************************************************************************)
EXTENDS Requests

Key(kid, key) == [kid |-> kid, key |-> key]
Token(kid, signer, claims) == [kid |-> kid, signer |-> signer, claims |-> claims]

\* Two keys came with one ID: the manager finds only the second.
MCKeySet == <<Key("a", "old"), Key("b", "other"), Key("a", "new")>>

\* Good ones, one with a key that was shadowed, one with a key of another ID,
\* one with an unknown ID, and one whose subject is no string.
MCTokens == {Token("a", "new", "full"), Token("b", "other", "no-username"), Token("a", "old", "full"),
             Token("a", "other", "full"), Token("c", "new", "full"), Token("b", "other", "sub-no-string")}
=============================================================================
