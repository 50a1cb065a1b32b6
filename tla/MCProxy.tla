------------------------------- MODULE MCProxy -------------------------------
(***************************************************************************)
(* Instances of Proxy for TLC.                                             *)
(***************************************************************************)
EXTENDS Proxy

\* "", "/", "/base" and "/base/"
MCPaths == {<<>>, <<"/">>, <<"/", "base">>, <<"/", "base", "/">>}
MCQueries == {<<>>, <<"id=xyz">>}
==============================================================================
