--------------------------- MODULE MCIdentifiers ---------------------------
(* Instance of Identifiers for TLC.                                         *)
EXTENDS Identifiers

\* No action reads which call was the last one; the properties are about steps.
Slices == <<heap, slice>>
============================================================================
