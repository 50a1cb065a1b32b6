----------------------------- MODULE MCMetrics -----------------------------
(* Instance of Metrics and Logging for TLC.                                 *)
EXTENDS Metrics

\* The log levels "fatal" and "debug", and one that does not parse.
MCGiven == {1, 5, -1}
============================================================================
