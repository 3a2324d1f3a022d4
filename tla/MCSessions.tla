----------------------------- MODULE MCSessions -----------------------------
(* A small instance of SessionsHistory for TLC.                            *)
EXTENDS SessionsHistory

CONSTANT ip1

\* The whitelist an administrator may set.
OneAddress == {{ip1}}
=============================================================================
