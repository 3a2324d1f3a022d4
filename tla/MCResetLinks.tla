---------------------------- MODULE MCResetLinks ----------------------------
(* A small instance of ResetLinksHistory for TLC.                          *)
EXTENDS ResetLinksHistory
=============================================================================
