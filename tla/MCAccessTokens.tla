--------------------------- MODULE MCAccessTokens ---------------------------
(* A small instance of AccessTokens for TLC.                               *)
EXTENDS AccessTokens
=============================================================================
