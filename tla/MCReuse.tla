------------------------------ MODULE MCReuse -------------------------------
(* A small instance of ReuseHistory for TLC.                               *)
EXTENDS ReuseHistory, TLC

\* Requests are interchangeable; so are tokens, which CreateSession picks freely.
RequestsAndTokens == Permutations(Requests) \cup Permutations(Tokens)
=============================================================================
