---------------------------- MODULE MCPasswords -----------------------------
(* Small instances of PasswordsHistory for TLC.                            *)
EXTENDS PasswordsHistory, TLC

\* Jobs, tokens and requests are interchangeable.
AnyNames == Permutations(Jobs) \cup Permutations(Tokens) \cup Permutations(Requests)
=============================================================================
