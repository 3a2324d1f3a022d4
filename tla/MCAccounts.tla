----------------------------- MODULE MCAccounts -----------------------------
(* A small instance of AccountsHistory for TLC.                            *)
EXTENDS AccountsHistory, TLC

Everything == Permutations(Ids) \cup Permutations(Mailboxes) \cup Permutations(Requests)
=============================================================================
