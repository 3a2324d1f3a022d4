--------------------------- MODULE MCUserDeletion ---------------------------
(* Small instances of UserDeletionHistory for TLC.                         *)
EXTENDS UserDeletionHistory
=============================================================================
