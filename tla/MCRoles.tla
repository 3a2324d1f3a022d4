------------------------------ MODULE MCRoles -------------------------------
(* A small instance of RolesHistory for TLC.                               *)
EXTENDS RolesHistory

TwoReleases == {{"admin", "drive"}, {"admin", "budgy"}}
PlainAndPadded == {{Plain("admin"), Plain("editor")}, {[name |-> "editor", padded |-> TRUE]}}
=============================================================================
