------------------------- MODULE ResetLinksHistory -------------------------
(***************************************************************************)
(* Passwords with a history variable that remembers which requests for a   *)
(* reset link were in flight together.                                     *)
(***************************************************************************)
EXTENDS Passwords

VARIABLE together

lhvars == <<now, users, tokens, login_events, req, passwords, reset_tokens, mails,
            job, together>>

Forgetting == {j \in Jobs : job[j].pc \in {"replace", "delete_many", "insert_one"}}

LHInit == PInit /\ together = {}

LHNext == PNext /\ together' = together \cup {{x, y} : x, y \in Forgetting'}

LHSpec == LHInit /\ [][LHNext]_lhvars

FairLHSpec == LHSpec /\ JobsFairness

-----------------------------------------------------------------------------
\* Two reset links of one account are stored together only if the requests for
\* them were in flight together: replace_for_user deletes what is there.
OnlyConcurrentLinksCoexist ==
  \A x, y \in Jobs :
    LinkStored(x) /\ LinkStored(y) /\ reset_tokens[x].user = reset_tokens[y].user
      => x = y \/ {x, y} \in together
=============================================================================
