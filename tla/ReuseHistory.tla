---------------------------- MODULE ReuseHistory ----------------------------
(***************************************************************************)
(* Sessions with history variables that remember the families revoked      *)
(* because a consumed token was presented again.                           *)
(***************************************************************************)
EXTENDS Sessions

VARIABLES
  suspicious,   \* requests revoking a family because a token was reused
  stolen        \* families whose revocation after a reuse went through

rhvars == <<now, users, tokens, login_events, req, suspicious, stolen>>

RHInit == Init /\ suspicious = {} /\ stolen = {}

\* The scans that end in this step having reached every document they had to.
RevokedIn ==
  {r \in Requests : At(r, "update_many") /\ ScanComplete(r) /\ ~ At(r, "update_many")'}

RHNext ==
  /\ Next
  /\ suspicious' = {r \in Requests : \/ At(r, "find_one") /\ At(r, "revoke_family")'
                                     \/ r \in suspicious /\ ~ At(r, "idle")'}
  /\ stolen' = stolen \cup {req[r].family : r \in RevokedIn \cap suspicious}

RHSpec == RHInit /\ [][RHNext]_rhvars

-----------------------------------------------------------------------------
\* Once the reuse of a token was detected and its family revoked, the family
\* has no usable token, as tests/api_refresh.rs asserts.  The code only ensures
\* SessionsHistory!QuietRevocationIsFinal: a refresh that took the family's
\* token before the scan stores the successor after it.
ReuseClosesFamily ==
  \A t \in Tokens : Live(t) => tokens[t].family \notin stolen
=============================================================================
