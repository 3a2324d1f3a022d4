-------------------------- MODULE SessionsHistory --------------------------
(***************************************************************************)
(* Sessions with history variables that remember the revocations that went *)
(* through undisturbed: when is a family closed by /logout, or by the       *)
(* detection of a reuse, really closed?                                    *)
(***************************************************************************)
EXTENDS Sessions

VARIABLES
  overlapped,   \* scans that saw a refresh of their family in flight
  quiet         \* families revoked by a scan that was not overlapped

hvars == <<now, users, tokens, login_events, req, overlapped, quiet>>

HInit == Init /\ overlapped = {} /\ quiet = {}

Scanning(r) == At(r, "update_many")

FamilyRotating(f) == \E s \in Requests : Rotating(s) /\ req[s].family = f

\* The scans that end in this step having reached every document they had to.
Ended == {r \in Requests : Scanning(r) /\ ScanComplete(r) /\ ~ Scanning(r)'}

HNext ==
  /\ Next
  /\ overlapped' = {r \in Requests : /\ Scanning(r)'
                                     /\ r \in overlapped \/ FamilyRotating(req[r].family)'}
  /\ quiet' = quiet \cup {req[r].family : r \in Ended \ overlapped}

HSpec == HInit /\ [][HNext]_hvars

FairHSpec == HSpec /\ Fairness

-----------------------------------------------------------------------------
\* A revocation during which no refresh of the family was in flight is final:
\* no later refresh, retry or late answer brings a usable token back.
QuietRevocationIsFinal ==
  \A t \in Tokens : Live(t) => tokens[t].family \notin quiet
=============================================================================
