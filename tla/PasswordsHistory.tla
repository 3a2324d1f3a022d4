------------------------- MODULE PasswordsHistory -------------------------
(***************************************************************************)
(* Passwords with history variables that remember which password each      *)
(* session rests on, and which passwords a change or a reset disposed of.   *)
(***************************************************************************)
EXTENDS Passwords

VARIABLES
  had,        \* the passwords each account has had
  earlier,    \* the passwords the one a job stored came after
  proof,      \* the password the session a request will open rests on
  opened,     \* the password the session of a token rests on
  overtaken,  \* revocations during which a session resting on an earlier
              \* password was being opened
  over,       \* passwords whose sessions were revoked, not overtaken
  ended       \* passwords whose sessions were revoked, overtaken or not

phvars == <<now, users, tokens, login_events, req, passwords, reset_tokens, mails,
            job, had, earlier, proof, opened, overtaken, over, ended>>

PHInit ==
  /\ PInit
  /\ had = [u \in Users |-> {NoJob}]
  /\ earlier = [j \in Jobs |-> {}]
  /\ proof = [r \in Requests |-> NoJob]
  /\ opened = [t \in Tokens |-> NoJob]
  /\ overtaken = {}
  /\ over = [u \in Users |-> {}]
  /\ ended = [u \in Users |-> {}]

Revoking(j) == Doing(j, "update_many")

\* The revocations for u that end in this step having reached every session
\* they had to.
RevokedFor(u) ==
  {j \in Jobs : /\ Revoking(j) /\ ~ Revoking(j)' /\ job[j].user = u
                /\ \A t \in job[j].todo : ~ Live(t)}

Overtaken(j) ==
  \E r \in Requests : MayIssue(r) /\ req[r].user = job[j].user /\ proof[r] \in earlier[j]

\* The usable token a refresh takes in this step.
Taken == {t \in Tokens : Live(t) /\ tokens'[t].doc = "revoked"}

\* A login rests on the password it checked, a refresh on what the token it
\* takes rests on.
ProofOf(r) ==
  CASE At(r, "idle")'                      -> NoJob
    [] At(r, "idle") /\ Rotating(r)'       ->
         opened[CHOOSE t \in Tokens : t \in Taken \/ Taken = {}]
    [] At(r, "idle") /\ ~ Rotating(r)' /\ MayIssue(r)' -> passwords[req'[r].user]
    [] OTHER                               -> proof[r]

\* The password behind the token stored in this step.
Opener == proof[CHOOSE r \in Requests : At(r, "create") /\ ~ At(r, "create")']

PHNext ==
  /\ PNext
  /\ had' = [u \in Users |-> had[u] \cup {passwords'[u]}]
  /\ earlier' = [j \in Jobs |->
       CASE Doing(j, "done")'                                     -> {}
         [] Doing(j, "update_password") /\ Doing(j, "revoke_all")' -> had[job[j].user]
         [] OTHER                                                 -> earlier[j]]
  /\ proof' = [r \in Requests |-> ProofOf(r)]
  /\ opened' = [t \in Tokens |->
       IF tokens[t].doc = "none" /\ tokens'[t].doc # "none" THEN Opener ELSE opened[t]]
  /\ overtaken' = {j \in Jobs : Revoking(j)' /\ (j \in overtaken \/ Overtaken(j)')}
  /\ over' = [u \in Users |->
       over[u] \cup UNION {earlier[j] : j \in RevokedFor(u) \ overtaken}]
  /\ ended' = [u \in Users |-> ended[u] \cup UNION {earlier[j] : j \in RevokedFor(u)}]

PHSpec == PHInit /\ [][PHNext]_phvars

-----------------------------------------------------------------------------
\* Once a change or a reset of the password has revoked the sessions of the
\* account, and no login or refresh resting on an earlier password was in flight
\* meanwhile, no session resting on one of these is usable, nor ever will be.
QuietChangeEndsSessions ==
  \A t \in Tokens : Live(t) => opened[t] \notin over[tokens[t].user]

\* The same for every change and reset, as tests/api_refresh.rs asserts.  A
\* login that checked the old password, or a refresh that took its token,
\* before the revocation stores a usable session after it.
ChangeEndsSessions ==
  \A t \in Tokens : Live(t) => opened[t] \notin ended[tokens[t].user]
=============================================================================
