----------------------------- MODULE Passwords -----------------------------
(***************************************************************************)
(* Changing and resetting passwords, together with the sessions they end:  *)
(* PUT /password, /password/forgot, /password/reset and the                *)
(* administrator's update, call by call as in Sessions.                    *)
(*                                                                         *)
(* A job is one request to these handlers; it serves once.  Passwords and  *)
(* reset links are named by the job that made them: passwords[u] is the job *)
(* that set the password of u, and the link x was asked for by the job x.  *)
(***************************************************************************)
EXTENDS Sessions

CONSTANTS
  Jobs,       \* requests to the password handlers (bound)
  NoJob,      \* a password set at registration; no link
  LinkTtl,    \* life of a reset link, in ticks
  Forgetful   \* accounts a reset link is asked for (bound)

ASSUME PasswordConstants ==
  /\ NoJob \notin Jobs
  /\ LinkTtl \in Nat
  /\ Forgetful \subseteq Users

VARIABLES
  passwords,      \* password_hash of each account
  reset_tokens,   \* the password_reset_tokens collection
  mails,          \* the email that carries each link
  job             \* what each job does next

pvars == <<passwords, reset_tokens, mails, job>>

allvars == <<now, users, tokens, login_events, req, passwords, reset_tokens, mails, job>>

-----------------------------------------------------------------------------
LinkDoc == [doc : {"none", "live", "used", "deleted", "purged"},
            user : Users \cup {NoUser}, expires_at : Nat]

NoLinkYet == [doc |-> "none", user |-> NoUser, expires_at |-> 0]

JobCalls == {"update_password", "revoke_all", "update_many",
             "replace", "delete_many", "insert_one"}

\* link: the link a reset consumed.  todo, links: the documents update_many and
\* delete_many still have to reach.
Job == [pc : JobCalls \cup {"new", "done"}, user : Users \cup {NoUser},
        link : Jobs \cup {NoJob}, todo : SUBSET Tokens, links : SUBSET Jobs]

NewJob == [pc |-> "new", user |-> NoUser, link |-> NoJob, todo |-> {}, links |-> {}]

PInit ==
  /\ Init
  /\ passwords = [u \in Users |-> NoJob]
  /\ reset_tokens = [x \in Jobs |-> NoLinkYet]
  /\ mails = [x \in Jobs |-> "none"]
  /\ job = [j \in Jobs |-> NewJob]

-----------------------------------------------------------------------------
(* Helpers.                                                                *)

Doing(j, call) == job[j].pc = call

Continue(j, call) == job' = [job EXCEPT ![j].pc = call]

LinkLive(x) == reset_tokens[x].doc = "live"

LinkStored(x) == reset_tokens[x].doc \in {"live", "used"}

\* Seeded bug: the filter forgets used: false.
UsableTwice(x) == LinkStored(x) /\ reset_tokens[x].expires_at > now

\* The filter of consume.
Usable(x) == LinkLive(x) /\ reset_tokens[x].expires_at > now

LinksOf(u) == {x \in Jobs : LinkStored(x) /\ reset_tokens[x].user = u}

LiveTokensOf(u) == {t \in Tokens : Live(t) /\ tokens[t].user = u}

-----------------------------------------------------------------------------
(* PUT /password.  The current password was right in the document that     *)
(* find_by_id returned; a refusal changes nothing.                         *)

ChangeRead(j, u) ==
  /\ Doing(j, "new")
  /\ users[u].exists
  /\ job' = [job EXCEPT ![j] = [@ EXCEPT !.pc = "update_password", !.user = u]]
  /\ UNCHANGED <<now, users, tokens, login_events, req, passwords, reset_tokens, mails>>

\* Seeded bug: the account is the one of the request, not of the link.
ResetForCaller(j, x) ==
  /\ Doing(j, "new")
  /\ mails[x] = "delivered"
  /\ Usable(x)
  /\ reset_tokens' = [reset_tokens EXCEPT ![x].doc = "used"]
  /\ job' = [job EXCEPT ![j] = [@ EXCEPT !.pc = "update_password", !.link = x]]
  /\ UNCHANGED <<now, users, tokens, login_events, req, passwords, mails>>

\* POST /password/reset by someone who received the link: find_one_and_update
\* consumes it in one atomic step, and it did match.
ResetConsume(j, x) ==
  /\ Doing(j, "new")
  /\ mails[x] = "delivered"
  /\ Usable(x)
  /\ reset_tokens' = [reset_tokens EXCEPT ![x].doc = "used"]
  /\ job' = [job EXCEPT ![j] = [@ EXCEPT !.pc = "update_password", !.link = x,
                                         !.user = reset_tokens[x].user]]
  /\ UNCHANGED <<now, users, tokens, login_events, req, passwords, mails>>

\* Seeded bug: an update_one that matches no account is tried again.
StorePasswordRetried(j) ==
  /\ Doing(j, "update_password")
  /\ users[job[j].user].exists
  /\ passwords' = [passwords EXCEPT ![job[j].user] = j]
  /\ Continue(j, "revoke_all")
  /\ UNCHANGED <<now, users, tokens, login_events, req, reset_tokens, mails>>

\* The end of both: update_one on the account if it is still there.  The
\* password it replaces need not be the one that was checked.
StorePassword(j) ==
  /\ Doing(j, "update_password")
  /\ IF users[job[j].user].exists
     THEN /\ passwords' = [passwords EXCEPT ![job[j].user] = j]
          /\ Continue(j, "revoke_all")
     ELSE /\ Continue(j, "done")
          /\ UNCHANGED passwords
  /\ UNCHANGED <<now, users, tokens, login_events, req, reset_tokens, mails>>

\* PUT /users/{id}/password: one update, the sessions stay.
AdminUpdatePassword(j, u) ==
  /\ Doing(j, "new")
  /\ users[u].exists
  /\ passwords' = [passwords EXCEPT ![u] = j]
  /\ Continue(j, "done")
  /\ UNCHANGED <<now, users, tokens, login_events, req, reset_tokens, mails>>

-----------------------------------------------------------------------------
(* revoke_all_for_user, an update_many as in Sessions.                     *)

\* Seeded bug: revoke_family of one session in place of revoke_all_for_user.
RevokeFamilyStart(j) ==
  /\ Doing(j, "revoke_all")
  /\ \E t \in LiveTokensOf(job[j].user) :
       job' = [job EXCEPT ![j] = [@ EXCEPT !.pc = "update_many",
                                           !.todo = LiveIn(tokens[t].family)]]
  /\ UNCHANGED <<now, users, tokens, login_events, req, passwords, reset_tokens, mails>>

RevokeAllStart(j) ==
  /\ Doing(j, "revoke_all")
  /\ job' = [job EXCEPT ![j] = [@ EXCEPT !.pc = "update_many",
                                         !.todo = LiveTokensOf(job[j].user)]]
  /\ UNCHANGED <<now, users, tokens, login_events, req, passwords, reset_tokens, mails>>

RevokeAllOne(j) ==
  /\ Doing(j, "update_many")
  /\ \E t \in LiveTokensOf(job[j].user) :
       tokens' = [tokens EXCEPT ![t].doc = "revoked"]
  /\ UNCHANGED <<now, users, login_events, req, passwords, reset_tokens, mails, job>>

RevokeAllDone(j) ==
  /\ Doing(j, "update_many")
  /\ \A t \in job[j].todo : ~ Live(t)
  /\ Continue(j, "done")
  /\ UNCHANGED <<now, users, tokens, login_events, req, passwords, reset_tokens, mails>>

-----------------------------------------------------------------------------
(* POST /password/forgot: replace_for_user deletes the links of the user,  *)
(* then inserts the new one; the email is sent by a detached task.         *)

\* find_by_email: an unknown address is answered 202 and changes nothing.
ForgotRead(j, u) ==
  /\ Doing(j, "new")
  /\ users[u].exists
  /\ job' = [job EXCEPT ![j] = [@ EXCEPT !.pc = "replace", !.user = u]]
  /\ UNCHANGED <<now, users, tokens, login_events, req, passwords, reset_tokens, mails>>

\* Seeded bug: delete_many selects the consumed links only.
DeleteUsedLinksStart(j) ==
  /\ Doing(j, "replace")
  /\ job' = [job EXCEPT ![j] =
               [@ EXCEPT !.pc = "delete_many",
                         !.links = {x \in LinksOf(job[j].user) : ~ LinkLive(x)}]]
  /\ UNCHANGED <<now, users, tokens, login_events, req, passwords, reset_tokens, mails>>

DeleteLinksStart(j) ==
  /\ Doing(j, "replace")
  /\ job' = [job EXCEPT ![j] = [@ EXCEPT !.pc = "delete_many",
                                         !.links = LinksOf(job[j].user)]]
  /\ UNCHANGED <<now, users, tokens, login_events, req, passwords, reset_tokens, mails>>

DeleteLinksOne(j) ==
  /\ Doing(j, "delete_many")
  /\ \E x \in LinksOf(job[j].user) :
       reset_tokens' = [reset_tokens EXCEPT ![x].doc = "deleted"]
  /\ UNCHANGED <<now, users, tokens, login_events, req, passwords, mails, job>>

DeleteLinksDone(j) ==
  /\ Doing(j, "delete_many")
  /\ \A x \in job[j].links : ~ LinkStored(x)
  /\ Continue(j, "insert_one")
  /\ UNCHANGED <<now, users, tokens, login_events, req, passwords, reset_tokens, mails>>

InsertLink(j) ==
  /\ Doing(j, "insert_one")
  /\ reset_tokens' = [reset_tokens EXCEPT ![j] =
                        [doc |-> "live", user |-> job[j].user,
                         expires_at |-> now + LinkTtl]]
  /\ mails' = [mails EXCEPT ![j] = "queued"]
  /\ Continue(j, "done")
  /\ UNCHANGED <<now, users, tokens, login_events, req, passwords>>

\* Missive delivers, in any order; it refuses, times out, or the process is
\* killed: nothing is retried.
Deliver(x) ==
  /\ mails[x] = "queued"
  /\ mails' = [mails EXCEPT ![x] = "delivered"]
  /\ UNCHANGED <<now, users, tokens, login_events, req, passwords, reset_tokens, job>>

LoseMail(x) ==
  /\ mails[x] = "queued"
  /\ mails' = [mails EXCEPT ![x] = "lost"]
  /\ UNCHANGED <<now, users, tokens, login_events, req, passwords, reset_tokens, job>>

-----------------------------------------------------------------------------
\* A job stops at any of its calls.  When revoke_all_for_user fails the error is
\* logged and the answer is still 200.
AbortJob(j) ==
  /\ job[j].pc \in JobCalls
  /\ Continue(j, "done")
  /\ UNCHANGED <<now, users, tokens, login_events, req, passwords, reset_tokens, mails>>

\* The TTL index of the reset links.
PurgeLink(x) ==
  /\ LinkStored(x)
  /\ reset_tokens[x].expires_at <= now
  /\ reset_tokens' = [reset_tokens EXCEPT ![x].doc = "purged"]
  /\ UNCHANGED <<now, users, tokens, login_events, req, passwords, mails, job>>

-----------------------------------------------------------------------------
StartJob(j) ==
  \/ \E u \in Users : ChangeRead(j, u) \/ AdminUpdatePassword(j, u)
  \/ \E u \in Forgetful : ForgotRead(j, u)
  \/ \E x \in Jobs : ResetConsume(j, x)

JobStep(j) ==
  \/ StorePassword(j)
  \/ RevokeAllStart(j) \/ RevokeAllOne(j) \/ RevokeAllDone(j)
  \/ DeleteLinksStart(j) \/ DeleteLinksOne(j) \/ DeleteLinksDone(j) \/ InsertLink(j)

PNext ==
  \/ Next /\ UNCHANGED pvars
  \/ \E j \in Jobs : StartJob(j) \/ JobStep(j) \/ AbortJob(j)
  \/ \E x \in Jobs : Deliver(x) \/ LoseMail(x) \/ PurgeLink(x)

PSpec == PInit /\ [][PNext]_allvars

\* As in Sessions: a job that can take its next step takes it.
JobsFairness == \A j \in Jobs : WF_allvars(JobStep(j))

-----------------------------------------------------------------------------
(* Properties.                                                             *)

\* The collection of links and the jobs keep their shape, and a job finds the
\* account it works for.
PasswordsTypeOK ==
  /\ passwords \in [Users -> Jobs \cup {NoJob}]
  /\ reset_tokens \in [Jobs -> LinkDoc]
  /\ mails \in [Jobs -> {"none", "queued", "delivered", "lost"}]
  /\ job \in [Jobs -> Job]
  /\ \A j \in Jobs : job[j].pc \in JobCalls => job[j].user \in Users
  /\ \A x \in Jobs : reset_tokens[x].doc # "none" => reset_tokens[x].user \in Users

\* A reset link serves one reset, of the account that asked for it, whatever
\* else happens: two resets that present it together, the failure of the first
\* one after it consumed the link, a forgot that deletes it, its expiry.
OneResetPerLink ==
  \A j \in Jobs : job[j].link # NoJob =>
    /\ reset_tokens[job[j].link].doc \notin {"none", "live"}
    /\ reset_tokens[job[j].link].user = job[j].user
    /\ \A k \in Jobs : job[k].link = job[j].link => k = j

\* Every request to these handlers is answered, although the account can be
\* deleted under it and other requests store links while delete_many runs (as
\* many as Jobs holds).
JobsEnd == \A j \in Jobs : job[j].pc \in JobCalls ~> job[j].pc = "done"
=============================================================================
