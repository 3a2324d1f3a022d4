-------------------------- MODULE PasswordsProofs --------------------------
(***************************************************************************)
(* Theorems about Passwords, for any number of accounts, sessions and      *)
(* requests: reset links, and what the sessions keep of Sessions.          *)
(***************************************************************************)
EXTENDS ResetLinksHistory, PasswordsHistory, SessionsProofs

-----------------------------------------------------------------------------
(* Sessions.  The handlers of passwords reach the variables of Sessions by *)
(* revoke_all_for_user only.                                               *)

\* One document reached by an update_many.
RevokedOne ==
  /\ \E t \in Tokens : Live(t) /\ tokens' = [tokens EXCEPT ![t].doc = "revoked"]
  /\ UNCHANGED <<now, users, login_events, req>>

LEMMA PasswordSteps ==
  [PNext]_allvars => [Next]_vars \/ RevokedOne
<1> SUFFICES ASSUME [PNext]_allvars PROVE UNCHANGED vars \/ Next \/ RevokedOne
    OBVIOUS
<1>1. ASSUME NEW j \in Jobs, StartJob(j) PROVE UNCHANGED vars
  BY <1>1 DEF StartJob, ChangeRead, ForgotRead, AdminUpdatePassword, ResetConsume, vars
<1>2. ASSUME NEW j \in Jobs, RevokeAllOne(j) PROVE RevokedOne
  BY <1>2 DEF RevokeAllOne, RevokedOne, LiveTokensOf
<1>3. ASSUME NEW j \in Jobs, JobStep(j), ~ RevokeAllOne(j) PROVE UNCHANGED vars
  BY <1>3 DEF JobStep, StorePassword, RevokeAllStart, RevokeAllDone, DeleteLinksStart,
              DeleteLinksOne, DeleteLinksDone, InsertLink, vars
<1>4. ASSUME NEW j \in Jobs,
             AbortJob(j) \/ Deliver(j) \/ LoseMail(j) \/ PurgeLink(j)
      PROVE  UNCHANGED vars
  BY <1>4 DEF AbortJob, Deliver, LoseMail, PurgeLink, vars
<1>5. CASE UNCHANGED allvars
  BY <1>5 DEF allvars, vars
<1> QED
  BY <1>1, <1>2, <1>3, <1>4, <1>5 DEF PNext

LEMMA IInvRevokedOne == IInv /\ RevokedOne => IInv'
<1> SUFFICES ASSUME IInv, NEW t \in Tokens, Live(t),
                    tokens' = [tokens EXCEPT ![t].doc = "revoked"],
                    UNCHANGED <<now, users, login_events, req>>
             PROVE  IInv'
    BY DEF RevokedOne
<1> USE DEF IInv, TypeOK, Live
<1>1. Shapes'
  BY DEF Shapes, TokenDoc
<1>2. FieldsSet'
  BY DEF FieldsSet, MayIssue, TokenDoc
<1>3. OneLiveToken' /\ OneRotation' /\ FamiliesIssued'
  BY DEF OneLiveToken, OneRotation, FamiliesIssued, LiveIn, Rotating, TokenDoc
<1> QED
  BY <1>1, <1>2, <1>3 DEF Shapes

LEMMA IInvPNext == IInv /\ [PNext]_allvars => IInv'
  BY PasswordSteps, IInvNext, IInvRevokedOne

LEMMA IInvAlways == PSpec => []IInv
<1>1. PInit => IInv
  BY IInvInit DEF PInit
<1> QED
  BY <1>1, IInvPNext, PTL DEF PSpec

\* A password change that revokes sessions at any moment keeps families
\* exclusive.
THEOREM FamiliesStayExclusive == PSpec => [](OneLiveToken /\ OneRotation)
<1>1. IInv => OneLiveToken /\ OneRotation
  BY DEF IInv
<1> QED
  BY <1>1, IInvAlways, PTL

\* With passwords changed and reset at any moment sessions keep the promise of
\* TokenFamily: revoke_all_for_user closes families and reopens none.
THEOREM FamiliesStayFamilies == PSpec => ImplementsTokenFamily
<1>1. PInit => TF!FamilyInit
  BY ConstantsAssumption DEF PInit, Init, TF!FamilyInit, Family, Phase, Unissued
<1>2. IInv /\ [PNext]_allvars => [TF!FamilyNext]_Family
  BY PasswordSteps, StepRefines, EndLiveRefines DEF RevokedOne
<1> QED
  BY <1>1, <1>2, IInvAlways, PTL DEF PSpec, ImplementsTokenFamily, TF!FamilySpec

-----------------------------------------------------------------------------
(* Types.                                                                  *)

LEMMA NewJobType == NewJob \in Job
  BY DEF NewJob, Job

LEMMA ContinueType ==
  ASSUME job \in [Jobs -> Job], NEW j \in Jobs,
         NEW call \in JobCalls \cup {"done"}, Continue(j, call)
  PROVE  job' \in [Jobs -> Job]
  BY DEF Continue, Job

LEMMA StartType ==
  ASSUME NEW q \in Job, NEW call \in JobCalls, NEW u \in Users
  PROVE  [q EXCEPT !.pc = call, !.user = u] \in Job
  BY DEF Job

LEMMA ConsumeType ==
  ASSUME NEW q \in Job, NEW x \in Jobs, NEW u \in Users
  PROVE  [q EXCEPT !.pc = "update_password", !.link = x, !.user = u] \in Job
  BY DEF Job, JobCalls

LEMMA RevokeType ==
  ASSUME NEW q \in Job, NEW todo \in SUBSET Tokens
  PROVE  [q EXCEPT !.pc = "update_many", !.todo = todo] \in Job
  BY DEF Job, JobCalls

LEMMA DeleteType ==
  ASSUME NEW q \in Job, NEW links \in SUBSET Jobs
  PROVE  [q EXCEPT !.pc = "delete_many", !.links = links] \in Job
  BY DEF Job, JobCalls

\* The owners PasswordsTypeOK asks for.
Owners ==
  /\ \A j \in Jobs : job[j].pc \in JobCalls => job[j].user \in Users
  /\ \A x \in Jobs : reset_tokens[x].doc # "none" => reset_tokens[x].user \in Users

PShapes ==
  /\ passwords \in [Users -> Jobs \cup {NoJob}]
  /\ reset_tokens \in [Jobs -> LinkDoc]
  /\ mails \in [Jobs -> {"none", "queued", "delivered", "lost"}]
  /\ job \in [Jobs -> Job]

LEMMA PasswordsTypeInit == PInit => PasswordsTypeOK
  BY NewJobType DEF PInit, PasswordsTypeOK, LinkDoc, NoLinkYet, NewJob, JobCalls

LEMMA PasswordsTypeNext ==
  PasswordsTypeOK /\ now \in Nat /\ [PNext]_allvars => PasswordsTypeOK'
<1> SUFFICES ASSUME PasswordsTypeOK, now \in Nat, [PNext]_allvars
             PROVE  PShapes' /\ Owners'
    BY DEF PasswordsTypeOK, PShapes, Owners
<1> DEFINE Goal == PShapes' /\ Owners'
<1>a. PShapes /\ Owners
  BY DEF PasswordsTypeOK, PShapes, Owners
<1> USE <1>a, PasswordConstants DEF PShapes
<1>1. ASSUME NEW j \in Jobs, NEW u \in Users, NEW call \in JobCalls,
             job' = [job EXCEPT ![j] = [@ EXCEPT !.pc = call, !.user = u]],
             UNCHANGED <<passwords, reset_tokens, mails>>
      PROVE  Goal
  <2>1. PShapes'
    BY <1>1, StartType
  <2>2. Owners'
    BY <1>1 DEF Owners, Job
  <2> QED
    BY <2>1, <2>2
<1>2. ASSUME NEW j \in Jobs, NEW x \in Jobs, ResetConsume(j, x) PROVE Goal
  <2>1. reset_tokens[x].user \in Users
    BY <1>2 DEF ResetConsume, Usable, LinkLive, Owners
  <2>2. PShapes'
    BY <1>2, <2>1, ConsumeType DEF ResetConsume, LinkDoc
  <2>3. Owners'
    BY <1>2, <2>1 DEF ResetConsume, Usable, LinkLive, Owners, Job, LinkDoc
  <2> QED
    BY <2>2, <2>3
<1>3. ASSUME NEW j \in Jobs, NEW call \in JobCalls \cup {"done"}, Continue(j, call),
             job[j].pc \in JobCalls \/ call = "done",
             passwords' \in [Users -> Jobs \cup {NoJob}], UNCHANGED <<reset_tokens, mails>>
      PROVE  Goal
  <2>1. PShapes'
    BY <1>3, ContinueType
  <2>2. Owners'
    BY <1>3 DEF Continue, Owners, Job, JobCalls
  <2> QED
    BY <2>1, <2>2
<1>4. ASSUME NEW j \in Jobs, StorePassword(j) PROVE Goal
  <2>1. job[j].pc \in JobCalls /\ passwords' \in [Users -> Jobs \cup {NoJob}]
    BY <1>4 DEF StorePassword, Doing, JobCalls
  <2> QED
    BY <1>3, <1>4, <2>1 DEF StorePassword, JobCalls
<1>5. ASSUME NEW j \in Jobs, NEW u \in Users, AdminUpdatePassword(j, u) PROVE Goal
  <2>1. passwords' \in [Users -> Jobs \cup {NoJob}]
    BY <1>5 DEF AdminUpdatePassword
  <2> QED
    BY <1>3, <1>5, <2>1 DEF AdminUpdatePassword
<1>6. ASSUME NEW j \in Jobs, RevokeAllStart(j) PROVE Goal
  <2>1. PShapes'
    BY <1>6, RevokeType DEF RevokeAllStart, LiveTokensOf
  <2>2. Owners'
    BY <1>6 DEF RevokeAllStart, Doing, Owners, Job, JobCalls
  <2> QED
    BY <2>1, <2>2
<1>7. ASSUME NEW j \in Jobs, DeleteLinksStart(j) PROVE Goal
  <2>1. PShapes'
    BY <1>7, DeleteType DEF DeleteLinksStart, LinksOf
  <2>2. Owners'
    BY <1>7 DEF DeleteLinksStart, Doing, Owners, Job, JobCalls
  <2> QED
    BY <2>1, <2>2
<1>8. ASSUME NEW j \in Jobs,
             RevokeAllDone(j) \/ DeleteLinksDone(j) \/ AbortJob(j)
      PROVE  Goal
  <2>1. PICK call \in JobCalls \cup {"done"} : Continue(j, call)
    BY <1>8 DEF RevokeAllDone, DeleteLinksDone, AbortJob, JobCalls
  <2>2. job[j].pc \in JobCalls /\ UNCHANGED <<passwords, reset_tokens, mails>>
    BY <1>8 DEF RevokeAllDone, DeleteLinksDone, AbortJob, Doing, JobCalls
  <2> QED
    BY <1>3, <2>1, <2>2
<1>9. ASSUME NEW j \in Jobs, InsertLink(j) PROVE Goal
  <2>1. job[j].user \in Users
    BY <1>9 DEF InsertLink, Doing, Owners, JobCalls
  <2>2. now + LinkTtl \in Nat
    OBVIOUS
  <2>3. [doc |-> "live", user |-> job[j].user, expires_at |-> now + LinkTtl] \in LinkDoc
    BY <2>1, <2>2 DEF LinkDoc
  <2>4. PShapes'
    BY <1>9, <2>3, ContinueType DEF InsertLink
  <2>5. Owners'
    BY <1>9, <2>1 DEF InsertLink, Continue, Owners, Job, JobCalls, LinkDoc
  <2> QED
    BY <2>4, <2>5
<1>10. ASSUME NEW x \in Jobs, NEW doc \in {"deleted", "purged"}, LinkStored(x),
              reset_tokens' = [reset_tokens EXCEPT ![x].doc = doc],
              UNCHANGED <<passwords, mails, job>>
       PROVE  Goal
  BY <1>10 DEF LinkStored, Owners, LinkDoc
<1>11. ASSUME NEW x \in Jobs, Deliver(x) \/ LoseMail(x) PROVE Goal
  BY <1>11 DEF Deliver, LoseMail, Owners
<1>12. ASSUME UNCHANGED pvars PROVE Goal
  BY <1>12 DEF pvars, Owners
<1>13. ASSUME NEW j \in Jobs, StartJob(j) PROVE Goal
  <2>1. ASSUME NEW u \in Users, ChangeRead(j, u) PROVE Goal
    BY <1>1, <2>1 DEF ChangeRead, JobCalls
  <2>2. ASSUME NEW u \in Forgetful, ForgotRead(j, u) PROVE Goal
    BY <1>1, <2>2 DEF ForgotRead, JobCalls
  <2> QED
    BY <1>2, <1>5, <1>13, <2>1, <2>2 DEF StartJob
<1>14. ASSUME NEW j \in Jobs, JobStep(j) PROVE Goal
  <2>1. CASE RevokeAllOne(j)
    BY <1>12, <2>1 DEF RevokeAllOne, pvars
  <2>2. CASE DeleteLinksOne(j)
    BY <1>10, <2>2 DEF DeleteLinksOne, LinksOf
  <2> QED
    BY <1>4, <1>6, <1>7, <1>8, <1>9, <1>14, <2>1, <2>2 DEF JobStep
<1>15. ASSUME NEW x \in Jobs, PurgeLink(x) PROVE Goal
  BY <1>10, <1>15 DEF PurgeLink
<1> QED
  BY <1>8, <1>11, <1>12, <1>13, <1>14, <1>15 DEF PNext, allvars, pvars

\* Links and jobs keep their shape, and a job knows the account it works for.
THEOREM PasswordsTypeCorrect == PSpec => []PasswordsTypeOK
<1>1. IInv => now \in Nat
  BY DEF IInv, TypeOK
<1> QED
  BY <1>1, IInvAlways, PasswordsTypeInit, PasswordsTypeNext, PTL DEF PSpec

-----------------------------------------------------------------------------
(* Reset links.  OneResetPerLink needs that a link becomes usable once, at *)
(* the end of the job that asked for it, and that a job takes one link, at *)
(* its start.                                                              *)

LinksOnce ==
  /\ \A j \in Jobs : job[j].pc # "done" => reset_tokens[j].doc = "none"
  /\ \A j \in Jobs : job[j].pc = "new" => job[j].link = NoJob

LInv == PasswordsTypeOK /\ OneResetPerLink /\ LinksOnce

LEMMA LInvNext == LInv /\ [PNext]_allvars => OneResetPerLink' /\ LinksOnce'
<1> DEFINE Goal == OneResetPerLink' /\ LinksOnce'
<1> SUFFICES ASSUME LInv, [PNext]_allvars PROVE Goal
    OBVIOUS
<1> USE PasswordConstants DEF LInv, PasswordsTypeOK, OneResetPerLink, LinksOnce
<1>1. ASSUME NEW j \in Jobs, NEW u \in Users, ChangeRead(j, u) \/ ForgotRead(j, u)
      PROVE  Goal
  <2>1. PICK call \in JobCalls :
          job' = [job EXCEPT ![j] = [@ EXCEPT !.pc = call, !.user = u]]
    BY <1>1 DEF ChangeRead, ForgotRead, JobCalls
  <2>2. job[j].pc = "new" /\ UNCHANGED reset_tokens
    BY <1>1 DEF ChangeRead, ForgotRead, Doing
  <2> QED
    BY <2>1, <2>2 DEF Job, JobCalls
<1>2. ASSUME NEW j \in Jobs, NEW x \in Jobs, ResetConsume(j, x) PROVE Goal
  BY <1>2 DEF ResetConsume, Usable, LinkLive, Doing, Job, LinkDoc
<1>3. ASSUME NEW j \in Jobs, NEW call \in JobCalls \cup {"done"}, Continue(j, call),
             job[j].pc # "done", UNCHANGED reset_tokens
      PROVE  Goal
  BY <1>3 DEF Continue, Job, JobCalls
<1>4. ASSUME NEW j \in Jobs,
             \/ StorePassword(j) \/ RevokeAllDone(j) \/ DeleteLinksDone(j) \/ AbortJob(j)
             \/ \E u \in Users : AdminUpdatePassword(j, u)
      PROVE  Goal
  <2>1. PICK call \in JobCalls \cup {"done"} : Continue(j, call)
    BY <1>4 DEF StorePassword, RevokeAllDone, DeleteLinksDone, AbortJob,
                AdminUpdatePassword, JobCalls
  <2>2. job[j].pc # "done" /\ UNCHANGED reset_tokens
    BY <1>4 DEF StorePassword, RevokeAllDone, DeleteLinksDone, AbortJob,
                AdminUpdatePassword, Doing, JobCalls
  <2> QED
    BY <1>3, <2>1, <2>2
<1>5. ASSUME NEW j \in Jobs, RevokeAllStart(j) \/ DeleteLinksStart(j) PROVE Goal
  <2>1. CASE RevokeAllStart(j)
    BY <2>1 DEF RevokeAllStart, Doing, Job
  <2>2. CASE DeleteLinksStart(j)
    BY <2>2 DEF DeleteLinksStart, Doing, Job
  <2> QED
    BY <1>5, <2>1, <2>2
<1>6. ASSUME NEW j \in Jobs, InsertLink(j) PROVE Goal
  BY <1>6 DEF InsertLink, Continue, Doing, Job, JobCalls, LinkDoc
<1>7. ASSUME NEW x \in Jobs, NEW doc \in {"deleted", "purged"}, LinkStored(x),
             reset_tokens' = [reset_tokens EXCEPT ![x].doc = doc], UNCHANGED job
      PROVE  Goal
  BY <1>7 DEF LinkStored, LinkDoc
<1>8. ASSUME UNCHANGED <<reset_tokens, job>> PROVE Goal
  BY <1>8
<1>9. ASSUME NEW j \in Jobs, StartJob(j) PROVE Goal
  BY <1>1, <1>2, <1>4, <1>9 DEF StartJob
<1>10. ASSUME NEW j \in Jobs, JobStep(j) PROVE Goal
  <2>1. CASE RevokeAllOne(j)
    BY <1>8, <2>1 DEF RevokeAllOne
  <2>2. CASE DeleteLinksOne(j)
    BY <1>7, <2>2 DEF DeleteLinksOne, LinksOf
  <2> QED
    BY <1>4, <1>5, <1>6, <1>10, <2>1, <2>2 DEF JobStep
<1>11. ASSUME NEW x \in Jobs, Deliver(x) \/ LoseMail(x) \/ PurgeLink(x) PROVE Goal
  BY <1>7, <1>8, <1>11 DEF Deliver, LoseMail, PurgeLink
<1> QED
  BY <1>4, <1>8, <1>9, <1>10, <1>11 DEF PNext, allvars, pvars

LEMMA LInvHolds == PSpec => []LInv
<1>1. PInit => OneResetPerLink /\ LinksOnce
  BY DEF PInit, OneResetPerLink, LinksOnce, NewJob, NoLinkYet
<1>2. PasswordsTypeOK /\ OneResetPerLink /\ LinksOnce /\ [PNext]_allvars
        => OneResetPerLink' /\ LinksOnce'
  BY LInvNext DEF LInv
<1>3. PasswordsTypeOK /\ OneResetPerLink /\ LinksOnce => LInv
  BY DEF LInv
<1> QED
  BY <1>1, <1>2, <1>3, PasswordsTypeCorrect, PTL DEF PSpec

\* A reset link serves one reset, of the account that asked for it, however many
\* requests present it and whatever fails after it is consumed.
THEOREM LinksServeOnce == PSpec => []OneResetPerLink
<1>1. LInv => OneResetPerLink
  BY DEF LInv
<1> QED
  BY <1>1, LInvHolds, PTL

-----------------------------------------------------------------------------
(* Links that coexist.  A forgot request that reached its insertion has    *)
(* deleted every link of the account but those of requests it overlapped;  *)
(* while it deletes, those that are left are before it.                    *)

\* The stored links of j's account whose requests j did not overlap.
Rivals(j) == {x \in Jobs : /\ LinkStored(x) /\ reset_tokens[x].user = job[j].user
                           /\ {x, j} \notin together}

LinksReached ==
  /\ \A x, y \in Forgetting : {x, y} \in together
  /\ \A j \in Jobs : Doing(j, "delete_many") => Rivals(j) \subseteq job[j].links
  /\ \A j \in Jobs : Doing(j, "insert_one") => Rivals(j) = {}

CInv == LInv /\ LinksReached /\ OnlyConcurrentLinksCoexist

\* A link is stored by the insertion that ends its request, and keeps its owner.
LinkStep(x) ==
  LinkStored(x)' =>
    \/ LinkStored(x) /\ reset_tokens'[x].user = reset_tokens[x].user
    \/ /\ Doing(x, "insert_one") /\ Doing(x, "done")'
       /\ reset_tokens'[x].user = job[x].user
       /\ \A y \in Jobs \ {x} : reset_tokens'[y] = reset_tokens[y]

\* A job in delete_many started from what was stored; one in insert_one found
\* all it had to reach gone.
ForgotStep(j) ==
  /\ j \in Forgetting' => job'[j].user = job[j].user \/ Doing(j, "new")
  /\ Doing(j, "delete_many")' =>
       \/ Doing(j, "delete_many") /\ job'[j] = job[j]
       \/ Doing(j, "replace") /\ job'[j].links = LinksOf(job[j].user) /\ UNCHANGED reset_tokens
  /\ Doing(j, "insert_one")' =>
       \/ Doing(j, "insert_one") /\ job'[j] = job[j]
       \/ /\ Doing(j, "delete_many") /\ UNCHANGED reset_tokens
          /\ \A x \in job[j].links : ~ LinkStored(x)

LEMMA LinkSteps ==
  ASSUME LInv, [PNext]_allvars
  PROVE  /\ \A x \in Jobs : LinkStep(x)
         /\ \A j \in Jobs : ForgotStep(j)
<1> DEFINE Goal == /\ \A x \in Jobs : LinkStep(x)
                   /\ \A j \in Jobs : ForgotStep(j)
<1>0. job \in [Jobs -> Job] /\ reset_tokens \in [Jobs -> LinkDoc]
  BY DEF LInv, PasswordsTypeOK
<1> USE <1>0 DEF LinkStep, ForgotStep, LinkStored, Doing, Forgetting
<1>1. ASSUME NEW j \in Jobs, \A k \in Jobs \ {j} : job'[k] = job[k],
             job'[j].pc \notin {"replace", "delete_many", "insert_one"},
             \A x \in Jobs : LinkStored(x)' =>
               LinkStored(x) /\ reset_tokens'[x].user = reset_tokens[x].user
      PROVE  Goal
  BY <1>1
<1>2. ASSUME NEW x \in Jobs, NEW doc, doc # "live", LinkStored(x),
             reset_tokens' = [reset_tokens EXCEPT ![x].doc = doc]
      PROVE  \A y \in Jobs : LinkStored(y)' =>
               LinkStored(y) /\ reset_tokens'[y].user = reset_tokens[y].user
  BY <1>2 DEF LinkDoc
<1>4. ASSUME NEW j \in Jobs, StartJob(j) PROVE Goal
  <2>1. ASSUME NEW u \in Users, ChangeRead(j, u) \/ AdminUpdatePassword(j, u) PROVE Goal
    <3>1. job'[j].pc \in {"update_password", "done"} /\ \A k \in Jobs \ {j} : job'[k] = job[k]
      <4>1. CASE ChangeRead(j, u)
        BY <4>1 DEF ChangeRead, Job
      <4>2. CASE AdminUpdatePassword(j, u)
        BY <4>2 DEF AdminUpdatePassword, Continue, Job
      <4> QED BY <2>1, <4>1, <4>2
    <3>2. UNCHANGED reset_tokens
      BY <2>1 DEF ChangeRead, AdminUpdatePassword
    <3> QED BY <1>1, <3>1, <3>2
  <2>2. ASSUME NEW u \in Forgetful, ForgotRead(j, u) PROVE Goal
    BY <2>2 DEF ForgotRead, Job
  <2>3. ASSUME NEW x \in Jobs, ResetConsume(j, x) PROVE Goal
    <3>1. job'[j].pc = "update_password" /\ \A k \in Jobs \ {j} : job'[k] = job[k]
      BY <2>3 DEF ResetConsume, Job
    <3>2. LinkStored(x) /\ reset_tokens' = [reset_tokens EXCEPT ![x].doc = "used"]
      BY <2>3 DEF ResetConsume, Usable, LinkLive
    <3> QED BY <1>1, <1>2, <3>1, <3>2
  <2> QED BY <1>4, <2>1, <2>2, <2>3 DEF StartJob
<1>5. ASSUME NEW j \in Jobs,
             \/ StorePassword(j) \/ RevokeAllStart(j) \/ RevokeAllDone(j) \/ AbortJob(j)
      PROVE  Goal
  <2>1. /\ job'[j].pc \in {"revoke_all", "update_many", "done"}
        /\ \A k \in Jobs \ {j} : job'[k] = job[k]
    <3>1. CASE RevokeAllStart(j)
      BY <3>1 DEF RevokeAllStart, Job
    <3>2. ASSUME NEW call \in {"revoke_all", "done"}, Continue(j, call)
          PROVE  job'[j].pc = call /\ \A k \in Jobs \ {j} : job'[k] = job[k]
      BY <3>2 DEF Continue, Job
    <3> QED BY <1>5, <3>1, <3>2 DEF StorePassword, RevokeAllDone, AbortJob
  <2>2. UNCHANGED reset_tokens
    BY <1>5 DEF StorePassword, RevokeAllStart, RevokeAllDone, AbortJob
  <2> QED BY <1>1, <2>1, <2>2
<1>6. ASSUME NEW j \in Jobs, DeleteLinksStart(j) \/ DeleteLinksDone(j) PROVE Goal
  <2>1. CASE DeleteLinksStart(j)
    BY <2>1 DEF DeleteLinksStart, Job
  <2>2. CASE DeleteLinksDone(j)
    BY <2>2 DEF DeleteLinksDone, Continue, Job
  <2> QED BY <1>6, <2>1, <2>2
<1>7. ASSUME NEW j \in Jobs, DeleteLinksOne(j) PROVE Goal
  <2>1. PICK x \in Jobs : /\ LinkStored(x)
                         /\ reset_tokens' = [reset_tokens EXCEPT ![x].doc = "deleted"]
    BY <1>7 DEF DeleteLinksOne, LinksOf
  <2> QED BY <1>2, <1>7, <2>1 DEF DeleteLinksOne
<1>8. ASSUME NEW j \in Jobs, InsertLink(j) PROVE Goal
  <2>1. /\ Doing(j, "insert_one") /\ Doing(j, "done")' /\ reset_tokens'[j].user = job[j].user
        /\ \A y \in Jobs \ {j} : reset_tokens'[y] = reset_tokens[y] /\ job'[y] = job[y]
    BY <1>8 DEF InsertLink, Continue, Job
  <2> QED BY <2>1
<1>9. ASSUME NEW x \in Jobs, PurgeLink(x) PROVE Goal
  BY <1>2, <1>9 DEF PurgeLink
<1>10. ASSUME UNCHANGED <<job, reset_tokens>> PROVE Goal
  BY <1>10
<1>11. ASSUME NEW x \in Jobs, RevokeAllOne(x) \/ Deliver(x) \/ LoseMail(x) PROVE Goal
  BY <1>10, <1>11 DEF RevokeAllOne, Deliver, LoseMail
<1> QED
  BY <1>4, <1>5, <1>6, <1>7, <1>8, <1>9, <1>10, <1>11
  DEF PNext, JobStep, pvars, allvars

LEMMA CInvNext == CInv /\ [LHNext]_lhvars => LinksReached' /\ OnlyConcurrentLinksCoexist'
<1> SUFFICES ASSUME CInv, [LHNext]_lhvars PROVE LinksReached' /\ OnlyConcurrentLinksCoexist'
  OBVIOUS
<1>1. LInv /\ LinksReached /\ OnlyConcurrentLinksCoexist /\ [PNext]_allvars
  BY DEF CInv, LHNext, lhvars, allvars
<1>2. together \subseteq together' /\ \A x, y \in Forgetting' : {x, y} \in together'
  BY <1>1 DEF LHNext, lhvars, Forgetting, LinksReached
<1>3. (\A x \in Jobs : LinkStep(x)) /\ \A j \in Jobs : ForgotStep(j)
  BY <1>1, LinkSteps
\* A link that is stored in this step is no rival of a job that was underway.
<1>4. ASSUME NEW x \in Jobs, NEW j \in Jobs, j \in Forgetting, {x, j} \notin together',
             LinkStored(x)'
      PROVE  LinkStored(x) /\ reset_tokens'[x].user = reset_tokens[x].user
  <2>1. x \notin Forgetting
    BY <1>1, <1>2, <1>4 DEF LinksReached
  <2> QED BY <1>3, <1>4, <2>1 DEF LinkStep, Forgetting, Doing
<1>5. ASSUME NEW j \in Jobs, Doing(j, "delete_many")' PROVE Rivals(j)' \subseteq job'[j].links
  <2> SUFFICES ASSUME NEW x \in Jobs, LinkStored(x)', reset_tokens'[x].user = job'[j].user,
                      {x, j} \notin together'
               PROVE  x \in job'[j].links
    BY DEF Rivals
  <2>1. j \in Forgetting /\ job'[j].user = job[j].user
    BY <1>3, <1>5 DEF ForgotStep, Forgetting, Doing
  <2>2. LinkStored(x) /\ reset_tokens[x].user = job[j].user
    BY <1>4, <2>1
  <2>3. CASE Doing(j, "delete_many")
    <3>1. x \in Rivals(j)
      BY <1>2, <2>2 DEF Rivals
    <3> QED BY <1>1, <1>3, <1>5, <2>3, <3>1 DEF ForgotStep, LinksReached, Doing
  <2>4. CASE ~ Doing(j, "delete_many")
    BY <1>3, <1>5, <2>2, <2>4 DEF ForgotStep, LinksOf
  <2> QED BY <2>3, <2>4
<1>6. ASSUME NEW j \in Jobs, Doing(j, "insert_one")' PROVE Rivals(j)' = {}
  <2> SUFFICES ASSUME NEW x \in Jobs, LinkStored(x)', reset_tokens'[x].user = job'[j].user,
                      {x, j} \notin together'
               PROVE  FALSE
    BY DEF Rivals
  <2>1. j \in Forgetting /\ job'[j].user = job[j].user
    BY <1>3, <1>6 DEF ForgotStep, Forgetting, Doing
  <2>2. LinkStored(x) /\ reset_tokens[x].user = job[j].user
    BY <1>4, <2>1
  <2>3. x \in Rivals(j)
    BY <1>2, <2>2 DEF Rivals
  <2> QED BY <1>1, <1>3, <1>6, <2>2, <2>3 DEF ForgotStep, LinksReached
<1>7. ASSUME NEW x \in Jobs, NEW y \in Jobs, LinkStored(x)', LinkStored(y)',
             reset_tokens'[x].user = reset_tokens'[y].user, x # y, ~ LinkStored(x)
      PROVE  {x, y} \in together'
  <2>1. /\ Doing(x, "insert_one") /\ reset_tokens'[x].user = job[x].user
        /\ reset_tokens'[y] = reset_tokens[y]
    BY <1>3, <1>7 DEF LinkStep
  <2>2. LinkStored(y) /\ reset_tokens[y].user = job[x].user
    BY <1>7, <2>1 DEF LinkStored
  <2>3. {y, x} \in together
    BY <1>1, <2>1, <2>2 DEF LinksReached, Rivals
  <2>4. {y, x} = {x, y}
    OBVIOUS
  <2> QED BY <1>2, <2>3, <2>4
<1>8. ASSUME NEW x \in Jobs, NEW y \in Jobs, LinkStored(x)', LinkStored(y)',
             reset_tokens'[x].user = reset_tokens'[y].user, x # y
      PROVE  {x, y} \in together'
  <2>1. CASE LinkStored(x) /\ LinkStored(y)
    BY <1>1, <1>2, <1>3, <1>8, <2>1
    DEF LinkStep, OnlyConcurrentLinksCoexist, LInv, LinksOnce, Doing, LinkStored
  <2>2. {y, x} = {x, y}
    OBVIOUS
  <2> QED BY <1>7, <1>8, <2>1, <2>2
<1>9. OnlyConcurrentLinksCoexist'
  BY <1>8 DEF OnlyConcurrentLinksCoexist
<1> QED BY <1>2, <1>5, <1>6, <1>9 DEF LinksReached

\* Two links of one account are stored together only if the requests for them
\* were in flight together: the deletion that comes before an insertion reached
\* every link that was there, and what it missed was inserted beside it.
THEOREM LinksCoexistByConcurrency == LHSpec => []OnlyConcurrentLinksCoexist
<1>1. LHInit => LinksReached /\ OnlyConcurrentLinksCoexist
  BY DEF LHInit, PInit, LinksReached, OnlyConcurrentLinksCoexist, Forgetting, Doing, LinkStored,
         NewJob, NoLinkYet
<1>2. LInv /\ LinksReached /\ OnlyConcurrentLinksCoexist /\ [LHNext]_lhvars
        => LinksReached' /\ OnlyConcurrentLinksCoexist'
  BY CInvNext DEF CInv
<1>3. LHSpec => PSpec
  <2>1. LHInit => PInit
    BY DEF LHInit
  <2>2. [LHNext]_lhvars => [PNext]_allvars
    BY DEF LHNext, lhvars, allvars
  <2> QED BY <2>1, <2>2, PTL DEF LHSpec, PSpec
<1> QED BY <1>1, <1>2, <1>3, LInvHolds, PTL DEF LHSpec

-----------------------------------------------------------------------------
(* Sessions and the passwords they rest on.  What a request or a usable    *)
(* token rests on comes from what was in flight or usable before, or is    *)
(* the password of the account: nothing else brings a password back.  A    *)
(* password that was replaced stays so: each job stores its own once.      *)

\* A request that may issue a token did so already, read the password, or took
\* the token of a session.
IssuerStep(r) ==
  MayIssue(r)' =>
    \/ MayIssue(r) /\ req'[r].user = req[r].user
    \/ At(r, "idle") /\ ~ Rotating(r)'
    \/ /\ At(r, "idle") /\ Rotating(r)'
       /\ \E t \in Tokens : /\ Live(t) /\ tokens[t].user = req'[r].user
                            /\ tokens' = [tokens EXCEPT ![t].doc = "revoked"]

\* A usable token was usable, or is the one a request has just stored.
TokenStep(t) ==
  Live(t)' =>
    \/ Live(t) /\ tokens'[t].user = tokens[t].user
    \/ /\ tokens[t].doc = "none"
       /\ \E r \in Requests : /\ At(r, "create") /\ ~ At(r, "create")'
                              /\ req[r].user = tokens'[t].user
                              /\ \A k \in Requests \ {r} : req'[k] = req[k]

LEMMA SessionSteps ==
  ASSUME TypeOK, [Next]_vars \/ RevokedOne
  PROVE  /\ \A r \in Requests : IssuerStep(r)
         /\ \A t \in Tokens : TokenStep(t)
<1> DEFINE Issuers == \A r \in Requests : IssuerStep(r)
           Stays == \A t \in Tokens : TokenStep(t)
<1>0. /\ req \in [Requests -> Request] /\ tokens \in [Tokens -> TokenDoc]
      /\ \A r \in Requests : At(r, "find_one") => req[r].token \in Tokens
  BY DEF TypeOK, FieldsSet, At
<1> USE <1>0
<1>i. ASSUME NEW p \in Requests, \A k \in Requests \ {p} : req'[k] = req[k],
             IssuerStep(p)
      PROVE  Issuers
  BY <1>i DEF IssuerStep, MayIssue, At
<1>t. ASSUME UNCHANGED tokens PROVE Stays
  BY <1>t DEF TokenStep, Live
<1>d. ASSUME NEW t \in Tokens, NEW doc \in {"revoked", "purged"},
             tokens' = [tokens EXCEPT ![t].doc = doc]
      PROVE  Stays
  BY <1>d DEF TokenStep, Live, TokenDoc
<1>r. ASSUME UNCHANGED req PROVE Issuers
  BY <1>r DEF IssuerStep, MayIssue
<1>a. ASSUME NEW p \in Requests, Answer(p) PROVE Issuers
  BY <1>a, <1>i DEF Answer, Idle, IssuerStep, MayIssue
<1>g. ASSUME NEW p \in Requests, NEW call, Goto(p, call), MayIssue(p)' => MayIssue(p)
      PROVE  Issuers
  BY <1>g, <1>i DEF Goto, Request, IssuerStep
<1>1. ASSUME NEW p \in Requests, NEW u \in Users, NEW ip \in IPs, LoginRead(p, u, ip)
      PROVE  Issuers /\ Stays
  <2>1. /\ \A k \in Requests \ {p} : req'[k] = req[k]
        /\ At(p, "idle") /\ req'[p].family = NoToken
    BY <1>1 DEF LoginRead, Idle
  <2> QED BY <1>1, <1>i, <1>t, <2>1 DEF LoginRead, IssuerStep, Rotating
<1>2. ASSUME NEW p \in Requests, NEW t \in Tokens, NEW ip \in IPs, RefreshRotate(p, t, ip)
      PROVE  Issuers /\ Stays
  <2>1. /\ \A k \in Requests \ {p} : req'[k] = req[k]
        /\ At(p, "idle") /\ req'[p].user = tokens[t].user
        /\ Live(t) /\ tokens' = [tokens EXCEPT ![t].doc = "revoked"]
    BY <1>2 DEF RefreshRotate, Rotatable, Idle
  <2> QED BY <1>d, <1>i, <2>1 DEF IssuerStep
<1>3. ASSUME NEW p \in Requests, NEW t \in Tokens, RefreshMiss(p, t) \/ Logout(p, t)
      PROVE  Issuers /\ Stays
  <2>1. UNCHANGED tokens
    BY <1>3 DEF RefreshMiss, Logout
  <2>2. /\ \A k \in Requests \ {p} : req'[k] = req[k]
        /\ req'[p].pc \in {"find_one", "revoke_family"}
    BY <1>3 DEF RefreshMiss, Logout, Idle
  <2> QED BY <1>i, <1>t, <2>1, <2>2 DEF IssuerStep, MayIssue
<1>4. ASSUME NEW p \in Requests, AddAllowedIp(p) \/ RecordLogin(p) PROVE Issuers /\ Stays
  <2>1. MayIssue(p) /\ UNCHANGED tokens /\ (Goto(p, "record") \/ Goto(p, "create"))
    BY <1>4 DEF AddAllowedIp, RecordLogin, MayIssue, At
  <2> QED BY <1>g, <1>t, <2>1
<1>5. ASSUME NEW p \in Requests, CreateSession(p) PROVE Issuers /\ Stays
  <2>1. Answer(p) /\ At(p, "create")
    BY <1>5 DEF CreateSession
  <2>2. ~ At(p, "create")' /\ \A k \in Requests \ {p} : req'[k] = req[k]
    BY <2>1 DEF Answer, Idle, At
  <2>3. ASSUME NEW t \in Tokens PROVE TokenStep(t)
    BY <1>5, <2>1, <2>2 DEF CreateSession, TokenStep, Live, TokenDoc
  <2> QED BY <1>a, <2>1, <2>3
<1>6. ASSUME NEW p \in Requests, RefreshLookup(p) PROVE Issuers /\ Stays
  <2>1. UNCHANGED tokens
    BY <1>6 DEF RefreshLookup
  <2>2. CASE tokens[req[p].token].doc = "revoked"
    <3>1. /\ \A k \in Requests \ {p} : req'[k] = req[k]
          /\ req'[p].pc = "revoke_family"
      BY <1>6, <2>2 DEF RefreshLookup, Idle
    <3> QED BY <1>i, <1>t, <2>1, <3>1 DEF IssuerStep, MayIssue
  <2>3. CASE tokens[req[p].token].doc # "revoked"
    BY <1>6, <1>a, <1>t, <2>1, <2>3 DEF RefreshLookup
  <2> QED BY <2>2, <2>3
<1>7. ASSUME NEW p \in Requests, RefreshReadUser(p) PROVE Issuers /\ Stays
  <2>1. MayIssue(p) /\ UNCHANGED tokens
    BY <1>7 DEF RefreshReadUser, MayIssue, At
  <2>2. Answer(p) \/ Goto(p, "revoke_family") \/ Goto(p, "create")
    BY <1>7 DEF RefreshReadUser
  <2> QED BY <1>a, <1>g, <1>t, <2>1, <2>2
<1>8. ASSUME NEW p \in Requests, RevokeStart(p) PROVE Issuers /\ Stays
  <2>1. UNCHANGED tokens
    BY <1>8 DEF RevokeStart
  <2>2. /\ \A k \in Requests \ {p} : req'[k] = req[k]
        /\ req'[p].pc = "update_many"
    BY <1>8 DEF RevokeStart, Request
  <2> QED BY <1>i, <1>t, <2>1, <2>2 DEF IssuerStep, MayIssue
<1>9. ASSUME NEW p \in Requests, RevokeOne(p) PROVE Issuers /\ Stays
  <2>1. UNCHANGED req /\ \E t \in Tokens : tokens' = [tokens EXCEPT ![t].doc = "revoked"]
    BY <1>9 DEF RevokeOne, LiveIn
  <2> QED BY <1>d, <1>r, <2>1
<1>10. ASSUME NEW p \in Requests, RevokeDone(p) \/ Abort(p) PROVE Issuers /\ Stays
  BY <1>10, <1>a, <1>t DEF RevokeDone, Abort
<1>11. ASSUME NEW u \in Users, Admin(u) PROVE Issuers /\ Stays
  BY <1>11, <1>r, <1>t DEF Admin, UpdateStatus, UpdateWhitelist, DeleteUser
<1>12. ASSUME NEW t \in Tokens, Purge(t) PROVE Issuers /\ Stays
  BY <1>12, <1>d, <1>r DEF Purge
<1>13. CASE Tick \/ UNCHANGED vars
  BY <1>13, <1>r, <1>t DEF Tick, vars
<1>14. CASE RevokedOne
  BY <1>14, <1>d, <1>r DEF RevokedOne
<1>15. ASSUME NEW p \in Requests, Arrive(p) \/ Step(p) PROVE Issuers /\ Stays
  BY <1>1, <1>2, <1>3, <1>4, <1>5, <1>6, <1>7, <1>8, <1>9, <1>10, <1>15 DEF Arrive, Step
<1> QED
  BY <1>10, <1>11, <1>12, <1>13, <1>14, <1>15 DEF Next

\* A request in flight rests on password p of u.
InFlight(u, p) ==
  \E r \in Requests : MayIssue(r) /\ req[r].user = u /\ proof[r] = p

\* So does a usable token.
Rests(t, u, p) == Live(t) /\ tokens[t].user = u /\ opened[t] = p

LEMMA InFlightStep ==
  ASSUME TypeOK, PHNext, NEW u, NEW p, InFlight(u, p)'
  PROVE  InFlight(u, p) \/ p = passwords[u] \/ \E t \in Tokens : Rests(t, u, p)
<1> PICK r \in Requests : MayIssue(r)' /\ req'[r].user = u /\ proof'[r] = p
  BY DEF InFlight
<1>1. IssuerStep(r)
  BY PasswordSteps, SessionSteps DEF PHNext
<1>2. proof'[r] = ProofOf(r)
  BY DEF PHNext
<1>3. ~ At(r, "idle")'
  BY DEF MayIssue, At
<1>4. CASE MayIssue(r) /\ req'[r].user = req[r].user
  <2>1. ~ At(r, "idle")
    BY <1>4 DEF MayIssue, At
  <2>2. proof'[r] = proof[r]
    BY <1>2, <1>3, <2>1 DEF ProofOf
  <2> QED BY <1>4, <2>2 DEF InFlight
<1>5. CASE At(r, "idle") /\ ~ Rotating(r)'
  <2>1. proof'[r] = passwords[req'[r].user]
    BY <1>2, <1>3, <1>5 DEF ProofOf
  <2> QED BY <2>1
<1>6. CASE /\ At(r, "idle") /\ Rotating(r)'
           /\ \E t \in Tokens : /\ Live(t) /\ tokens[t].user = req'[r].user
                                /\ tokens' = [tokens EXCEPT ![t].doc = "revoked"]
  <2> PICK t \in Tokens : /\ Live(t) /\ tokens[t].user = req'[r].user
                          /\ tokens' = [tokens EXCEPT ![t].doc = "revoked"]
    BY <1>6
  <2>1. proof'[r] = opened[CHOOSE x \in Tokens : x \in Taken \/ Taken = {}]
    BY <1>2, <1>3, <1>6 DEF ProofOf
  <2>2. Taken = {t}
    BY DEF Taken, TypeOK, TokenDoc, Live
  <2>3. (CHOOSE x \in Tokens : x \in Taken \/ Taken = {}) = t
    BY <2>2
  <2> QED BY <2>1, <2>3 DEF Rests
<1> QED BY <1>1, <1>4, <1>5, <1>6 DEF IssuerStep

LEMMA RestsStep ==
  ASSUME TypeOK, PHNext, NEW t \in Tokens, NEW u, NEW p, Rests(t, u, p)'
  PROVE  Rests(t, u, p) \/ InFlight(u, p)
<1>1. TokenStep(t) /\ Live(t)'
  BY PasswordSteps, SessionSteps DEF PHNext, Rests
<1>2. opened'[t] = IF tokens[t].doc = "none" /\ tokens'[t].doc # "none"
                   THEN Opener ELSE opened[t]
  BY DEF PHNext
<1>3. CASE Live(t) /\ tokens'[t].user = tokens[t].user
  BY <1>2, <1>3 DEF Rests, Live
<1>4. CASE /\ tokens[t].doc = "none"
           /\ \E r \in Requests : /\ At(r, "create") /\ ~ At(r, "create")'
                                  /\ req[r].user = tokens'[t].user
                                  /\ \A k \in Requests \ {r} : req'[k] = req[k]
  <2> PICK r \in Requests : /\ At(r, "create") /\ ~ At(r, "create")'
                            /\ req[r].user = tokens'[t].user
                            /\ \A k \in Requests \ {r} : req'[k] = req[k]
    BY <1>4
  <2>1. \A k \in Requests : At(k, "create") /\ ~ At(k, "create")' <=> k = r
    BY DEF At
  <2>2. (CHOOSE k \in Requests : At(k, "create") /\ ~ At(k, "create")') = r
    BY <2>1
  <2>3. opened'[t] = proof[r]
    BY <1>1, <1>2, <1>4, <2>2 DEF Opener, Live
  <2> QED BY <2>3 DEF Rests, InFlight, MayIssue, At
<1> QED BY <1>1, <1>3, <1>4 DEF TokenStep

-----------------------------------------------------------------------------
(* What the jobs do to passwords and revocations.                          *)

\* A password is stored by a job that had stored none.
PasswordStep ==
  \/ UNCHANGED passwords
  \/ \E k \in Jobs, u \in Users :
       /\ job[k].pc \in {"new", "update_password"}
       /\ job'[k].pc \in {"revoke_all", "done"}
       /\ passwords' = [passwords EXCEPT ![u] = k]

\* How a job comes to be about to store, and to revoke.
RevokerStep(j) ==
  /\ job'[j].pc \in {"new", "update_password"} => job[j].pc \in {"new", "update_password"}
  /\ Doing(j, "revoke_all")' =>
       \/ Doing(j, "revoke_all") /\ job'[j] = job[j]
       \/ /\ Doing(j, "update_password") /\ job'[j].user = job[j].user
          /\ passwords' = [passwords EXCEPT ![job[j].user] = j]
  /\ Revoking(j)' =>
       \/ Revoking(j) /\ job'[j] = job[j]
       \/ /\ Doing(j, "revoke_all") /\ job'[j].user = job[j].user
          /\ job'[j].todo = LiveTokensOf(job[j].user) /\ UNCHANGED tokens

LEMMA JobSteps ==
  ASSUME PasswordsTypeOK, PNext
  PROVE  PasswordStep /\ \A j \in Jobs : RevokerStep(j)
<1> DEFINE Goal == PasswordStep /\ \A j \in Jobs : RevokerStep(j)
<1>0. job \in [Jobs -> Job] /\ \A j \in Jobs : job[j].pc \in JobCalls => job[j].user \in Users
  BY DEF PasswordsTypeOK
<1> USE <1>0
<1>s. ASSUME UNCHANGED <<passwords, job>> PROVE Goal
  BY <1>s DEF PasswordStep, RevokerStep, Doing, Revoking
<1>m. ASSUME NEW k \in Jobs, \A i \in Jobs \ {k} : job'[i] = job[i], RevokerStep(k), PasswordStep
      PROVE  Goal
  BY <1>m DEF RevokerStep, Doing, Revoking
<1>c. ASSUME NEW k \in Jobs, NEW call, Continue(k, call)
      PROVE  /\ \A i \in Jobs \ {k} : job'[i] = job[i]
             /\ job'[k].pc = call /\ job'[k].user = job[k].user
  BY <1>c DEF Continue, Job
<1>q. ASSUME NEW k \in Jobs, \A i \in Jobs \ {k} : job'[i] = job[i], UNCHANGED passwords,
             \/ job'[k].pc \in {"done", "replace", "delete_many", "insert_one"}
             \/ job[k].pc = "new" /\ job'[k].pc = "update_password"
      PROVE  Goal
  BY <1>m, <1>q DEF RevokerStep, PasswordStep, Doing, Revoking
<1>1. ASSUME NEW k \in Jobs, NEW u \in Users, ChangeRead(k, u) PROVE Goal
  <2>1. /\ \A i \in Jobs \ {k} : job'[i] = job[i]
        /\ job[k].pc = "new" /\ job'[k].pc = "update_password" /\ UNCHANGED passwords
    BY <1>1 DEF ChangeRead, Doing, Job
  <2> QED BY <1>q, <2>1
<1>2. ASSUME NEW k \in Jobs, NEW u \in Users, ForgotRead(k, u) PROVE Goal
  <2>1. /\ \A i \in Jobs \ {k} : job'[i] = job[i]
        /\ job'[k].pc = "replace" /\ UNCHANGED passwords
    BY <1>2 DEF ForgotRead, Doing, Job
  <2> QED BY <1>q, <2>1
<1>3. ASSUME NEW k \in Jobs, NEW x \in Jobs, ResetConsume(k, x) PROVE Goal
  <2>1. /\ \A i \in Jobs \ {k} : job'[i] = job[i]
        /\ job[k].pc = "new" /\ job'[k].pc = "update_password" /\ UNCHANGED passwords
    BY <1>3 DEF ResetConsume, Doing, Job
  <2> QED BY <1>q, <2>1
<1>4. ASSUME NEW k \in Jobs, NEW u \in Users, AdminUpdatePassword(k, u) PROVE Goal
  <2>1. /\ \A i \in Jobs \ {k} : job'[i] = job[i]
        /\ job[k].pc = "new" /\ job'[k].pc = "done"
        /\ passwords' = [passwords EXCEPT ![u] = k]
    BY <1>4, <1>c DEF AdminUpdatePassword, Doing
  <2> QED BY <1>m, <2>1 DEF RevokerStep, PasswordStep, Doing, Revoking
<1>5. ASSUME NEW k \in Jobs, StorePassword(k) PROVE Goal
  <2>1. CASE users[job[k].user].exists
    <3>1. /\ \A i \in Jobs \ {k} : job'[i] = job[i]
          /\ job[k].pc = "update_password" /\ job'[k].pc = "revoke_all"
          /\ job'[k].user = job[k].user /\ job[k].user \in Users
          /\ passwords' = [passwords EXCEPT ![job[k].user] = k]
      BY <1>5, <1>c, <2>1 DEF StorePassword, Doing, JobCalls
    <3> QED BY <1>m, <3>1 DEF RevokerStep, PasswordStep, Doing, Revoking
  <2>2. CASE ~ users[job[k].user].exists
    BY <1>5, <1>c, <1>q, <2>2 DEF StorePassword
  <2> QED BY <2>1, <2>2
<1>6. ASSUME NEW k \in Jobs, RevokeAllStart(k) PROVE Goal
  <2>1. /\ \A i \in Jobs \ {k} : job'[i] = job[i]
        /\ job[k].pc = "revoke_all" /\ job'[k].pc = "update_many"
        /\ job'[k].user = job[k].user /\ job'[k].todo = LiveTokensOf(job[k].user)
        /\ UNCHANGED <<passwords, tokens>>
    BY <1>6 DEF RevokeAllStart, Doing, Job
  <2> QED BY <1>m, <2>1 DEF RevokerStep, PasswordStep, Doing, Revoking
<1>7. ASSUME NEW k \in Jobs, RevokeAllOne(k) \/ DeleteLinksOne(k) PROVE Goal
  BY <1>7, <1>s DEF RevokeAllOne, DeleteLinksOne
<1>8. ASSUME NEW k \in Jobs, DeleteLinksStart(k) PROVE Goal
  <2>1. /\ \A i \in Jobs \ {k} : job'[i] = job[i]
        /\ job'[k].pc = "delete_many" /\ UNCHANGED passwords
    BY <1>8 DEF DeleteLinksStart, Job
  <2> QED BY <1>q, <2>1
<1>9. ASSUME NEW k \in Jobs,
             RevokeAllDone(k) \/ DeleteLinksDone(k) \/ InsertLink(k) \/ AbortJob(k)
      PROVE  Goal
  <2>1. UNCHANGED passwords /\ (Continue(k, "done") \/ Continue(k, "insert_one"))
    BY <1>9 DEF RevokeAllDone, DeleteLinksDone, InsertLink, AbortJob
  <2> QED BY <1>c, <1>q, <2>1
<1>10. ASSUME NEW x \in Jobs, Deliver(x) \/ LoseMail(x) \/ PurgeLink(x) PROVE Goal
  BY <1>10, <1>s DEF Deliver, LoseMail, PurgeLink
<1>11. CASE UNCHANGED pvars
  BY <1>11, <1>s DEF pvars
<1>12. ASSUME NEW k \in Jobs, StartJob(k) PROVE Goal
  BY <1>1, <1>2, <1>3, <1>4, <1>12, PasswordConstants DEF StartJob
<1>13. ASSUME NEW k \in Jobs, JobStep(k) PROVE Goal
  BY <1>5, <1>6, <1>7, <1>8, <1>9, <1>13 DEF JobStep
<1> QED
  BY <1>9, <1>10, <1>11, <1>12, <1>13 DEF PNext

-----------------------------------------------------------------------------
(* Passwords that are over.                                                *)

\* A job that has not stored its password yet is nobody's password.
FreshJobs ==
  \A k \in Jobs : job[k].pc \in {"new", "update_password"} => \A u \in Users : k \notin had[u]

\* What a job disposes of was replaced.
Replaced ==
  /\ \A u \in Users : passwords[u] \in had[u] \ over[u] /\ over[u] \subseteq had[u]
  /\ \A j \in Jobs : job[j].pc \in {"revoke_all", "update_many"} =>
       earlier[j] \subseteq had[job[j].user] \ {passwords[job[j].user]}

\* A revocation that was not overtaken has to reach all that is usable.
RevocationReaches ==
  \A j \in Jobs : Revoking(j) /\ j \notin overtaken =>
    \A p \in earlier[j] :
      /\ ~ InFlight(job[j].user, p)
      /\ \A t \in Tokens : Rests(t, job[j].user, p) => t \in job[j].todo

\* Nothing in flight or usable rests on a password that is over.
OverEnded ==
  \A u \in Users : \A p \in over[u] :
    ~ InFlight(u, p) /\ \A t \in Tokens : ~ Rests(t, u, p)

OInv ==
  IInv /\ PasswordsTypeOK /\ FreshJobs /\ Replaced /\ RevocationReaches /\ OverEnded

LEMMA ReplacedNext ==
  ASSUME OInv, PHNext PROVE FreshJobs' /\ Replaced'
<1>1. PasswordStep /\ \A j \in Jobs : RevokerStep(j)
  BY JobSteps DEF OInv, PHNext
<1>2. /\ had' = [u \in Users |-> had[u] \cup {passwords'[u]}]
      /\ over' = [u \in Users |->
           over[u] \cup UNION {earlier[j] : j \in RevokedFor(u) \ overtaken}]
  BY DEF PHNext
<1>3. passwords \in [Users -> Jobs \cup {NoJob}]
      /\ \A j \in Jobs : job[j].pc \in JobCalls => job[j].user \in Users
  BY DEF OInv, PasswordsTypeOK
<1>4. \A u \in Users : passwords'[u] = passwords[u] \/ passwords'[u] \notin had[u]
  BY <1>1, <1>3 DEF PasswordStep, OInv, FreshJobs
<1>5. FreshJobs'
  <2> SUFFICES ASSUME NEW k \in Jobs, job'[k].pc \in {"new", "update_password"},
                      NEW u \in Users
               PROVE  k \notin had'[u]
    BY DEF FreshJobs
  <2>1. k \notin had[u]
    BY <1>1 DEF RevokerStep, OInv, FreshJobs
  <2>2. passwords'[u] # k
    BY <1>1, <1>3, <2>1 DEF PasswordStep, OInv, Replaced
  <2> QED BY <1>2, <2>1, <2>2
<1>6. ASSUME NEW u \in Users
      PROVE  passwords'[u] \in had'[u] \ over'[u] /\ over'[u] \subseteq had'[u]
  <2>1. ASSUME NEW p \in over'[u] PROVE p \in had[u] /\ p # passwords[u]
    <3>1. CASE p \in over[u]
      BY <3>1 DEF OInv, Replaced
    <3>2. ASSUME NEW j \in RevokedFor(u), p \in earlier[j] PROVE p \in had[u] /\ p # passwords[u]
      BY <3>2 DEF RevokedFor, Revoking, Doing, OInv, Replaced
    <3> QED BY <1>2, <2>1, <3>1, <3>2
  <2> QED BY <1>2, <1>4, <2>1
<1>7. ASSUME NEW j \in Jobs, job'[j].pc \in {"revoke_all", "update_many"}
      PROVE  earlier'[j] \subseteq had'[job'[j].user] \ {passwords'[job'[j].user]}
  <2>0. earlier'[j] = IF Doing(j, "update_password") /\ Doing(j, "revoke_all")'
                      THEN had[job[j].user] ELSE earlier[j]
    BY <1>7 DEF PHNext, Doing
  <2>1. CASE /\ job[j].pc \in {"revoke_all", "update_many"} /\ job'[j].user = job[j].user
    <3>1. earlier'[j] = earlier[j] /\ job[j].user \in Users
      BY <1>3, <2>0, <2>1 DEF Doing, JobCalls
    <3>2. earlier[j] \subseteq had[job[j].user] \ {passwords[job[j].user]}
      BY <2>1 DEF OInv, Replaced
    <3> QED BY <1>2, <1>4, <2>1, <3>1, <3>2
  <2>2. CASE /\ Doing(j, "update_password") /\ Doing(j, "revoke_all")'
             /\ job'[j].user = job[j].user
             /\ passwords' = [passwords EXCEPT ![job[j].user] = j]
    <3>1. earlier'[j] = had[job[j].user] /\ job[j].user \in Users
      BY <1>3, <2>0, <2>2 DEF Doing, JobCalls
    <3>2. j \notin had[job[j].user] /\ passwords'[job[j].user] = j
      BY <1>3, <2>2, <3>1 DEF Doing, OInv, FreshJobs
    <3> QED BY <1>2, <2>2, <3>1, <3>2
  <2> QED BY <1>1, <1>7, <2>1, <2>2 DEF RevokerStep, Doing, Revoking
<1> QED BY <1>5, <1>6, <1>7 DEF Replaced

LEMMA ReachesNext ==
  ASSUME OInv, PHNext PROVE RevocationReaches' /\ OverEnded'
<1>0. TypeOK
  BY DEF OInv, IInv
<1>1. ASSUME NEW j \in Jobs, Revoking(j)', j \notin overtaken', NEW p \in earlier'[j],
             NEW u, u = job'[j].user
      PROVE  /\ ~ InFlight(u, p)'
             /\ \A t \in Tokens : Rests(t, u, p)' => t \in job'[j].todo
  <2>1. j \notin overtaken /\ ~ Overtaken(j)'
    BY <1>1 DEF PHNext
  <2>2. ~ InFlight(u, p)'
    BY <1>1, <2>1 DEF Overtaken, InFlight
  <2>3. RevokerStep(j)
    BY JobSteps DEF OInv, PHNext
  <2>4. earlier'[j] = earlier[j]
    BY <1>1 DEF PHNext, Revoking, Doing
  <2>5. CASE Revoking(j) /\ job'[j] = job[j]
    <3>1. ~ InFlight(u, p) /\ \A t \in Tokens : Rests(t, u, p) => t \in job[j].todo
      BY <1>1, <2>1, <2>4, <2>5 DEF OInv, RevocationReaches
    <3>2. ASSUME NEW t \in Tokens, Rests(t, u, p)' PROVE t \in job[j].todo
      BY <1>0, <3>1, <3>2, RestsStep
    <3> QED BY <2>2, <2>5, <3>2
  <2>6. CASE /\ Doing(j, "revoke_all") /\ job'[j].user = job[j].user
             /\ job'[j].todo = LiveTokensOf(job[j].user) /\ UNCHANGED tokens
    BY <1>1, <2>2, <2>6 DEF LiveTokensOf, Rests, Live
  <2> QED BY <1>1, <2>3, <2>5, <2>6 DEF RevokerStep
<1>2. ASSUME NEW u \in Users, NEW p \in over'[u]
      PROVE  ~ InFlight(u, p)' /\ \A t \in Tokens : ~ Rests(t, u, p)'
  <2>1. p # passwords[u] /\ ~ InFlight(u, p) /\ \A t \in Tokens : ~ Rests(t, u, p)
    <3>1. CASE p \in over[u]
      BY <3>1 DEF OInv, Replaced, OverEnded
    <3>2. ASSUME NEW j \in RevokedFor(u) \ overtaken, p \in earlier[j]
          PROVE  p # passwords[u] /\ ~ InFlight(u, p) /\ \A t \in Tokens : ~ Rests(t, u, p)
      BY <3>2 DEF RevokedFor, Revoking, Doing, Rests, OInv, Replaced, RevocationReaches
    <3>3. over'[u] = over[u] \cup UNION {earlier[j] : j \in RevokedFor(u) \ overtaken}
      BY DEF PHNext
    <3> QED BY <1>2, <3>1, <3>2, <3>3
  <2> QED BY <1>0, <2>1, InFlightStep, RestsStep
<1> QED BY <1>1, <1>2 DEF RevocationReaches, OverEnded

LEMMA OInvNext == OInv /\ [PHNext]_phvars => OInv'
<1> SUFFICES ASSUME OInv, [PHNext]_phvars PROVE OInv'
  OBVIOUS
<1>1. IInv' /\ PasswordsTypeOK'
  BY IInvPNext, PasswordsTypeNext DEF OInv, IInv, TypeOK, PHNext, phvars, allvars
<1>2. CASE PHNext
  BY <1>1, <1>2, ReplacedNext, ReachesNext DEF OInv
<1>3. CASE UNCHANGED phvars
  <2>1. FreshJobs' /\ Replaced'
    BY <1>3 DEF phvars, OInv, FreshJobs, Replaced
  <2>2. RevocationReaches' /\ OverEnded'
    BY <1>3 DEF phvars, OInv, RevocationReaches, OverEnded, InFlight, Rests, Revoking,
                Doing, MayIssue, Live
  <2> QED BY <1>1, <2>1, <2>2 DEF OInv
<1> QED BY <1>2, <1>3

\* Once a change or a reset of a password has revoked the sessions of the
\* account, undisturbed, no session that rests on an earlier password is usable
\* ever again, whatever logins, refreshes, changes, resets and failures follow.
THEOREM QuietChangesEndSessions == PHSpec => []QuietChangeEndsSessions
<1>1. PHInit => OInv
  <2>1. PInit => IInv /\ PasswordsTypeOK
    BY IInvInit, PasswordsTypeInit DEF PInit
  <2>2. PHInit => FreshJobs /\ Replaced /\ RevocationReaches /\ OverEnded
    BY PasswordConstants DEF PHInit, PInit, NewJob, FreshJobs, Replaced, RevocationReaches,
                             OverEnded, Revoking, Doing
  <2> QED BY <2>1, <2>2 DEF PHInit, OInv
<1>2. OInv => QuietChangeEndsSessions
  <2> SUFFICES ASSUME OInv, NEW t \in Tokens, Live(t) PROVE opened[t] \notin over[tokens[t].user]
    BY DEF QuietChangeEndsSessions
  <2>1. tokens[t].user \in Users
    BY DEF OInv, IInv, TypeOK, FieldsSet, Live
  <2>2. Rests(t, tokens[t].user, opened[t])
    BY DEF Rests
  <2> QED BY <2>1, <2>2 DEF OInv, OverEnded
<1> QED BY <1>1, <1>2, OInvNext, PTL DEF PHSpec
=============================================================================
