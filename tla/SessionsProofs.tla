--------------------------- MODULE SessionsProofs ---------------------------
(***************************************************************************)
(* Theorems about Sessions, for any number of accounts, tokens, requests   *)
(* and addresses.                                                          *)
(***************************************************************************)
EXTENDS SessionsHistory, TLAPS

-----------------------------------------------------------------------------
(* Type correctness.                                                       *)

LEMMA IdleType == Idle \in Request
  BY DEF Idle, Request

\* A request stays a request when it moves to another call.
LEMMA GotoType ==
  ASSUME req \in [Requests -> Request], NEW r \in Requests, NEW call \in Calls,
         Goto(r, call)
  PROVE  req' \in [Requests -> Request]
  BY DEF Goto, Request

\* ... and when it is answered.
LEMMA AnswerType ==
  ASSUME req \in [Requests -> Request], NEW r \in Requests, Answer(r)
  PROVE  req' \in [Requests -> Request]
  BY IdleType DEF Answer

\* TypeOK without FieldsSet.
Shapes ==
  /\ now \in Nat
  /\ users \in [Users -> UserDoc]
  /\ tokens \in [Tokens -> TokenDoc]
  /\ login_events \subseteq Users
  /\ req \in [Requests -> Request]

\* ... and when update_many notes what it has to reach.
LEMMA ScanType ==
  ASSUME NEW q \in Request, NEW todo \in SUBSET Tokens
  PROVE  [q EXCEPT !.pc = "update_many", !.todo = todo] \in Request
  BY DEF Request, Calls

LEMMA WhitelistType ==
  ASSUME NEW user \in UserDoc, NEW only \in BOOLEAN, NEW ips \in SUBSET IPs
  PROVE  [user EXCEPT !.whitelist_only = only, !.allowed_ips = ips] \in UserDoc
  BY DEF UserDoc

LEMMA TypeInit == Init => TypeOK
<1>1. Init => Shapes
  BY ConstantsAssumption, IdleType
  DEF Init, Shapes, UserDoc, NewUser, TokenDoc, Unissued, Statuses
<1>2. Init => FieldsSet
  BY DEF Init, FieldsSet, MayIssue, Idle, Unissued
<1> QED
  BY <1>1, <1>2 DEF TypeOK, Shapes

LEMMA ShapesNext == TypeOK /\ [Next]_vars => Shapes'
<1> SUFFICES ASSUME TypeOK, [Next]_vars PROVE Shapes'
    OBVIOUS
<1> USE ConstantsAssumption DEF TypeOK, Shapes
<1>1. ASSUME NEW r \in Requests, NEW u \in Users, NEW ip \in IPs, LoginRead(r, u, ip)
      PROVE  Shapes'
  <2>1. [Idle EXCEPT !.pc = IF ip \in users[u].allowed_ips
                            THEN "record" ELSE "add_allowed_ip",
                     !.user = u, !.ip = ip] \in Request
    BY IdleType DEF Request, Calls
  <2> QED
    BY <1>1, <2>1 DEF LoginRead
<1>2. ASSUME NEW r \in Requests, NEW t \in Tokens, NEW ip \in IPs, RefreshRotate(r, t, ip)
      PROVE  Shapes'
  <2>1. [Idle EXCEPT !.pc = "find_by_id", !.user = tokens[t].user,
                     !.family = tokens[t].family, !.ip = ip] \in Request
    BY IdleType DEF Request, Calls, TokenDoc
  <2>2. req' \in [Requests -> Request]
    BY <1>2, <2>1 DEF RefreshRotate
  <2>3. tokens' \in [Tokens -> TokenDoc]
    BY <1>2 DEF RefreshRotate, TokenDoc
  <2> QED
    BY <1>2, <2>2, <2>3 DEF RefreshRotate
<1>3. ASSUME NEW r \in Requests, NEW t \in Tokens, RefreshMiss(r, t)
      PROVE  Shapes'
  <2>1. [Idle EXCEPT !.pc = "find_one", !.token = t] \in Request
    BY IdleType DEF Request, Calls
  <2> QED
    BY <1>3, <2>1 DEF RefreshMiss
<1>4. ASSUME NEW r \in Requests, NEW t \in Tokens, Logout(r, t)
      PROVE  Shapes'
  <2>1. [Idle EXCEPT !.pc = "revoke_family", !.family = tokens[t].family] \in Request
    BY IdleType DEF Request, Calls, TokenDoc
  <2> QED
    BY <1>4, <2>1 DEF Logout
<1>5. ASSUME NEW r \in Requests, AddAllowedIp(r) PROVE Shapes'
  <2>1. req' \in [Requests -> Request]
    BY <1>5, GotoType DEF AddAllowedIp, Calls
  <2>2. req[r].ip \in IPs
    BY <1>5 DEF AddAllowedIp, At, FieldsSet, MayIssue
  <2>3. users' \in [Users -> UserDoc]
    BY <1>5, <2>2 DEF AddAllowedIp, UserDoc
  <2> QED
    BY <1>5, <2>1, <2>3 DEF AddAllowedIp
<1>6. ASSUME NEW r \in Requests, RecordLogin(r) PROVE Shapes'
  <2>1. req' \in [Requests -> Request]
    BY <1>6, GotoType DEF RecordLogin, Calls
  <2>2. req[r].user \in Users
    BY <1>6 DEF RecordLogin, At, FieldsSet, MayIssue
  <2> QED
    BY <1>6, <2>1, <2>2 DEF RecordLogin
<1>7. ASSUME NEW r \in Requests, CreateSession(r) PROVE Shapes'
  <2>1. req' \in [Requests -> Request]
    BY <1>7, AnswerType DEF CreateSession
  <2>2. req[r] \in Request
    OBVIOUS
  <2>3. tokens' \in [Tokens -> TokenDoc]
    BY <1>7, <2>2 DEF CreateSession, FamilyOf, TokenDoc, Request
  <2> QED
    BY <1>7, <2>1, <2>3 DEF CreateSession
<1>8. ASSUME NEW r \in Requests, RefreshLookup(r) PROVE Shapes'
  <2>1. req[r].token \in Tokens
    BY <1>8 DEF RefreshLookup, At, FieldsSet
  <2>2. [Idle EXCEPT !.pc = "revoke_family", !.family = tokens[req[r].token].family]
          \in Request
    BY <2>1, IdleType DEF Request, Calls, TokenDoc
  <2> QED
    BY <1>8, <2>2, IdleType DEF RefreshLookup, Answer
<1>9. ASSUME NEW r \in Requests, RefreshReadUser(r) PROVE Shapes'
  <2>1. req' \in [Requests -> Request]
    BY <1>9, GotoType, AnswerType DEF RefreshReadUser, Calls
  <2> QED
    BY <1>9, <2>1 DEF RefreshReadUser
<1>10. ASSUME NEW r \in Requests, RevokeStart(r) PROVE Shapes'
  <2>1. [req[r] EXCEPT !.pc = "update_many", !.todo = LiveIn(req[r].family)] \in Request
    BY ScanType DEF LiveIn
  <2> QED
    BY <1>10, <2>1 DEF RevokeStart
<1>11. ASSUME NEW r \in Requests, RevokeOne(r) PROVE Shapes'
  BY <1>11 DEF RevokeOne, LiveIn, TokenDoc
<1>12. ASSUME NEW r \in Requests, RevokeDone(r) \/ Abort(r) PROVE Shapes'
  BY <1>12, AnswerType DEF RevokeDone, Abort
<1>13. ASSUME NEW u \in Users, Admin(u) PROVE Shapes'
  <2>1. ASSUME NEW status \in AdminStatuses, UpdateStatus(u, status) PROVE Shapes'
    BY <2>1 DEF UpdateStatus, UserDoc
  <2>2. ASSUME NEW only \in BOOLEAN, NEW ips \in AdminLists, UpdateWhitelist(u, only, ips)
        PROVE  Shapes'
    <3>1. [users[u] EXCEPT !.whitelist_only = only, !.allowed_ips = ips] \in UserDoc
      BY WhitelistType
    <3> QED
      BY <2>2, <3>1 DEF UpdateWhitelist
  <2>3. CASE DeleteUser(u)
    BY <2>3 DEF DeleteUser, DeletedUser, NewUser, UserDoc, Statuses
  <2> QED
    BY <1>13, <2>1, <2>2, <2>3 DEF Admin
<1>14. CASE Tick
  BY <1>14 DEF Tick
<1>15. ASSUME NEW t \in Tokens, Purge(t) PROVE Shapes'
  BY <1>15 DEF Purge, TokenDoc
<1>16. CASE UNCHANGED vars
  BY <1>16 DEF vars
<1> QED
  BY <1>1, <1>2, <1>3, <1>4, <1>5, <1>6, <1>7, <1>8, <1>9, <1>10, <1>11, <1>12, <1>13,
     <1>14, <1>15, <1>16 DEF Next, Arrive, Step

LEMMA FieldsNext == TypeOK /\ [Next]_vars => FieldsSet'
<1> SUFFICES ASSUME TypeOK, [Next]_vars PROVE FieldsSet'
    OBVIOUS
<1> USE ConstantsAssumption DEF TypeOK, FieldsSet
<1>1. ASSUME NEW r \in Requests, NEW u \in Users, NEW ip \in IPs, LoginRead(r, u, ip)
      PROVE  FieldsSet'
  BY <1>1 DEF LoginRead, Idle, MayIssue
<1>2. ASSUME NEW r \in Requests, NEW t \in Tokens, NEW ip \in IPs, RefreshRotate(r, t, ip)
      PROVE  FieldsSet'
  BY <1>2 DEF RefreshRotate, Rotatable, Live, Idle, MayIssue, TokenDoc
<1>3. ASSUME NEW r \in Requests, NEW t \in Tokens, RefreshMiss(r, t)
      PROVE  FieldsSet'
  BY <1>3 DEF RefreshMiss, Idle, MayIssue
<1>4. ASSUME NEW r \in Requests, NEW t \in Tokens, Logout(r, t)
      PROVE  FieldsSet'
  BY <1>4 DEF Logout, Stored, Idle, MayIssue
<1>5. ASSUME NEW r \in Requests, AddAllowedIp(r) \/ RecordLogin(r) PROVE FieldsSet'
  BY <1>5 DEF AddAllowedIp, RecordLogin, At, Goto, MayIssue, Request
<1>6. ASSUME NEW r \in Requests, CreateSession(r) PROVE FieldsSet'
  BY <1>6 DEF CreateSession, FamilyOf, At, Answer, Idle, MayIssue, TokenDoc, Request
<1>7. ASSUME NEW r \in Requests, RefreshLookup(r) PROVE FieldsSet'
  <2>1. CASE tokens[req[r].token].doc = "revoked"
    <3>1. PICK f \in Tokens :
            req' = [req EXCEPT ![r] = [Idle EXCEPT !.pc = "revoke_family", !.family = f]]
      BY <1>7, <2>1 DEF RefreshLookup, At
    <3>2. UNCHANGED tokens
      BY <1>7 DEF RefreshLookup
    <3> QED
      BY <3>1, <3>2 DEF Idle, MayIssue
  <2>2. CASE tokens[req[r].token].doc # "revoked"
    BY <1>7, <2>2 DEF RefreshLookup, Answer, Idle, MayIssue
  <2> QED
    BY <2>1, <2>2
<1>8. ASSUME NEW r \in Requests, RefreshReadUser(r) PROVE FieldsSet'
  BY <1>8 DEF RefreshReadUser, At, Goto, Answer, Idle, MayIssue, Request
<1>9. ASSUME NEW r \in Requests, RevokeStart(r) PROVE FieldsSet'
  BY <1>9 DEF RevokeStart, At, MayIssue, Request
<1>10. ASSUME NEW r \in Requests, RevokeOne(r) PROVE FieldsSet'
  BY <1>10 DEF RevokeOne, LiveIn, Live, MayIssue, TokenDoc
<1>11. ASSUME NEW r \in Requests, RevokeDone(r) \/ Abort(r) PROVE FieldsSet'
  BY <1>11 DEF RevokeDone, Abort, Answer, Idle, MayIssue
<1>12. ASSUME NEW u \in Users, Admin(u) PROVE FieldsSet'
  BY <1>12 DEF Admin, UpdateStatus, UpdateWhitelist, DeleteUser, MayIssue
<1>13. CASE Tick
  BY <1>13 DEF Tick, MayIssue
<1>14. ASSUME NEW t \in Tokens, Purge(t) PROVE FieldsSet'
  BY <1>14 DEF Purge, Stored, MayIssue, TokenDoc
<1>15. CASE UNCHANGED vars
  BY <1>15 DEF vars, MayIssue
<1> QED
  BY <1>1, <1>2, <1>3, <1>4, <1>5, <1>6, <1>7, <1>8, <1>9, <1>10, <1>11, <1>12, <1>13,
     <1>14, <1>15 DEF Next, Arrive, Step

\* The collections and the requests in flight keep their shape, and every call
\* finds the fields it reads.
THEOREM TypeCorrect == Spec => []TypeOK
<1>1. TypeOK /\ [Next]_vars => TypeOK'
  BY ShapesNext, FieldsNext DEF TypeOK, Shapes
<1> QED
  BY <1>1, TypeInit, PTL DEF Spec

-----------------------------------------------------------------------------
(* Families.  OneLiveToken is not inductive: the step that could break it  *)
(* is CreateSession, and what rules that out is that a family whose token  *)
(* was taken by a refresh has no usable token (OneRotation), and that a    *)
(* login's token opens a family nobody knows yet (FamiliesIssued).         *)

FamiliesIssued ==
  /\ \A t \in Tokens : tokens[t].doc # "none" =>
       tokens[tokens[t].family].family = tokens[t].family
  /\ \A r \in Requests : req[r].family # NoToken =>
       tokens[req[r].family].family = req[r].family

IInv == TypeOK /\ OneLiveToken /\ OneRotation /\ FamiliesIssued

LEMMA IInvInit == Init => IInv
<1>1. Init => OneLiveToken /\ OneRotation /\ FamiliesIssued
  BY DEF Init, OneLiveToken, OneRotation, FamiliesIssued, Live, Rotating, Unissued, Idle
<1> QED
  BY <1>1, TypeInit DEF IInv

LEMMA FamiliesNext ==
  IInv /\ [Next]_vars => OneLiveToken' /\ OneRotation' /\ FamiliesIssued'
<1> DEFINE Goal == OneLiveToken' /\ OneRotation' /\ FamiliesIssued'
<1> SUFFICES ASSUME IInv, [Next]_vars PROVE Goal
    OBVIOUS
<1> USE ConstantsAssumption
    DEF IInv, TypeOK, FieldsSet, OneLiveToken, OneRotation, FamiliesIssued, Live, LiveIn,
        Rotating
<1>1. ASSUME NEW r \in Requests, NEW u \in Users, NEW ip \in IPs, LoginRead(r, u, ip)
      PROVE  Goal
  BY <1>1 DEF LoginRead, Idle
<1>2. ASSUME NEW r \in Requests, NEW t \in Tokens, NEW ip \in IPs, RefreshRotate(r, t, ip)
      PROVE  Goal
  BY <1>2 DEF RefreshRotate, Rotatable, Idle, TokenDoc
<1>3. ASSUME NEW r \in Requests, NEW t \in Tokens, RefreshMiss(r, t)
      PROVE  Goal
  BY <1>3 DEF RefreshMiss, Idle
<1>4. ASSUME NEW r \in Requests, NEW t \in Tokens, Logout(r, t)
      PROVE  Goal
  BY <1>4 DEF Logout, Stored, Idle
<1>5. ASSUME NEW r \in Requests, AddAllowedIp(r) \/ RecordLogin(r) PROVE Goal
  <2>1. tokens' = tokens
    BY <1>5 DEF AddAllowedIp, RecordLogin
  <2>2. PICK call \in {"record", "create"} : Goto(r, call)
    BY <1>5 DEF AddAllowedIp, RecordLogin
  <2>3. req[r].pc \in {"add_allowed_ip", "record"}
    BY <1>5 DEF AddAllowedIp, RecordLogin, At
  <2> QED
    BY <2>1, <2>2, <2>3 DEF Goto, Request
<1>6. ASSUME NEW r \in Requests, CreateSession(r) PROVE Goal
  BY <1>6 DEF CreateSession, FamilyOf, At, Answer, Idle, TokenDoc, Request, Unissued
<1>7. ASSUME NEW r \in Requests, RefreshLookup(r) PROVE Goal
  <2>1. CASE tokens[req[r].token].doc = "revoked"
    <3>1. req[r].token \in Tokens
      BY <1>7 DEF RefreshLookup, At
    <3>2. PICK f \in Tokens :
            /\ tokens[f].family = f
            /\ req' = [req EXCEPT ![r] = [Idle EXCEPT !.pc = "revoke_family", !.family = f]]
      BY <1>7, <2>1, <3>1 DEF RefreshLookup
    <3>3. UNCHANGED tokens
      BY <1>7 DEF RefreshLookup
    <3> QED
      BY <3>2, <3>3 DEF Idle
  <2>2. CASE tokens[req[r].token].doc # "revoked"
    BY <1>7, <2>2 DEF RefreshLookup, Answer, Idle
  <2> QED
    BY <2>1, <2>2
<1>8. ASSUME NEW r \in Requests, RefreshReadUser(r) PROVE Goal
  BY <1>8 DEF RefreshReadUser, At, Goto, Answer, Idle, Request
<1>9. ASSUME NEW r \in Requests, RevokeStart(r) PROVE Goal
  BY <1>9 DEF RevokeStart, At, Request
<1>10. ASSUME NEW r \in Requests, RevokeOne(r) PROVE Goal
  BY <1>10 DEF RevokeOne, TokenDoc
<1>11. ASSUME NEW r \in Requests, RevokeDone(r) \/ Abort(r) PROVE Goal
  BY <1>11 DEF RevokeDone, Abort, Answer, Idle
<1>12. ASSUME NEW u \in Users, Admin(u) PROVE Goal
  <2>1. UNCHANGED <<tokens, req>>
    BY <1>12 DEF Admin, UpdateStatus, UpdateWhitelist, DeleteUser
  <2> QED
    BY <2>1
<1>13. CASE Tick
  BY <1>13 DEF Tick
<1>14. ASSUME NEW t \in Tokens, Purge(t) PROVE Goal
  BY <1>14 DEF Purge, Stored, TokenDoc
<1>15. CASE UNCHANGED vars
  BY <1>15 DEF vars
<1> QED
  BY <1>1, <1>2, <1>3, <1>4, <1>5, <1>6, <1>7, <1>8, <1>9, <1>10, <1>11, <1>12, <1>13,
     <1>14, <1>15 DEF Next, Arrive, Step

LEMMA IInvNext == IInv /\ [Next]_vars => IInv'
  BY FamiliesNext, ShapesNext, FieldsNext DEF IInv, TypeOK, Shapes

LEMMA IInvHolds == Spec => []IInv
  BY IInvInit, IInvNext, PTL DEF Spec

\* However refreshes, logouts and revocations interleave, a family has at most
\* one usable token, and none while a refresh that took it is in flight.
THEOREM FamiliesExclusive == Spec => [](OneLiveToken /\ OneRotation)
<1>1. IInv => OneLiveToken /\ OneRotation
  BY DEF IInv
<1> QED
  BY <1>1, IInvHolds, PTL

-----------------------------------------------------------------------------
(* Requests and the accounts they act for.                                 *)

\* A request that would be refused if it read the account now had read it
\* before: no request starts to act for an account that is deleted, disabled or
\* closed to its address.
THEOREM EarlierReads == Spec => OnlyEarlierReadsEscape
<1> DEFINE Past(r) == req[r].pc \in {"add_allowed_ip", "record", "create"}
<1>1. ASSUME TypeOK, [Next]_vars, NEW q \in Requests, OutOfDate(q)'
      PROVE  Past(q)
  <2> USE <1>1 DEF TypeOK, FieldsSet, OutOfDate
  <2>1. CASE UNCHANGED req
    BY <2>1
  <2>2. ASSUME NEW r \in Requests, NEW u \in Users, NEW ip \in IPs, LoginRead(r, u, ip)
        PROVE  Past(q)
    BY <2>2 DEF LoginRead, LoginAccepted, Admits, Idle, Request
  <2>3. ASSUME NEW r \in Requests, NEW t \in Tokens,
               \/ \E ip \in IPs : RefreshRotate(r, t, ip)
               \/ RefreshMiss(r, t) \/ Logout(r, t)
        PROVE  Past(q)
    <3>1. ASSUME NEW ip \in IPs, RefreshRotate(r, t, ip) PROVE Past(q)
      BY <3>1 DEF RefreshRotate, Idle
    <3>2. CASE RefreshMiss(r, t)
      BY <3>2 DEF RefreshMiss, Idle
    <3>3. CASE Logout(r, t)
      BY <3>3 DEF Logout, Idle
    <3> QED
      BY <2>3, <3>1, <3>2, <3>3
  <2>4. ASSUME NEW r \in Requests, AddAllowedIp(r) \/ RecordLogin(r) PROVE Past(q)
    BY <2>4 DEF AddAllowedIp, RecordLogin, At, Goto
  <2>5. ASSUME NEW r \in Requests, RefreshReadUser(r) PROVE Past(q)
    <3>1. CASE q = r
      <4>1. req[r].family \in Tokens
        BY <2>5 DEF RefreshReadUser, At
      <4> QED
        BY <2>5, <3>1, <4>1, ConstantsAssumption
        DEF RefreshReadUser, Admits, Goto, Answer, Idle, Request
    <3>2. CASE q # r
      BY <2>5, <3>2 DEF RefreshReadUser, Goto, Answer
    <3> QED
      BY <3>1, <3>2
  <2>6. ASSUME NEW r \in Requests,
               \/ CreateSession(r) \/ RefreshLookup(r)
               \/ RevokeStart(r) \/ RevokeDone(r) \/ Abort(r)
        PROVE  Past(q)
    <3>1. CASE Answer(r)
      BY <3>1 DEF Answer, Idle
    <3>2. CASE RefreshLookup(r) /\ tokens[req[r].token].doc = "revoked"
      BY <3>2 DEF RefreshLookup, Idle
    <3>3. CASE RevokeStart(r)
      BY <3>3 DEF RevokeStart, Request
    <3> QED
      BY <2>6, <3>1, <3>2, <3>3 DEF CreateSession, RefreshLookup, RevokeDone, Abort
  <2>7. ASSUME NEW r \in Requests, RevokeOne(r) PROVE UNCHANGED req
    BY <2>7 DEF RevokeOne
  <2>8. ASSUME (\E u \in Users : Admin(u)) \/ Tick \/ (\E t \in Tokens : Purge(t)) \/ UNCHANGED vars
        PROVE  UNCHANGED req
    BY <2>8 DEF Admin, UpdateStatus, UpdateWhitelist, DeleteUser, Tick, Purge, vars
  <2> QED
    BY <2>1, <2>2, <2>3, <2>4, <2>5, <2>6, <2>7, <2>8 DEF Next, Arrive, Step
<1>2. TypeOK /\ [Next]_vars => [\A r \in Requests : OutOfDate(r)' => Past(r)]_vars
  BY <1>1
<1> QED
  BY <1>2, TypeCorrect, PTL DEF Spec, OnlyEarlierReadsEscape

-----------------------------------------------------------------------------
(* Sessions implements TokenFamily.  Each action moves at most one family. *)

\* What has to be shown of an action that moves the family f.
LEMMA MoveStep ==
  ASSUME NEW f \in Tokens, NEW from, NEW to,
         Phase(f) = from, Phase(f)' = to,
         \A g \in Tokens \ {f} : Phase(g)' = Phase(g)
  PROVE  TF!Move(f, from, to)
<1>1. Family' = [Family EXCEPT ![f] = to]
  BY DEF Family
<1> QED
  BY <1>1 DEF TF!Move, Family

\* An action that leaves the tokens alone, and which refresh holds which family.
LEMMA SameHolders ==
  ASSUME tokens' = tokens,
         \A f \in Tokens : (\E r \in Requests : Rotating(r) /\ req[r].family = f)'
                            <=> \E r \in Requests : Rotating(r) /\ req[r].family = f
  PROVE  Family' = Family
  BY DEF Family, Phase, LiveIn, Live

\* A family with a usable token has no other and no refresh in flight.
LEMMA LiveFamilies ==
  IInv => \A t \in Tokens : Live(t) =>
            /\ tokens[t].family \in Tokens
            /\ LiveIn(tokens[t].family) = {t}
            /\ Phase(tokens[t].family) = "live"
            /\ ~ \E r \in Requests : Rotating(r) /\ req[r].family = tokens[t].family
  BY DEF IInv, TypeOK, FieldsSet, OneLiveToken, OneRotation, FamiliesIssued, Live, LiveIn, Phase

\* A usable token that is revoked or expires closes its family.
LEMMA EndLiveRefines ==
  ASSUME IInv, NEW t \in Tokens, Live(t), req' = req,
         NEW doc \in {"revoked", "purged"}, tokens' = [tokens EXCEPT ![t].doc = doc]
  PROVE  TF!FamilyNext
<1>a. TypeOK /\ FamiliesIssued
  BY DEF IInv
<1>1. PICK f \in Tokens : f = tokens[t].family
  BY LiveFamilies
<1>2. /\ LiveIn(f) = {t} /\ Phase(f) = "live" /\ tokens[f].family = f
      /\ ~ \E r \in Requests : Rotating(r) /\ req[r].family = f
  BY <1>1, <1>a, LiveFamilies DEF FamiliesIssued, Live
<1>3. \A g \in Tokens : tokens'[g].family = tokens[g].family
  BY <1>a DEF TypeOK, TokenDoc
<1>4. \A s \in Tokens : Live(s)' <=> Live(s) /\ s # t
  BY <1>a DEF TypeOK, TokenDoc, Live
<1>5. Phase(f)' = "closed"
  BY <1>2, <1>3, <1>4 DEF Phase, LiveIn, Rotating
<1>6. \A g \in Tokens \ {f} : Phase(g)' = Phase(g)
  BY <1>1, <1>3, <1>4 DEF Phase, LiveIn, Rotating
<1>7. TF!Move(f, "live", "closed")
  BY <1>2, <1>5, <1>6, MoveStep
<1> QED
  BY <1>7 DEF TF!FamilyNext, TF!Close

LEMMA StepRefines == IInv /\ [Next]_vars => [TF!FamilyNext]_Family
<1> SUFFICES ASSUME IInv, [Next]_vars PROVE TF!FamilyNext \/ Family' = Family
    OBVIOUS
<1> DEFINE Goal == TF!FamilyNext \/ Family' = Family
           Held(f) == \E r \in Requests : Rotating(r) /\ req[r].family = f
<1>a. TypeOK /\ OneLiveToken /\ OneRotation /\ FamiliesIssued
  BY DEF IInv
<1>b. \A t \in Tokens : Live(t) => /\ tokens[t].family \in Tokens
                                   /\ LiveIn(tokens[t].family) = {t}
                                   /\ Phase(tokens[t].family) = "live"
                                   /\ ~ Held(tokens[t].family)
  BY LiveFamilies
<1>c. \A r \in Requests : Rotating(r) =>
        /\ req[r].family \in Tokens
        /\ LiveIn(req[r].family) = {}
        /\ Phase(req[r].family) = "rotating"
  BY <1>a DEF TypeOK, FieldsSet, OneRotation, FamiliesIssued, Rotating, Phase, Request
<1>1. ASSUME tokens' = tokens,
             \A q \in Requests : /\ Rotating(q)' <=> Rotating(q)
                                 /\ Rotating(q) => req'[q].family = req[q].family
      PROVE  Goal
  BY <1>1, SameHolders
<1>2. ASSUME NEW r \in Requests, NEW x, tokens' = tokens, ~ Rotating(r),
             req' = [req EXCEPT ![r] = x], x.pc \notin {"find_by_id", "create"}
      PROVE  Goal
  <2>1. \A q \in Requests \ {r} : req'[q] = req[q]
    BY <1>2
  <2>2. ~ Rotating(r)'
    BY <1>2, <1>a DEF Rotating, TypeOK
  <2> QED
    BY <1>1, <1>2, <2>1, <2>2 DEF Rotating
<1>3. ASSUME NEW r \in Requests, NEW u \in Users, NEW ip \in IPs, LoginRead(r, u, ip)
      PROVE  Goal
  <2>1. ~ Rotating(r) /\ tokens' = tokens
    BY <1>3 DEF LoginRead, At, Rotating
  <2>2. [Idle EXCEPT !.pc = IF ip \in users[u].allowed_ips
                            THEN "record" ELSE "add_allowed_ip",
                     !.user = u, !.ip = ip].pc \notin {"find_by_id", "create"}
    BY DEF Idle
  <2> QED
    BY <1>2, <1>3, <2>1, <2>2 DEF LoginRead
<1>4. ASSUME NEW r \in Requests, NEW t \in Tokens, NEW ip \in IPs, RefreshRotate(r, t, ip)
      PROVE  Goal
  <2>1. /\ Live(t) /\ ~ Rotating(r)
        /\ tokens' = [tokens EXCEPT ![t].doc = "revoked"]
    BY <1>4 DEF RefreshRotate, Rotatable, At, Rotating
  <2>a. PICK f \in Tokens : f = tokens[t].family
    BY <2>1, <1>b
  <2>2. LiveIn(f) = {t} /\ Phase(f) = "live" /\ tokens[f].family = f
    BY <2>1, <2>a, <1>a, <1>b DEF FamiliesIssued, Live
  <2>3. Rotating(r)' /\ req'[r].family = f
    BY <1>4, <1>a, <2>a, ConstantsAssumption DEF RefreshRotate, Rotating, Idle, TypeOK
  <2>4. \A q \in Requests \ {r} : req'[q] = req[q]
    BY <1>4 DEF RefreshRotate
  <2>5. \A g \in Tokens : tokens'[g].family = tokens[g].family
    BY <2>1, <1>a DEF TypeOK, TokenDoc
  <2>6. \A s \in Tokens : Live(s)' <=> Live(s) /\ s # t
    BY <2>1, <1>a DEF TypeOK, TokenDoc, Live
  <2>7. Phase(f)' = "rotating"
    BY <2>2, <2>3, <2>5, <2>6 DEF Phase, LiveIn
  <2>8. \A g \in Tokens \ {f} : Phase(g)' = Phase(g)
    BY <2>1, <2>a, <2>3, <2>4, <2>5, <2>6 DEF Phase, LiveIn, Rotating
  <2>9. TF!Move(f, "live", "rotating")
    BY <2>2, <2>7, <2>8, MoveStep
  <2> QED
    BY <2>9 DEF TF!FamilyNext, TF!Consume
<1>5. ASSUME NEW r \in Requests, NEW t \in Tokens, RefreshMiss(r, t) \/ Logout(r, t)
      PROVE  Goal
  <2>1. ~ Rotating(r) /\ tokens' = tokens
    BY <1>5 DEF RefreshMiss, Logout, At, Rotating
  <2> QED
    BY <1>2, <1>5, <2>1 DEF RefreshMiss, Logout, Idle
<1>6. ASSUME NEW r \in Requests, AddAllowedIp(r) \/ RecordLogin(r) PROVE Goal
  <2>1. tokens' = tokens /\ req[r].family = NoToken
    BY <1>6, <1>a DEF AddAllowedIp, RecordLogin, At, TypeOK, FieldsSet
  <2>2. PICK call \in {"record", "create"} : Goto(r, call)
    BY <1>6 DEF AddAllowedIp, RecordLogin
  <2>3. req'[r].family = NoToken /\ \A q \in Requests \ {r} : req'[q] = req[q]
    BY <2>1, <2>2, <1>a DEF Goto, TypeOK, Request
  <2> QED
    BY <1>1, <2>1, <2>3 DEF Rotating
<1>7. ASSUME NEW r \in Requests, NEW t \in Tokens, At(r, "create"), tokens[t].doc = "none",
             tokens' = [tokens EXCEPT ![t] =
               [doc |-> "live", user |-> req[r].user, family |-> FamilyOf(r, t),
                expires_at |-> now + RefreshTtl]],
             Answer(r)
      PROVE  Goal
  <2>a. PICK f \in Tokens : f = FamilyOf(r, t)
    BY <1>a DEF FamilyOf, TypeOK, Request
  <2>1. tokens[t].family = NoToken
    BY <1>7, <1>a DEF TypeOK, FieldsSet, Unissued
  <2>2. ~ Rotating(r)' /\ \A q \in Requests \ {r} : req'[q] = req[q]
    BY <1>7, <1>a DEF Answer, Idle, Rotating, TypeOK
  <2>3. /\ tokens'[t].family = f /\ Live(t)'
        /\ \A s \in Tokens \ {t} : tokens'[s] = tokens[s]
    BY <1>7, <2>a, <1>a DEF TypeOK, Live
  <2>4. ~ Live(t)
    BY <1>7 DEF Live
  <2>5. \A g \in Tokens \ {t} : tokens[g].family # t
    <3> SUFFICES ASSUME NEW g \in Tokens \ {t}, tokens[g].family = t PROVE FALSE
      OBVIOUS
    <3>1. tokens[g].doc # "none"
      BY <1>a, ConstantsAssumption DEF TypeOK, FieldsSet, Unissued
    <3> QED
      BY <3>1, <2>1, <1>a, ConstantsAssumption DEF FamiliesIssued
  <2>6. \A g \in Tokens \ {f} : Phase(g)' = Phase(g)
    BY <2>a, <2>1, <2>2, <2>3, <2>4, <2>5, <1>7, ConstantsAssumption
    DEF FamilyOf, Phase, LiveIn, Live, Rotating, At
  <2>7. tokens'[f].family = f
    BY <2>a, <2>1, <2>3, <1>a, ConstantsAssumption DEF FamilyOf, FamiliesIssued
  <2>8. Phase(f)' = "live"
    BY <2>1, <2>3, <2>7 DEF Phase, LiveIn
  <2>9. CASE req[r].family = NoToken
    <3>1. Phase(f) = "none"
      BY <2>a, <2>1, <2>9, ConstantsAssumption DEF FamilyOf, Phase
    <3>2. TF!Move(f, "none", "live")
      BY <3>1, <2>6, <2>8, MoveStep
    <3> QED
      BY <3>2 DEF TF!FamilyNext, TF!Open
  <2>10. CASE req[r].family # NoToken
    <3>1. Phase(f) = "rotating"
      BY <1>7, <2>a, <2>10, <1>c DEF FamilyOf, Rotating, At
    <3>2. TF!Move(f, "rotating", "live")
      BY <3>1, <2>6, <2>8, MoveStep
    <3> QED
      BY <3>2 DEF TF!FamilyNext, TF!Renew
  <2> QED
    BY <2>9, <2>10
<1>8. ASSUME NEW r \in Requests, NEW x, tokens' = tokens,
             req' = [req EXCEPT ![r] = x], x.pc \notin {"find_by_id", "create"}
      PROVE  Goal
  <2> SUFFICES ASSUME Rotating(r) PROVE Goal
    BY <1>2, <1>8
  <2>a. PICK f \in Tokens : f = req[r].family
    BY <1>c
  <2>1. LiveIn(f) = {} /\ Phase(f) = "rotating" /\ tokens[f].family = f
    BY <2>a, <1>a, <1>c DEF FamiliesIssued, Rotating
  <2>2. ~ Rotating(r)' /\ \A q \in Requests \ {r} : req'[q] = req[q]
    BY <1>8, <1>a DEF Rotating, TypeOK
  <2>3. \A q \in Requests \ {r} : ~ (Rotating(q) /\ req[q].family = f)
    BY <2>a, <1>a DEF OneRotation
  <2>4. Phase(f)' = "closed"
    BY <1>8, <2>1, <2>2, <2>3 DEF Phase, LiveIn, Live, Rotating
  <2>5. \A g \in Tokens \ {f} : Phase(g)' = Phase(g)
    BY <1>8, <2>a, <2>2 DEF Phase, LiveIn, Live, Rotating
  <2>6. TF!Move(f, "rotating", "closed")
    BY <2>1, <2>4, <2>5, MoveStep
  <2> QED
    BY <2>6 DEF TF!FamilyNext, TF!Close
<1>9. ASSUME NEW r \in Requests, RefreshLookup(r) PROVE Goal
  BY <1>8, <1>9 DEF RefreshLookup, Answer, Idle
<1>10. ASSUME NEW r \in Requests, RefreshReadUser(r) PROVE Goal
  <2>1. tokens' = tokens
    BY <1>10 DEF RefreshReadUser
  <2>2. CASE Goto(r, "create")
    <3>1. /\ req'[r].pc = "create" /\ req'[r].family = req[r].family
          /\ req[r].pc = "find_by_id"
          /\ \A q \in Requests \ {r} : req'[q] = req[q]
      BY <1>10, <2>2, <1>a DEF RefreshReadUser, At, Goto, TypeOK, Request
    <3> QED
      BY <1>1, <2>1, <3>1 DEF Rotating
  <2>3. CASE Goto(r, "revoke_family")
    <3>1. [req[r] EXCEPT !.pc = "revoke_family"].pc = "revoke_family"
      BY <1>a DEF TypeOK, Request
    <3> QED
      BY <1>8, <2>1, <2>3, <3>1 DEF Goto
  <2>4. CASE Answer(r)
    BY <1>8, <2>1, <2>4 DEF Answer, Idle
  <2> QED
    BY <1>10, <2>2, <2>3, <2>4 DEF RefreshReadUser
<1>11. ASSUME NEW r \in Requests, RevokeStart(r) PROVE Goal
  <2>1. [req[r] EXCEPT !.pc = "update_many", !.todo = LiveIn(req[r].family)].pc
          = "update_many"
    BY <1>a DEF TypeOK, Request
  <2> QED
    BY <1>8, <1>11, <2>1 DEF RevokeStart
<1>12. ASSUME NEW r \in Requests, RevokeOne(r) PROVE Goal
  BY <1>12, EndLiveRefines DEF RevokeOne, LiveIn
<1>13. ASSUME NEW t \in Tokens, Purge(t) PROVE Goal
  <2>1. CASE Live(t)
    BY <1>13, <2>1, EndLiveRefines DEF Purge
  <2>2. CASE ~ Live(t)
    <3>1. \A s \in Tokens : /\ Live(s)' <=> Live(s)
                            /\ tokens'[s].family = tokens[s].family
      BY <1>13, <2>2, <1>a DEF Purge, Live, TypeOK, TokenDoc
    <3> QED
      BY <1>13, <3>1 DEF Purge, Family, Phase, LiveIn, Rotating
  <2> QED
    BY <2>1, <2>2
<1>14. ASSUME UNCHANGED <<tokens, req>> PROVE Goal
  BY <1>14, <1>1 DEF Rotating
<1>15. ASSUME (\E u \in Users : Admin(u)) \/ Tick \/ UNCHANGED vars PROVE Goal
  BY <1>14, <1>15 DEF Admin, UpdateStatus, UpdateWhitelist, DeleteUser, Tick, vars
<1>16. ASSUME NEW r \in Requests, RevokeDone(r) \/ Abort(r) PROVE Goal
  BY <1>8, <1>16 DEF RevokeDone, Abort, Answer, Idle
<1>17. ASSUME NEW r \in Requests, CreateSession(r) PROVE Goal
  BY <1>7, <1>17 DEF CreateSession
<1> QED
  BY <1>3, <1>4, <1>5, <1>6, <1>9, <1>10, <1>11, <1>12, <1>13, <1>15, <1>16, <1>17
  DEF Next, Arrive, Step

\* Login, refresh, logout, revocation, expiry and every failure keep the promise
\* of TokenFamily, for any number of requests: a family with neither a usable
\* token nor a refresh in flight never has a usable token again.
THEOREM SessionsImplementTokenFamily == Spec => ImplementsTokenFamily
<1>1. Init => TF!FamilyInit
  BY ConstantsAssumption DEF Init, TF!FamilyInit, Family, Phase, Unissued
<1> QED
  BY <1>1, StepRefines, IInvHolds, PTL DEF Spec, ImplementsTokenFamily, TF!FamilySpec

-----------------------------------------------------------------------------
(* Final revocations.  A family that was revoked while no refresh held its *)
(* token is closed, and TokenFamily never leaves that phase.  A scan that  *)
(* nothing overlapped has before it every usable token of its family.      *)

QuietClosed == \A f \in quiet : f \in Tokens /\ Phase(f) = "closed"

ScansReach ==
  \A r \in Requests : Scanning(r) /\ r \notin overlapped =>
    LiveIn(req[r].family) \subseteq req[r].todo /\ ~ FamilyRotating(req[r].family)

QInv == IInv /\ QuietClosed /\ ScansReach

\* A step begins a scan, ends it, or leaves it alone.
LEMMA ScanSteps ==
  ASSUME TypeOK, [Next]_vars, NEW r \in Requests
  PROVE  /\ Scanning(r) /\ Scanning(r)' => req'[r] = req[r]
         /\ Scanning(r) /\ ~ Scanning(r)' =>
              tokens' = tokens /\ \A q \in Requests \ {r} : req'[q] = req[q]
         /\ ~ Scanning(r) /\ Scanning(r)' =>
              /\ tokens' = tokens /\ req'[r].family = req[r].family
              /\ req'[r].todo = LiveIn(req[r].family)
<1> DEFINE Goal == /\ Scanning(r) /\ Scanning(r)' => req'[r] = req[r]
                   /\ Scanning(r) /\ ~ Scanning(r)' =>
                        tokens' = tokens /\ \A q \in Requests \ {r} : req'[q] = req[q]
                   /\ ~ Scanning(r) /\ Scanning(r)' =>
                        /\ tokens' = tokens /\ req'[r].family = req[r].family
                        /\ req'[r].todo = LiveIn(req[r].family)
<1> USE DEF TypeOK, Scanning, At
<1>1. ASSUME NEW q \in Requests, NEW x, ~ Scanning(q), x.pc # "update_many",
             req' = [req EXCEPT ![q] = x]
      PROVE  Goal
  BY <1>1
<1>2. ASSUME NEW q \in Requests, Arrive(q) PROVE Goal
  BY <1>1, <1>2 DEF Arrive, LoginRead, RefreshRotate, RefreshMiss, Logout, Idle
<1>3. ASSUME NEW q \in Requests,
             \/ AddAllowedIp(q) \/ RecordLogin(q) \/ CreateSession(q)
             \/ RefreshLookup(q) \/ RefreshReadUser(q)
      PROVE  Goal
  <2>1. \A call \in Calls : [req[q] EXCEPT !.pc = call].pc = call
    BY DEF Request
  <2> QED
    BY <1>1, <1>3, <2>1
    DEF AddAllowedIp, RecordLogin, CreateSession, RefreshLookup, RefreshReadUser, Goto,
        Answer, Idle, Calls
<1>4. ASSUME NEW q \in Requests, RevokeStart(q) PROVE Goal
  BY <1>4 DEF RevokeStart, Request
<1>5. ASSUME NEW q \in Requests, RevokeDone(q) \/ Abort(q) PROVE Goal
  BY <1>5 DEF RevokeDone, Abort, Answer, Idle
<1>6. ASSUME \/ \E q \in Requests : RevokeOne(q)
             \/ \E u \in Users : Admin(u)
             \/ Tick \/ (\E t \in Tokens : Purge(t)) \/ UNCHANGED vars
      PROVE  Goal
  BY <1>6 DEF RevokeOne, Admin, UpdateStatus, UpdateWhitelist, DeleteUser, Tick, Purge, vars
<1> QED
  BY <1>2, <1>3, <1>4, <1>5, <1>6 DEF Next, Step

\* A family no refresh of which is in flight gets no usable token.
LEMMA NoNewToken ==
  ASSUME IInv, [Next]_vars, NEW f \in Tokens, tokens[f].family = f, ~ FamilyRotating(f)
  PROVE  LiveIn(f)' \subseteq LiveIn(f)
<1> USE DEF IInv, TypeOK, LiveIn, Live
<1>1. ASSUME tokens' = tokens PROVE LiveIn(f)' \subseteq LiveIn(f)
  BY <1>1
<1>2. ASSUME NEW t \in Tokens, NEW doc \in {"revoked", "purged"},
             tokens' = [tokens EXCEPT ![t].doc = doc]
      PROVE  LiveIn(f)' \subseteq LiveIn(f)
  BY <1>2 DEF TokenDoc
<1>3. ASSUME NEW r \in Requests, CreateSession(r)
      PROVE  LiveIn(f)' \subseteq LiveIn(f)
  <2>1. PICK t \in Tokens :
          /\ tokens[t].doc = "none"
          /\ tokens' = [tokens EXCEPT ![t] =
               [doc |-> "live", user |-> req[r].user, family |-> FamilyOf(r, t),
                expires_at |-> now + RefreshTtl]]
    BY <1>3 DEF CreateSession
  <2>2. FamilyOf(r, t) # f
    BY <1>3, <2>1, ConstantsAssumption
    DEF CreateSession, FamilyOf, FamilyRotating, Rotating, At, FieldsSet, Unissued
  <2> QED
    BY <2>1, <2>2
<1> QED
  BY <1>1, <1>2, <1>3
  DEF Next, Arrive, Step, LoginRead, RefreshRotate, RefreshMiss, Logout, AddAllowedIp,
      RecordLogin, RefreshLookup, RefreshReadUser, RevokeStart, RevokeOne, RevokeDone, Abort,
      Admin, UpdateStatus, UpdateWhitelist, DeleteUser, Tick, Purge, vars

\* TokenFamily has no way out of the phase "closed".
LEMMA ClosedStays ==
  ASSUME IInv, [Next]_vars, NEW f \in Tokens, Phase(f) = "closed"
  PROVE  Phase(f)' = "closed"
<1>1. [TF!FamilyNext]_Family
  BY StepRefines
<1>2. Family[f] = "closed"
  BY DEF Family
<1>3. ASSUME NEW g \in Tokens, NEW from, NEW to, TF!Move(g, from, to), from # "closed"
      PROVE  Family'[f] = "closed"
  <2>1. g # f
    BY <1>2, <1>3 DEF TF!Move
  <2> QED
    BY <1>2, <1>3, <2>1 DEF TF!Move
<1>4. Family'[f] = "closed"
  BY <1>1, <1>2, <1>3 DEF TF!FamilyNext, TF!Open, TF!Consume, TF!Renew, TF!Close
<1> QED
  BY <1>4 DEF Family

LEMMA QInvNext == QInv /\ [HNext]_hvars => QInv'
<1> SUFFICES ASSUME QInv, [HNext]_hvars PROVE QInv'
  OBVIOUS
<1>1. IInv /\ TypeOK /\ [Next]_vars
  BY DEF QInv, IInv, HNext, hvars, vars
<1>2. IInv'
  BY <1>1, IInvNext
<1>3. CASE UNCHANGED hvars
  BY <1>2, <1>3
  DEF QInv, QuietClosed, ScansReach, Scanning, At, FamilyRotating, Rotating, LiveIn, Live,
      Phase, hvars
<1>4. CASE HNext
  <2>1. \A r \in Requests : Scanning(r) =>
          req[r].family \in Tokens /\ tokens[req[r].family].family = req[r].family
    BY <1>1, ConstantsAssumption DEF IInv, TypeOK, FieldsSet, FamiliesIssued, Scanning, At
  <2>2. ASSUME NEW f \in quiet' PROVE f \in Tokens /\ Phase(f)' = "closed"
    <3>1. CASE f \in quiet
      BY <1>1, <3>1, ClosedStays DEF QInv, QuietClosed
    <3>2. CASE f \notin quiet
      <4>1. PICK r \in Requests : r \in Ended \ overlapped /\ f = req[r].family
        BY <1>4, <3>2 DEF HNext, Ended
      <4>2. LiveIn(f) = {} /\ ~ FamilyRotating(f)
        BY <4>1 DEF Ended, ScanComplete, QInv, ScansReach, LiveIn
      <4>3. Phase(f) = "closed" /\ f \in Tokens
        BY <2>1, <4>1, <4>2 DEF Phase, FamilyRotating, Ended
      <4> QED BY <1>1, <4>3, ClosedStays
    <3> QED BY <3>1, <3>2
  <2>3. ASSUME NEW r \in Requests, Scanning(r)', r \notin overlapped'
        PROVE  LiveIn(req[r].family)' \subseteq req'[r].todo /\ ~ FamilyRotating(req[r].family)'
    <3>1. ~ FamilyRotating(req[r].family)' /\ (Scanning(r) => r \notin overlapped)
      BY <1>4, <2>3 DEF HNext
    <3>2. CASE Scanning(r)
      <4>1. req'[r] = req[r]
        BY <1>1, <2>3, <3>2, ScanSteps
      <4> DEFINE f == req[r].family
      <4>3. /\ f \in Tokens /\ tokens[f].family = f
            /\ ~ FamilyRotating(f) /\ LiveIn(f) \subseteq req[r].todo
        BY <2>1, <3>1, <3>2 DEF QInv, ScansReach
      <4>4. \A t \in Tokens :
              Live(t)' /\ tokens'[t].family = req[r].family => t \in LiveIn(req[r].family)
        BY <1>1, <4>3, NoNewToken DEF LiveIn
      <4> QED BY <3>1, <4>1, <4>3, <4>4 DEF LiveIn
    <3>3. CASE ~ Scanning(r)
      <4>1. /\ tokens' = tokens /\ req'[r].family = req[r].family
            /\ req'[r].todo = LiveIn(req[r].family)
        BY <1>1, <2>3, <3>3, ScanSteps
      <4> QED BY <3>1, <4>1 DEF LiveIn, Live
    <3> QED BY <3>2, <3>3
  <2> QED BY <1>2, <2>2, <2>3 DEF QInv, QuietClosed, ScansReach
<1> QED BY <1>3, <1>4

\* Whatever logins, refreshes, retries and losses follow, a family that was
\* revoked while no refresh of it was in flight never has a usable token again.
THEOREM QuietRevocationsAreFinal == HSpec => []QuietRevocationIsFinal
<1>1. HInit => QInv
  BY IInvInit DEF HInit, Init, QInv, QuietClosed, ScansReach, Scanning, At, Idle
<1>2. QInv => QuietRevocationIsFinal
  <2> SUFFICES ASSUME QInv, NEW t \in Tokens, Live(t), tokens[t].family \in quiet PROVE FALSE
    BY DEF QuietRevocationIsFinal
  <2>1. Phase(tokens[t].family) = "live"
    BY LiveFamilies DEF QInv
  <2> QED BY <2>1 DEF QInv, QuietClosed
<1> QED BY <1>1, <1>2, QInvNext, PTL DEF HSpec
=============================================================================
