------------------------------ MODULE Sessions ------------------------------
(***************************************************************************)
(* The refresh-token sessions of CH-Api-Authenticator: /login, /refresh,   *)
(* /logout and the account administration they race with.                  *)
(*                                                                         *)
(* Handlers are tokio tasks that interleave at every .await, that is at    *)
(* every MongoDB call; one call on one document is atomic, update_many is  *)
(* atomic document by document only.  So a request is a record whose pc    *)
(* names the call it makes next, and an action is one call together with   *)
(* the local computation on its result.  A handler may stop at any call    *)
(* (database error, client gone, process killed): see Abort.               *)
(***************************************************************************)
EXTENDS Naturals, FiniteSets

CONSTANTS
  Users,            \* accounts, all registered at the start
  Tokens,           \* refresh tokens that can be issued (bound)
  Requests,         \* requests in flight at once (bound)
  IPs,              \* client addresses
  NoUser, NoToken, NoIP,
  RefreshTtl,       \* life of a refresh token, in ticks
  MaxTime,          \* last value of the clock (bound)
  AdminStatuses,    \* statuses an administrator sets (bound)
  AdminLists        \* allowed_ips lists an administrator submits (bound)

Statuses == {"active", "pending_validation", "disabled"}

ASSUME ConstantsAssumption ==
  /\ NoUser \notin Users
  /\ NoToken \notin Tokens
  /\ NoIP \notin IPs
  /\ RefreshTtl \in Nat \ {0}
  /\ MaxTime \in Nat
  /\ AdminStatuses \subseteq Statuses
  /\ AdminLists \subseteq SUBSET IPs

VARIABLES
  now,            \* the clock
  users,          \* the users collection
  tokens,         \* the refresh_tokens collection
  login_events,   \* users with a recorded login
  req             \* the handler each request is in

vars == <<now, users, tokens, login_events, req>>

-----------------------------------------------------------------------------
(* Documents.  allowed_ips is the set of addresses its entries cover.  A   *)
(* token's family_id is named by the family's first token.  A purged       *)
(* document was removed by the TTL index; its fields are kept to speak     *)
(* about it, no action reads them.                                         *)

UserDoc == [exists : BOOLEAN, status : Statuses,
            whitelist_only : BOOLEAN, allowed_ips : SUBSET IPs]

NewUser == [exists |-> TRUE, status |-> "active",
            whitelist_only |-> FALSE, allowed_ips |-> {}]

DeletedUser == [NewUser EXCEPT !.exists = FALSE]

TokenDoc == [doc : {"none", "live", "revoked", "purged"},
             user : Users \cup {NoUser},
             family : Tokens \cup {NoToken},
             expires_at : Nat]

Unissued == [doc |-> "none", user |-> NoUser,
             family |-> NoToken, expires_at |-> 0]

Calls == {"add_allowed_ip", "record", "create", "find_one", "find_by_id",
          "revoke_family", "update_many"}

Request == [pc : Calls \cup {"idle"}, user : Users \cup {NoUser},
            token : Tokens \cup {NoToken}, family : Tokens \cup {NoToken},
            ip : IPs \cup {NoIP}, todo : SUBSET Tokens]

Idle == [pc |-> "idle", user |-> NoUser, token |-> NoToken,
         family |-> NoToken, ip |-> NoIP, todo |-> {}]

Init ==
  /\ now = 0
  /\ users = [u \in Users |-> NewUser]
  /\ tokens = [t \in Tokens |-> Unissued]
  /\ login_events = {}
  /\ req = [r \in Requests |-> Idle]

-----------------------------------------------------------------------------
(* Helpers.                                                                *)

At(r, call) == req[r].pc = call

Goto(r, call) == req' = [req EXCEPT ![r].pc = call]

Answer(r) == req' = [req EXCEPT ![r] = Idle]

Live(t) == tokens[t].doc = "live"

\* Seeded bug: the result of find_by_hash is used without being looked at.
StoredUnchecked(t) == tokens[t].doc # "purged"

\* find_by_hash finds the token.
Stored(t) == tokens[t].doc \in {"live", "revoked"}

LiveIn(f) == {t \in Tokens : Live(t) /\ tokens[t].family = f}

\* The request took the usable token of a family and has not stored its
\* successor yet.
Rotating(r) == req[r].pc \in {"find_by_id", "create"} /\ req[r].family # NoToken

\* The request ends by storing a token unless something stops it.
MayIssue(r) == req[r].pc \in {"add_allowed_ip", "record", "find_by_id", "create"}

\* Bound: a request that may store a token starts only while one is left.
HasRoom ==
  Cardinality({r \in Requests : MayIssue(r)})
    < Cardinality({t \in Tokens : tokens[t].doc = "none"})

\* ip_allowed, applied only to accounts in whitelist_only mode.
Admits(user, ip) == user.whitelist_only => ip \in user.allowed_ips

-----------------------------------------------------------------------------
(* POST /login.  The password was right; any refusal changes nothing.      *)

\* Seeded bug: the match on user.status is gone.
LoginAcceptedAnyStatus(user, ip) == user.exists /\ Admits(user, ip)

LoginAccepted(user, ip) == user.exists /\ user.status = "active" /\ Admits(user, ip)

\* find_by_email and everything decided on the document it returned.
LoginRead(r, u, ip) ==
  /\ At(r, "idle")
  /\ HasRoom
  /\ LoginAccepted(users[u], ip)
  /\ req' = [req EXCEPT ![r] =
               [Idle EXCEPT !.pc = IF ip \in users[u].allowed_ips
                                   THEN "record" ELSE "add_allowed_ip",
                            !.user = u, !.ip = ip]]
  /\ UNCHANGED <<now, users, tokens, login_events>>

\* $addToSet on the document as it is now, if it is still there; an error is
\* only logged and the login goes on.
AddAllowedIp(r) ==
  /\ At(r, "add_allowed_ip")
  /\ \/ users[req[r].user].exists
        /\ users' = [users EXCEPT ![req[r].user].allowed_ips = @ \cup {req[r].ip}]
     \/ UNCHANGED users
  /\ Goto(r, "record")
  /\ UNCHANGED <<now, tokens, login_events>>

\* login_events.record inserts an event; an error is only logged.
RecordLogin(r) ==
  /\ At(r, "record")
  /\ login_events' \in {login_events, login_events \cup {req[r].user}}
  /\ Goto(r, "create")
  /\ UNCHANGED <<now, users, tokens>>

\* Seeded bug: refresh ends with create_session.
FreshFamily(r, t) == t

\* The family of the new token t: the one of the token it replaces, or a new one
\* when it ends a login.
FamilyOf(r, t) == IF req[r].family = NoToken THEN t ELSE req[r].family

\* insert_one of a fresh token.
CreateSession(r) ==
  /\ At(r, "create")
  /\ \E t \in Tokens :
       /\ tokens[t].doc = "none"
       /\ tokens' = [tokens EXCEPT ![t] =
            [doc |-> "live", user |-> req[r].user, family |-> FamilyOf(r, t),
             expires_at |-> now + RefreshTtl]]
  /\ Answer(r)
  /\ UNCHANGED <<now, users, login_events>>

-----------------------------------------------------------------------------
(* POST /refresh with the cookie t.  A missing or never issued cookie is    *)
(* answered 401 and changes nothing.                                       *)

\* Seeded bug: the filter forgets revoked: false.
RotatableTwice(t) == Stored(t) /\ tokens[t].expires_at > now

\* The filter of consume_for_rotation.
Rotatable(t) == Live(t) /\ tokens[t].expires_at > now

\* Seeded bug: find_one in place of find_one_and_update.
RefreshFind(r, t, ip) ==
  /\ At(r, "idle")
  /\ HasRoom
  /\ Rotatable(t)
  /\ req' = [req EXCEPT ![r] =
               [Idle EXCEPT !.pc = "find_by_id", !.user = tokens[t].user,
                            !.family = tokens[t].family, !.ip = ip]]
  /\ UNCHANGED <<now, users, tokens, login_events>>

\* find_one_and_update matched: the token is consumed in one atomic step.
RefreshRotate(r, t, ip) ==
  /\ At(r, "idle")
  /\ HasRoom
  /\ Rotatable(t)
  /\ tokens' = [tokens EXCEPT ![t].doc = "revoked"]
  /\ req' = [req EXCEPT ![r] =
               [Idle EXCEPT !.pc = "find_by_id", !.user = tokens[t].user,
                            !.family = tokens[t].family, !.ip = ip]]
  /\ UNCHANGED <<now, users, login_events>>

\* It did not match: the token is looked up in a second call.
RefreshMiss(r, t) ==
  /\ At(r, "idle")
  /\ Stored(t)
  /\ ~ Rotatable(t)
  /\ req' = [req EXCEPT ![r] = [Idle EXCEPT !.pc = "find_one", !.token = t]]
  /\ UNCHANGED <<now, users, tokens, login_events>>

\* Seeded bug: a token that is neither usable nor revoked is looked up for ever.
RefreshLookupAgain(r) ==
  /\ At(r, "find_one")
  /\ tokens[req[r].token].doc = "revoked"
  /\ req' = [req EXCEPT ![r] =
               [Idle EXCEPT !.pc = "revoke_family",
                            !.family = tokens[req[r].token].family]]
  /\ UNCHANGED <<now, users, tokens, login_events>>

\* Reuse of a consumed token closes its family; an expired or purged token
\* is just refused.
RefreshLookup(r) ==
  /\ At(r, "find_one")
  /\ IF tokens[req[r].token].doc = "revoked"
     THEN req' = [req EXCEPT ![r] =
                    [Idle EXCEPT !.pc = "revoke_family",
                                 !.family = tokens[req[r].token].family]]
     ELSE Answer(r)
  /\ UNCHANGED <<now, users, tokens, login_events>>

\* Seeded bug: the handler waits for an account that is gone.
RefreshReadPresentUser(r) ==
  /\ At(r, "find_by_id")
  /\ users[req[r].user].exists
  /\ IF Admits(users[req[r].user], req[r].ip) THEN Goto(r, "create") ELSE Answer(r)
  /\ UNCHANGED <<now, users, tokens, login_events>>

\* find_by_id after the token was consumed.  The status of the account is not
\* looked at; an address outside the whitelist is refused with the token spent.
RefreshReadUser(r) ==
  /\ At(r, "find_by_id")
  /\ LET user == users[req[r].user] IN
       \/ ~ user.exists /\ Goto(r, "revoke_family")
       \/ user.exists /\ ~ Admits(user, req[r].ip) /\ Answer(r)
       \/ user.exists /\ Admits(user, req[r].ip) /\ Goto(r, "create")
  /\ UNCHANGED <<now, users, tokens, login_events>>

-----------------------------------------------------------------------------
(* POST /logout with the cookie t, expired and revoked ones included.       *)

Logout(r, t) ==
  /\ At(r, "idle")
  /\ Stored(t)
  /\ req' = [req EXCEPT ![r] = [Idle EXCEPT !.pc = "revoke_family",
                                            !.family = tokens[t].family]]
  /\ UNCHANGED <<now, users, tokens, login_events>>

-----------------------------------------------------------------------------
(* revoke_family: update_many reaches every matching document that is      *)
(* there when it starts, and perhaps some stored while it runs.            *)

\* Seeded bug: the filter selects revoked: true.
RevokeRevoked(r) ==
  /\ At(r, "revoke_family")
  /\ req' = [req EXCEPT ![r] =
               [@ EXCEPT !.pc = "update_many",
                         !.todo = {t \in Tokens : /\ tokens[t].doc = "revoked"
                                                  /\ tokens[t].family = req[r].family}]]
  /\ UNCHANGED <<now, users, tokens, login_events>>

RevokeStart(r) ==
  /\ At(r, "revoke_family")
  /\ req' = [req EXCEPT ![r] =
               [@ EXCEPT !.pc = "update_many", !.todo = LiveIn(req[r].family)]]
  /\ UNCHANGED <<now, users, tokens, login_events>>

RevokeOne(r) ==
  /\ At(r, "update_many")
  /\ \E t \in LiveIn(req[r].family) :
       tokens' = [tokens EXCEPT ![t].doc = "revoked"]
  /\ UNCHANGED <<now, users, login_events, req>>

ScanComplete(r) == \A t \in req[r].todo : ~ Live(t)

RevokeDone(r) ==
  /\ At(r, "update_many")
  /\ ScanComplete(r)
  /\ Answer(r)
  /\ UNCHANGED <<now, users, tokens, login_events>>

-----------------------------------------------------------------------------
(* A call fails (500, or an error the handler swallows before its answer), *)
(* the client goes away and the task is dropped, or the process is killed. *)

Abort(r) ==
  /\ ~ At(r, "idle")
  /\ Answer(r)
  /\ UNCHANGED <<now, users, tokens, login_events>>

-----------------------------------------------------------------------------
(* PUT /users/{id}/status, PUT /users/{id}/whitelist, DELETE /users/{id}:   *)
(* one update each.  None of them touches the refresh tokens.              *)

UpdateStatus(u, status) ==
  /\ users[u].exists
  /\ users' = [users EXCEPT ![u].status = status]
  /\ UNCHANGED <<now, tokens, login_events, req>>

UpdateWhitelist(u, only, ips) ==
  /\ users[u].exists
  /\ only => ips # {}
  /\ users' = [users EXCEPT ![u] = [@ EXCEPT !.whitelist_only = only, !.allowed_ips = ips]]
  /\ UNCHANGED <<now, tokens, login_events, req>>

DeleteUser(u) ==
  /\ users[u].exists
  /\ users' = [users EXCEPT ![u] = DeletedUser]
  /\ UNCHANGED <<now, tokens, login_events, req>>

-----------------------------------------------------------------------------
(* Time passes; the TTL index removes expired documents some time later.   *)

Tick ==
  /\ now < MaxTime
  /\ now' = now + 1
  /\ UNCHANGED <<users, tokens, login_events, req>>

Purge(t) ==
  /\ Stored(t)
  /\ tokens[t].expires_at <= now
  /\ tokens' = [tokens EXCEPT ![t].doc = "purged"]
  /\ UNCHANGED <<now, users, login_events, req>>

-----------------------------------------------------------------------------
Arrive(r) ==
  \/ \E u \in Users, ip \in IPs : LoginRead(r, u, ip)
  \/ \E t \in Tokens, ip \in IPs : RefreshRotate(r, t, ip)
  \/ \E t \in Tokens : RefreshMiss(r, t) \/ Logout(r, t)

Step(r) ==
  \/ AddAllowedIp(r) \/ RecordLogin(r) \/ CreateSession(r)
  \/ RefreshLookup(r) \/ RefreshReadUser(r)
  \/ RevokeStart(r) \/ RevokeOne(r) \/ RevokeDone(r)

Admin(u) ==
  \/ \E status \in AdminStatuses : UpdateStatus(u, status)
  \/ \E only \in BOOLEAN, ips \in AdminLists : UpdateWhitelist(u, only, ips)
  \/ DeleteUser(u)

Next ==
  \/ \E r \in Requests : Arrive(r) \/ Step(r) \/ Abort(r)
  \/ \E u \in Users : Admin(u)
  \/ Tick
  \/ \E t \in Tokens : Purge(t)

Spec == Init /\ [][Next]_vars

\* tokio keeps polling a handler whose database call answered, and the driver
\* answers or times out: a request that can take its next step takes it.
Fairness == \A r \in Requests : WF_vars(Step(r))

-----------------------------------------------------------------------------
(* Properties.                                                             *)

\* The fields a call reads are set before it is made, and a stored token has
\* an owner and a family.
FieldsSet ==
  /\ \A t \in Tokens :
       /\ tokens[t].doc = "none" => tokens[t] = Unissued
       /\ tokens[t].doc # "none" => tokens[t].user \in Users /\ tokens[t].family \in Tokens
  /\ \A r \in Requests :
       /\ MayIssue(r) => req[r].user \in Users /\ req[r].ip \in IPs
       /\ req[r].pc \in {"add_allowed_ip", "record"} => req[r].family = NoToken
       /\ req[r].pc = "find_one" => req[r].token \in Tokens
       /\ req[r].pc \in {"find_by_id", "revoke_family", "update_many"}
            => req[r].family \in Tokens

\* The collections and the requests in flight keep their shape.
TypeOK ==
  /\ now \in Nat
  /\ users \in [Users -> UserDoc]
  /\ tokens \in [Tokens -> TokenDoc]
  /\ login_events \subseteq Users
  /\ req \in [Requests -> Request]
  /\ FieldsSet

\* At most one token of a family can be exchanged, whatever the interleaving
\* of refreshes: find_one_and_update is the only thing that guarantees it.
OneLiveToken ==
  \A t1, t2 \in Tokens :
    Live(t1) /\ Live(t2) /\ tokens[t1].family = tokens[t2].family => t1 = t2

\* Of two refreshes of one family at most one holds the right to renew it, and
\* while it does the family has no usable token.  With OneLiveToken this is
\* what makes "already revoked" mean "already used" in consume_for_rotation.
OneRotation ==
  \A r \in Requests : Rotating(r) =>
    /\ LiveIn(req[r].family) = {}
    /\ \A s \in Requests : Rotating(s) /\ req[s].family = req[r].family => s = r

\* A request in flight that would be refused if it read the account now.
\* /refresh never looks at the status.
OutOfDate(r) ==
  LET user == users[req[r].user] IN
  /\ req[r].pc \in {"add_allowed_ip", "record", "create"}
  /\ \/ ~ user.exists
     \/ user.whitelist_only /\ req[r].ip \notin user.allowed_ips
     \/ req[r].family = NoToken /\ user.status # "active"

\* An account deleted, disabled or restricted to a whitelist is out of reach for
\* every request that had not read it yet: login and refresh check the document
\* they read, and only those already past that read can still open a session.
OnlyEarlierReadsEscape ==
  [][\A r \in Requests :
       OutOfDate(r)' => req[r].pc \in {"add_allowed_ip", "record", "create"}]_vars

\* The phase of a family, as TokenFamily sees it.
Phase(f) ==
  IF tokens[f].family # f THEN "none"
  ELSE IF LiveIn(f) # {} THEN "live"
  ELSE IF \E r \in Requests : Rotating(r) /\ req[r].family = f THEN "rotating"
  ELSE "closed"

Family == [f \in Tokens |-> Phase(f)]

TF == INSTANCE TokenFamily WITH Families <- Tokens, family <- Family

\* Login, refresh, logout, revocation, expiry and every failure in between keep
\* the promise of TokenFamily: one usable token, renewed by exchange, and a
\* family with neither a usable token nor a refresh in flight stays closed.
ImplementsTokenFamily == TF!FamilySpec

\* Moreover no family is left without a usable token by a refresh that never
\* ends: the refresh renews the family or closes it.
ImplementsFairTokenFamily == TF!FairFamilySpec

\* Every request is answered: no handler waits for another, and update_many
\* ends although refreshes in flight store tokens of its family while it runs
\* (as many as Tokens holds).
RequestsEnd == \A r \in Requests : ~ At(r, "idle") ~> At(r, "idle")

=============================================================================
