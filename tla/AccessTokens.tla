---------------------------- MODULE AccessTokens ----------------------------
(***************************************************************************)
(* Access tokens: signed from what a login or a refresh read of the        *)
(* account, validated without looking at the account again.                *)
(*                                                                         *)
(* Ages are counted in ticks and time only advances with Tick; MaxFlight   *)
(* bounds how long a request may take between its first and last call.     *)
(* Passwords, status and refresh tokens are those of Sessions: any account *)
(* that exists may be read here at any time, for any address it admits.    *)
(***************************************************************************)
EXTENDS Naturals, FiniteSets

CONSTANTS
  Users,
  Listed,         \* accounts whose addresses change (bound)
  Deletable,      \* accounts that administrators delete (bound)
  RoleNames,
  Ips,
  NoIp,           \* a token that is bound to no address
  Requests,       \* requests at one time (bound)
  MaxTokens,      \* tokens at one time (bound)
  Ttl,            \* token.ttl_minutes, in ticks
  Leeway,         \* what jsonwebtoken adds to it (60 s)
  MaxFlight,      \* longest time a request takes (bound)
  Headers,        \* values of the X-Portal header
  Portals         \* those of known portals

AdminRole == "admin"

\* What a token says of its account, and when the account stopped to hold it.
Rights == {"account", "anywhere"} \cup RoleNames \cup Ips

ASSUME TokenConstants ==
  /\ AdminRole \in RoleNames
  /\ NoIp \notin Ips
  /\ {"account", "anywhere"} \cap (RoleNames \cup Ips) = {}
  /\ RoleNames \cap Ips = {}
  /\ Listed \subseteq Users /\ Deletable \subseteq Users
  /\ Ttl \in Nat /\ Leeway \in Nat /\ MaxFlight \in Nat
  /\ Portals \subseteq Headers

VARIABLES
  users,    \* what tokens are made of in each account
  req,      \* the requests in flight
  tokens,   \* the access tokens that were signed, with their age
  ago       \* history: ticks since each account last held each right

vars == <<users, req, tokens, ago>>

-----------------------------------------------------------------------------
Account == [exists : BOOLEAN, roles : SUBSET RoleNames, only : BOOLEAN, ips : SUBSET Ips]

Deleted == [exists |-> FALSE, roles |-> {}, only |-> FALSE, ips |-> {}]

\* An account as registration creates it, with some roles.
NewAccounts == [exists : {TRUE}, roles : SUBSET RoleNames, only : {FALSE}, ips : {{}}]

Claims == [user : Users, roles : SUBSET RoleNames, ip : Ips \cup {NoIp}]

\* Ages above the last that any property tells apart.
Expired == Ttl + Leeway + 1
Forgotten == Ttl + Leeway + 2 * MaxFlight + 1

Token == [claims : Claims, age : 0..Expired]

Request == [pc : {"idle"}]
     \cup [pc : {"admin"}, user : Users, age : 0..MaxFlight]
     \cup [pc : {"issue"}, claims : Claims, age : 0..MaxFlight]
     \cup [pc : {"add_allowed_ip"}, claims : Claims, age : 0..MaxFlight, ip : Ips]

Idle == [pc |-> "idle"]

At(q, call) == req[q].pc = call

Admits(u, ip) == users[u].only => ip \in users[u].ips

Holds(account) ==
  IF account.exists
  THEN {"account"} \cup account.roles \cup IF account.only THEN account.ips ELSE {"anywhere"}
  ELSE {}

Grants(c) == {"account"} \cup c.roles \cup {IF c.ip = NoIp THEN "anywhere" ELSE c.ip}

NextAge(n, last) == IF n < last THEN n + 1 ELSE last

Init ==
  /\ users \in [Users -> NewAccounts \cup {Deleted}]
  /\ req = [q \in Requests |-> Idle]
  /\ tokens = {}
  /\ ago = [u \in Users |->
              [x \in Rights |-> IF x \in Holds(users[u]) THEN 0 ELSE Forgotten]]

-----------------------------------------------------------------------------
(* Sessions.                                                               *)

\* The address binds the token if the account is restricted to some.
ClaimsOf(u, ip) ==
  [user |-> u, roles |-> users[u].roles, ip |-> IF users[u].only THEN ip ELSE NoIp]

\* Seeded bug: a refresh copies the claims of the token it replaces.
ReadClaims(q, u, ip) ==
  /\ At(q, "idle")
  /\ \E claims \in {t.claims : t \in {s \in tokens : s.claims.user = u}}
                   \cup (IF users[u].exists THEN {ClaimsOf(u, ip)} ELSE {}) :
       req' = [req EXCEPT ![q] = [pc |-> "issue", claims |-> claims, age |-> 0]]
  /\ UNCHANGED <<users, tokens, ago>>

\* Login and refresh read the account.
ReadAccount(q, u, ip) ==
  /\ At(q, "idle")
  /\ users[u].exists
  /\ Admits(u, ip)
  /\ req' = [req EXCEPT ![q] = [pc |-> "issue", claims |-> ClaimsOf(u, ip), age |-> 0]]
  /\ UNCHANGED <<users, tokens, ago>>

\* A login from an address that is not in the list of an unrestricted account.
LoginElsewhere(q, u, ip) ==
  /\ At(q, "idle")
  /\ users[u].exists
  /\ ~ users[u].only
  /\ ip \notin users[u].ips
  /\ req' = [req EXCEPT ![q] = [pc |-> "add_allowed_ip", claims |-> ClaimsOf(u, ip),
                                age |-> 0, ip |-> ip]]
  /\ UNCHANGED <<users, tokens, ago>>

\* One update of the account, and of what is remembered of it.
Store(u, account) ==
  /\ users[u].exists
  /\ users' = [users EXCEPT ![u] = account]
  /\ ago' = [ago EXCEPT ![u] =
               [x \in Rights |-> IF x \in Holds(account) THEN 0 ELSE ago[u][x]]]

\* The address joins the list as it is now; an error is only logged.
AddAllowedIp(q) ==
  /\ At(q, "add_allowed_ip")
  /\ \/ LET u == req[q].claims.user
        IN  Store(u, [users[u] EXCEPT !.ips = @ \cup {req[q].ip}])
     \/ UNCHANGED <<users, ago>>
  /\ req' = [req EXCEPT ![q] = [pc |-> "issue", claims |-> req[q].claims, age |-> req[q].age]]
  /\ UNCHANGED tokens

\* issue: iat is now, exp is now + ttl, whatever the awaits since the read.
Issue(q) ==
  /\ At(q, "issue")
  /\ tokens' = tokens \cup {[claims |-> req[q].claims, age |-> 0]}
  /\ Cardinality(tokens') <= MaxTokens
  /\ req' = [req EXCEPT ![q] = Idle]
  /\ UNCHANGED <<users, ago>>

\* A call failed, or the client went away.
Abandon(q) ==
  /\ req[q].pc # "idle"
  /\ req' = [req EXCEPT ![q] = Idle]
  /\ UNCHANGED <<users, tokens, ago>>

-----------------------------------------------------------------------------
(* Validation.                                                             *)

\* Seeded bug: exp is not looked at.
AcceptedForEver(t) == t.age <= Expired

\* validate: exp may be passed by the leeway; the audience is not looked at.
Accepted(t) == t.age <= Ttl + Leeway

\* GET /validate, asked by the gateway.
Validates(t, ip, portal) ==
  /\ Accepted(t)
  /\ t.claims.ip \in {NoIp, ip}
  /\ portal \in Portals
  /\ t.claims.roles # {}

\* extract_token: the cookie only counts without a bearer token.
Carried(bearer, cookie) == IF bearer = {} THEN cookie ELSE bearer

\* Seeded bug: the claims are read without validation.
AdminBeginUnchecked(q, bearer, cookie) ==
  /\ At(q, "idle")
  /\ \E t \in Carried(bearer, cookie) :
       /\ AdminRole \in t.claims.roles
       /\ req' = [req EXCEPT ![q] = [pc |-> "admin", user |-> t.claims.user, age |-> 0]]
  /\ UNCHANGED <<users, tokens, ago>>

\* PortalAdmin: the claims, not the account, say who is an administrator, and
\* the address is not looked at.
AdminBegin(q, bearer, cookie) ==
  /\ At(q, "idle")
  /\ \E t \in Carried(bearer, cookie) :
       /\ Accepted(t)
       /\ AdminRole \in t.claims.roles
       /\ req' = [req EXCEPT ![q] = [pc |-> "admin", user |-> t.claims.user, age |-> 0]]
  /\ UNCHANGED <<users, tokens, ago>>

\* The write of update_roles, update_whitelist or delete_user.
AdminWrite(q, u, account) ==
  /\ At(q, "admin")
  /\ Store(u, account)
  /\ req' = [req EXCEPT ![q] = Idle]
  /\ UNCHANGED tokens

UpdateRoles(q, u, roles) == AdminWrite(q, u, [users[u] EXCEPT !.roles = roles])

\* Seeded bug: an entry that is no address is stored.
UpdateWhitelistUnchecked(q, u, only, ips) ==
  /\ only => ips # {}
  /\ AdminWrite(q, u, [users[u] EXCEPT !.only = only, !.ips = ips \cup {NoIp}])

\* A restriction to no address at all is refused before the update.
UpdateWhitelist(q, u, only, ips) ==
  /\ only => ips # {}
  /\ AdminWrite(q, u, [users[u] EXCEPT !.only = only, !.ips = ips])

DeleteUser(q, u) == AdminWrite(q, u, Deleted)

-----------------------------------------------------------------------------
Tick ==
  /\ \A q \in Requests : ~ At(q, "idle") => req[q].age < MaxFlight
  /\ req' = [q \in Requests |->
               IF At(q, "idle") THEN Idle ELSE [req[q] EXCEPT !.age = @ + 1]]
  /\ tokens' = {[t EXCEPT !.age = NextAge(@, Expired)] : t \in tokens}
  /\ ago' = [u \in Users |-> [x \in Rights |->
               IF x \in Holds(users[u]) THEN 0 ELSE NextAge(ago[u][x], Forgotten)]]
  /\ UNCHANGED users

\* A client forgets its token.
Forget(t) ==
  /\ t \in tokens
  /\ tokens' = tokens \ {t}
  /\ UNCHANGED <<users, req, ago>>

Next ==
  \/ \E q \in Requests :
       \/ \E u \in Users, ip \in Ips : ReadAccount(q, u, ip)
       \/ \E u \in Listed, ip \in Ips : LoginElsewhere(q, u, ip)
       \/ AddAllowedIp(q)
       \/ Issue(q)
       \/ Abandon(q)
       \/ \E bearer, cookie \in {{}} \cup {{t} : t \in tokens} : AdminBegin(q, bearer, cookie)
       \/ \E u \in Users, roles \in SUBSET RoleNames : UpdateRoles(q, u, roles)
       \/ \E u \in Listed, only \in BOOLEAN, ips \in SUBSET Ips : UpdateWhitelist(q, u, only, ips)
       \/ \E u \in Deletable : DeleteUser(q, u)
  \/ Tick
  \/ \E t \in tokens : Forget(t)

Spec == Init /\ [][Next]_vars

\* Time passes and requests end.
FairSpec ==
  /\ Spec
  /\ WF_vars(Tick)
  /\ \A q \in Requests : WF_vars(AddAllowedIp(q) \/ Issue(q) \/ Abandon(q))

-----------------------------------------------------------------------------
(* Properties.                                                             *)

TokensTypeOK ==
  /\ users \in [Users -> Account]
  /\ req \in [Requests -> Request]
  /\ tokens \subseteq Token
  /\ ago \in [Users -> [Rights -> 0..Forgotten]]

\* Whatever the gateway is told of an account (that it exists, its roles, the
\* address it is used from), the account held it no longer ago than the life of
\* a token, the leeway and one request together.
StalenessBounded ==
  \A t \in tokens, ip \in Ips, portal \in Headers :
    Validates(t, ip, portal) =>
      \A x \in Grants(t.claims) : ago[t.claims.user][x] <= Ttl + Leeway + MaxFlight

\* Whoever administers was an administrator no longer ago than that and the
\* length of his own request, however many administrators demote each other.
AdministratorsRecent ==
  \A q \in Requests : At(q, "admin") =>
    ago[req[q].user][AdminRole] <= Ttl + Leeway + 2 * MaxFlight

\* A right that an account lost for good is granted no more in the end: no
\* refresh carries it over from the token before.
RevokedRightsFade ==
  \A u \in Users : \A x \in Rights :
    <>[](x \notin Holds(users[u])) =>
      <>[](\A t \in tokens : t.claims.user = u /\ Accepted(t) => x \notin Grants(t.claims))
=============================================================================
