------------------------- MODULE AccessTokensProofs -------------------------
(***************************************************************************)
(* Theorems about AccessTokens, for any number of accounts, tokens and     *)
(* requests and any durations.                                             *)
(***************************************************************************)
EXTENDS AccessTokens, TLAPS

-----------------------------------------------------------------------------
(* Types.                                                                  *)

UsersType == users \in [Users -> Account]
RequestsType == req \in [Requests -> Request]
TokensType == tokens \subseteq Token
AgoType == ago \in [Users -> [Rights -> 0..Forgotten]]

LEMMA TypeParts ==
  TokensTypeOK <=> UsersType /\ RequestsType /\ TokensType /\ AgoType
  BY DEF TokensTypeOK, UsersType, RequestsType, TokensType, AgoType

LEMMA Durations ==
  /\ Expired \in Nat /\ Forgotten \in Nat
  /\ 0 \in 0..Expired /\ 0 \in 0..Forgotten /\ 0 \in 0..MaxFlight
  BY TokenConstants DEF Expired, Forgotten

LEMMA NextAgeType ==
  ASSUME NEW last \in Nat, NEW n \in 0..last
  PROVE  /\ NextAge(n, last) \in 0..last
         /\ NextAge(n, last) <= n + 1
         /\ NextAge(n, last) = last \/ NextAge(n, last) = n + 1
  BY DEF NextAge

LEMMA ClaimsType ==
  ASSUME UsersType, NEW u \in Users, NEW ip \in Ips, users[u].exists, Admits(u, ip)
  PROVE  /\ ClaimsOf(u, ip) \in Claims
         /\ ClaimsOf(u, ip).user = u
         /\ Grants(ClaimsOf(u, ip)) \subseteq Holds(users[u])
  BY TokenConstants
     DEF UsersType, Account, ClaimsOf, Claims, Grants, Holds, Admits

LEMMA GrantsType ==
  ASSUME NEW c \in Claims PROVE Grants(c) \subseteq Rights /\ c.roles \subseteq Grants(c)
  BY DEF Claims, Grants, Rights

LEMMA BusyType ==
  /\ \A c \in Claims, n \in 0..MaxFlight : [pc |-> "issue", claims |-> c, age |-> n] \in Request
  /\ \A u \in Users, n \in 0..MaxFlight : [pc |-> "admin", user |-> u, age |-> n] \in Request
  /\ \A c \in Claims, n \in 0..MaxFlight, ip \in Ips :
       [pc |-> "add_allowed_ip", claims |-> c, age |-> n, ip |-> ip] \in Request
  BY DEF Request

LEMMA RequestFields ==
  ASSUME NEW x \in Request, x.pc # "idle"
  PROVE  /\ x.pc \in {"issue", "add_allowed_ip", "admin"} /\ x.age \in 0..MaxFlight
         /\ x.pc = "admin" => x.user \in Users
         /\ x.pc # "admin" => x.claims \in Claims
         /\ x.pc = "add_allowed_ip" => x.ip \in Ips
         /\ \A n \in 0..MaxFlight : /\ [x EXCEPT !.age = n] \in Request
                                    /\ [x EXCEPT !.age = n].age = n
                                    /\ [x EXCEPT !.age = n].pc = x.pc
                                    /\ x.pc = "admin" => [x EXCEPT !.age = n].user = x.user
                                    /\ x.pc # "admin" => [x EXCEPT !.age = n].claims = x.claims
<1>1. CASE x \in [pc : {"admin"}, user : Users, age : 0..MaxFlight]
  BY <1>1 DEF Request
<1>2. CASE x \in [pc : {"issue"}, claims : Claims, age : 0..MaxFlight]
  BY <1>2 DEF Request
<1>3. CASE x \in [pc : {"add_allowed_ip"}, claims : Claims, age : 0..MaxFlight, ip : Ips]
  BY <1>3 DEF Request
<1>4. x \notin [pc : {"idle"}]
  OBVIOUS
<1> QED
  BY <1>1, <1>2, <1>3, <1>4 DEF Request

LEMMA IdleType == Idle \in Request /\ Idle.pc = "idle"
  BY DEF Idle, Request

LEMMA TokenFields ==
  ASSUME NEW t \in Token, NEW n \in 0..Expired
  PROVE  /\ [t EXCEPT !.age = n] \in Token
         /\ [t EXCEPT !.age = n].age = n
         /\ [t EXCEPT !.age = n].claims = t.claims
  BY DEF Token

\* How the history follows the accounts.
NoOlder ==
  /\ AgoType'
  /\ \A u \in Users, x \in Rights : ago'[u][x] <= ago[u][x]

OneOlder ==
  /\ AgoType'
  /\ \A u \in Users, x \in Rights : ago'[u][x] <= ago[u][x] + 1

Current ==
  \A u \in Users, x \in Rights : x \in Holds(users[u]) => ago[u][x] = 0

LEMMA StoreAgo ==
  ASSUME UsersType, AgoType, Current, NEW u \in Users, NEW account \in Account,
         Store(u, account)
  PROVE  UsersType' /\ NoOlder /\ Current'
<1>1. users' = [users EXCEPT ![u] = account]
  BY DEF Store
<1>2. ago' = [ago EXCEPT ![u] =
                [x \in Rights |-> IF x \in Holds(account) THEN 0 ELSE ago[u][x]]]
  BY DEF Store
<1>3. UsersType' /\ NoOlder
  BY <1>1, <1>2, Durations DEF UsersType, AgoType, NoOlder
<1>4. \A v \in Users, x \in Rights :
        ago'[v][x] = IF v = u THEN (IF x \in Holds(account) THEN 0 ELSE ago[u][x])
                     ELSE ago[v][x]
  BY <1>2 DEF AgoType
<1>5. \A v \in Users : users'[v] = IF v = u THEN account ELSE users[v]
  BY <1>1 DEF UsersType
<1>6. Current'
  BY <1>4, <1>5 DEF Current
<1> QED
  BY <1>3, <1>6

LEMMA TickAgo ==
  ASSUME AgoType, Tick PROVE OneOlder /\ Current'
<1>1. \A u \in Users, x \in Rights :
        /\ NextAge(ago[u][x], Forgotten) \in 0..Forgotten
        /\ NextAge(ago[u][x], Forgotten) <= ago[u][x] + 1
        /\ ago[u][x] \in 0..Forgotten
  BY NextAgeType, Durations DEF AgoType
<1>2. ago' = [u \in Users |-> [x \in Rights |->
                IF x \in Holds(users[u]) THEN 0 ELSE NextAge(ago[u][x], Forgotten)]]
  BY DEF Tick
<1>3. \A u \in Users, x \in Rights :
        ago'[u][x] = IF x \in Holds(users[u]) THEN 0 ELSE NextAge(ago[u][x], Forgotten)
  BY <1>2
<1>4. AgoType'
  BY <1>1, <1>2, Durations DEF AgoType
<1>5. OneOlder
  BY <1>1, <1>3, <1>4 DEF OneOlder
<1>6. Current'
  BY <1>3 DEF Current, Tick
<1> QED
  BY <1>5, <1>6

-----------------------------------------------------------------------------
(* The bounds.                                                             *)

\* A login or a refresh that has read the account.
HasRead(q) == At(q, "issue") \/ At(q, "add_allowed_ip")

\* What a request in flight read is as old as the request; what it was allowed
\* by a token is as old as the token, at most.
RequestBound(q) ==
  /\ HasRead(q) =>
       \A x \in Grants(req[q].claims) : ago[req[q].claims.user][x] <= req[q].age
  /\ At(q, "admin") =>
       ago[req[q].user][AdminRole] <= Ttl + Leeway + MaxFlight + req[q].age

TokenBound(t) ==
  Accepted(t) => \A x \in Grants(t.claims) : ago[t.claims.user][x] <= t.age + MaxFlight

IInv ==
  /\ TokensTypeOK
  /\ Current
  /\ \A q \in Requests : RequestBound(q)
  /\ \A t \in tokens : TokenBound(t)

LEMMA IInvInit == Init => IInv
<1> SUFFICES ASSUME Init PROVE IInv
  OBVIOUS
<1>1. UsersType /\ RequestsType /\ TokensType /\ AgoType
  <2>1. NewAccounts \cup {Deleted} \subseteq Account
    <3>1. Deleted \in Account
      BY DEF Deleted, Account
    <3>2. ASSUME NEW account \in NewAccounts PROVE account \in Account
      BY <3>2 DEF NewAccounts, Account
    <3> QED
      BY <3>1, <3>2
  <2>2. UsersType
    BY <2>1 DEF Init, UsersType
  <2> QED
    BY <2>2, IdleType, Durations DEF Init, RequestsType, TokensType, AgoType
<1>2. Current
  BY DEF Init, Current
<1>3. \A q \in Requests : RequestBound(q)
  BY IdleType DEF Init, RequestBound, HasRead, At
<1> QED
  BY <1>1, <1>2, <1>3, TypeParts DEF IInv, Init

\* A request with less left to do, in a step that makes nothing older.
LEMMA Younger ==
  ASSUME IInv, NoOlder, NEW q \in Requests, NEW y \in Request, req' = [req EXCEPT ![q] = y],
         \/ y.pc = "idle"
         \/ /\ HasRead(q) /\ y.pc = "issue"
            /\ y.claims = req[q].claims /\ y.age = req[q].age,
         tokens' \subseteq tokens
  PROVE  /\ RequestsType' /\ TokensType'
         /\ \A p \in Requests : RequestBound(p)'
         /\ \A t \in tokens' : TokenBound(t)'
<1>t. RequestsType /\ TokensType /\ AgoType
  BY TypeParts DEF IInv
<1>1. RequestsType' /\ TokensType'
  BY <1>t DEF RequestsType, TokensType
<1>2. \A p \in Requests : req'[p] = IF p = q THEN y ELSE req[p]
  BY <1>t DEF RequestsType
<1>3. \A u \in Users, x \in Rights :
        ago[u][x] \in Nat /\ ago'[u][x] \in Nat /\ ago'[u][x] <= ago[u][x]
  BY <1>t, Durations DEF NoOlder, AgoType
<1>4. ASSUME NEW p \in Requests PROVE RequestBound(p)'
  <2>a. RequestBound(p) /\ req[p] \in Request /\ AdminRole \in Rights
    BY <1>t, TokenConstants DEF IInv, RequestsType, Rights
  <2>1. CASE req'[p].pc = "idle"
    BY <2>1 DEF RequestBound, HasRead, At
  <2>2. CASE req'[p].pc = "admin"
    <3>1. req'[p] = req[p] /\ At(p, "admin")
      BY <1>2, <2>2 DEF At
    <3>2. req[p].user \in Users /\ req[p].age \in 0..MaxFlight
      BY <2>a, <3>1, RequestFields DEF At
    <3> QED
      BY <1>3, <2>a, <3>1, <3>2, TokenConstants DEF RequestBound, HasRead, At
  <2>3. CASE req'[p].pc \notin {"idle", "admin"}
    <3>1. /\ HasRead(p) /\ req'[p].claims = req[p].claims /\ req'[p].age = req[p].age
      <4>1. CASE p = q
        BY <1>2, <2>3, <4>1
      <4>2. CASE p # q
        BY <1>2, <2>a, <2>3, <4>2, RequestFields DEF HasRead, At
      <4> QED
        BY <4>1, <4>2
    <3>2. req[p].claims \in Claims /\ req[p].age \in 0..MaxFlight
      BY <2>a, <3>1, RequestFields DEF HasRead, At
    <3>3. req[p].claims.user \in Users /\ Grants(req[p].claims) \subseteq Rights
      BY <3>2, GrantsType DEF Claims
    <3> QED
      BY <1>3, <2>a, <2>3, <3>1, <3>2, <3>3, TokenConstants DEF RequestBound, At
  <2> QED
    BY <2>1, <2>2, <2>3
<1>5. ASSUME NEW t \in tokens' PROVE TokenBound(t)'
  <2>1. t \in tokens /\ TokenBound(t)
    BY <1>5 DEF IInv
  <2>2. t.claims \in Claims /\ t.age \in Nat
    BY <1>t, <2>1, Durations DEF TokensType, Token
  <2>3. t.claims.user \in Users /\ Grants(t.claims) \subseteq Rights
    BY <2>2, GrantsType DEF Claims
  <2> QED
    BY <1>3, <2>1, <2>2, <2>3, TokenConstants DEF TokenBound, Accepted
<1> QED
  BY <1>1, <1>4, <1>5

LEMMA IInvTick == ASSUME IInv, Tick PROVE IInv'
<1>t. UsersType /\ RequestsType /\ TokensType /\ AgoType
  BY TypeParts DEF IInv
<1>a. OneOlder /\ Current'
  BY <1>t, TickAgo
<1>b. \A u \in Users, x \in Rights :
        ago[u][x] \in Nat /\ ago'[u][x] \in Nat /\ ago'[u][x] <= ago[u][x] + 1
  BY <1>t, <1>a, Durations DEF OneOlder, AgoType
<1>c. req' = [q \in Requests |->
                IF At(q, "idle") THEN Idle ELSE [req[q] EXCEPT !.age = req[q].age + 1]]
  BY DEF Tick
<1>1. ASSUME NEW q \in Requests PROVE req'[q] \in Request /\ RequestBound(q)'
  <2>1. CASE At(q, "idle")
    BY <1>c, <2>1, IdleType DEF RequestBound, HasRead, At
  <2>2. CASE ~ At(q, "idle")
    <3> DEFINE n == req[q].age
    <3>1. req[q] \in Request /\ req[q].pc # "idle" /\ n < MaxFlight
      BY <1>t, <2>2 DEF RequestsType, At, Tick
    <3>2. n \in Nat /\ n + 1 \in 0..MaxFlight
      BY <3>1, RequestFields, TokenConstants
    <3>3. req'[q] = [req[q] EXCEPT !.age = n + 1]
      BY <1>c, <2>2
    <3>4. req'[q] \in Request /\ req'[q].age = n + 1 /\ req'[q].pc = req[q].pc
      BY <3>1, <3>2, <3>3, RequestFields
    <3>5. AdminRole \in Rights /\ RequestBound(q)
      BY TokenConstants DEF Rights, IInv
    <3>6. CASE At(q, "admin")
      <4>1. req[q].user \in Users /\ req'[q].user = req[q].user
        BY <3>1, <3>2, <3>3, <3>6, RequestFields DEF At
      <4> QED
        BY <1>b, <3>2, <3>4, <3>5, <3>6, <4>1, TokenConstants DEF RequestBound, HasRead, At
    <3>7. CASE ~ At(q, "admin")
      <4>1. HasRead(q) /\ req[q].claims \in Claims /\ req'[q].claims = req[q].claims
        BY <3>1, <3>2, <3>3, <3>7, RequestFields DEF At, HasRead
      <4>2. req[q].claims.user \in Users /\ Grants(req[q].claims) \subseteq Rights
        BY <4>1, GrantsType DEF Claims
      <4> QED
        BY <1>b, <3>2, <3>4, <3>5, <3>7, <4>1, <4>2, TokenConstants DEF RequestBound, At
    <3> QED
      BY <3>6, <3>7
  <2> QED
    BY <2>1, <2>2
<1>2. ASSUME NEW t \in tokens' PROVE t \in Token /\ TokenBound(t)'
  <2>1. PICK s \in tokens : t = [s EXCEPT !.age = NextAge(s.age, Expired)]
    BY <1>2 DEF Tick
  <2>2. s \in Token /\ s.claims \in Claims /\ s.age \in 0..Expired /\ TokenBound(s)
    BY <1>t DEF TokensType, Token, IInv
  <2>3. /\ t \in Token /\ t.claims = s.claims
        /\ t.age = Expired \/ t.age = s.age + 1
    BY <2>1, <2>2, TokenFields, NextAgeType, Durations
  <2>4. Accepted(t) => t.age = s.age + 1 /\ Accepted(s)
    BY <2>2, <2>3, TokenConstants DEF Accepted, Expired
  <2>5. s.claims.user \in Users /\ Grants(s.claims) \subseteq Rights
    BY <2>2, GrantsType DEF Claims
  <2>6. s.age \in Nat
    BY <2>2, Durations
  <2> QED
    BY <1>b, <2>2, <2>3, <2>4, <2>5, <2>6, TokenConstants DEF TokenBound, Accepted
<1>3. RequestsType'
  BY <1>c, <1>1 DEF RequestsType
<1>4. UsersType' /\ TokensType' /\ AgoType'
  BY <1>t, <1>a, <1>2 DEF UsersType, TokensType, OneOlder, Tick
<1> QED
  BY <1>a, <1>1, <1>2, <1>3, <1>4, TypeParts
     DEF IInv, TokensTypeOK, UsersType, RequestsType, TokensType, AgoType

\* A request that begins, while accounts, tokens and history stand still.
LEMMA IInvBegin ==
  ASSUME IInv, NEW q \in Requests, NEW y \in Request, y.pc # "idle", y.age = 0,
         req' = [req EXCEPT ![q] = y],
         UNCHANGED <<users, tokens, ago>>,
         y.pc # "admin" => \A x \in Grants(y.claims) : ago[y.claims.user][x] = 0,
         y.pc = "admin" => ago[y.user][AdminRole] <= Ttl + Leeway + MaxFlight
  PROVE  IInv'
<1>t. UsersType /\ RequestsType /\ TokensType /\ AgoType
  BY TypeParts DEF IInv
<1>1. UsersType' /\ RequestsType' /\ TokensType' /\ AgoType'
  BY <1>t DEF UsersType, RequestsType, TokensType, AgoType
<1>2. Current'
  BY DEF IInv, Current
<1>3. ASSUME NEW p \in Requests PROVE RequestBound(p)'
  <2>1. CASE p = q
    <3>1. req'[p] = y
      BY <1>t, <2>1 DEF RequestsType
    <3>2. CASE y.pc = "admin"
      <4>1. ago[y.user][AdminRole] \in Nat
        BY <1>t, <3>2, RequestFields, Durations, TokenConstants DEF AgoType, Rights
      <4> QED
        BY <3>1, <3>2, <4>1, TokenConstants DEF RequestBound, HasRead, At
    <3>3. CASE y.pc # "admin"
      BY <3>1, <3>3 DEF RequestBound, HasRead, At
    <3> QED
      BY <3>2, <3>3
  <2>2. CASE p # q
    <3>1. req'[p] = req[p] /\ RequestBound(p)
      BY <1>t, <2>2 DEF RequestsType, IInv
    <3> QED
      BY <3>1 DEF RequestBound, HasRead, At
  <2> QED
    BY <2>1, <2>2
<1>4. \A t \in tokens' : TokenBound(t)'
  BY DEF IInv, TokenBound, Accepted
<1> QED
  BY <1>1, <1>2, <1>3, <1>4, TypeParts
     DEF IInv, TokensTypeOK, UsersType, RequestsType, TokensType, AgoType

LEMMA IInvIssue == ASSUME IInv, NEW q \in Requests, Issue(q) PROVE IInv'
<1> DEFINE new == [claims |-> req[q].claims, age |-> 0]
<1>t. UsersType /\ RequestsType /\ TokensType /\ AgoType
  BY TypeParts DEF IInv
<1>1. req[q].claims \in Claims /\ req[q].age \in 0..MaxFlight
  BY <1>t, RequestFields DEF Issue, At, RequestsType
<1>2. new \in Token /\ new.claims = req[q].claims /\ new.age = 0
  BY <1>1, Durations DEF Token
<1>3. RequestBound(q) /\ At(q, "issue")
  BY DEF IInv, Issue
<1>4. /\ req[q].claims.user \in Users /\ Grants(req[q].claims) \subseteq Rights
      /\ \A x \in Rights : ago[req[q].claims.user][x] \in Nat
  BY <1>t, <1>1, GrantsType, Durations DEF Claims, AgoType
<1>5. TokenBound(new)
  BY <1>1, <1>2, <1>3, <1>4, TokenConstants DEF TokenBound, RequestBound, HasRead
<1>6. /\ tokens' = tokens \cup {new} /\ req' = [req EXCEPT ![q] = Idle]
      /\ UNCHANGED <<users, ago>>
  BY DEF Issue
<1>7. UsersType' /\ RequestsType' /\ TokensType' /\ AgoType' /\ Current'
  BY <1>t, <1>2, <1>6, IdleType
     DEF UsersType, RequestsType, TokensType, AgoType, IInv, Current
<1>8. \A t \in tokens' : TokenBound(t)'
  BY <1>5, <1>6 DEF IInv, TokenBound, Accepted
<1>9. ASSUME NEW p \in Requests PROVE RequestBound(p)'
  <2>1. req'[p] = IF p = q THEN Idle ELSE req[p]
    BY <1>t, <1>6 DEF RequestsType
  <2> QED
    BY <1>6, <2>1, IdleType DEF IInv, RequestBound, HasRead, At
<1> QED
  BY <1>7, <1>8, <1>9, TypeParts
     DEF IInv, TokensTypeOK, UsersType, RequestsType, TokensType, AgoType

LEMMA IInvNext == IInv /\ [Next]_vars => IInv'
<1> SUFFICES ASSUME IInv, [Next]_vars PROVE IInv'
  OBVIOUS
<1>t. UsersType /\ RequestsType /\ TokensType /\ AgoType /\ Current
  BY TypeParts DEF IInv
<1>a. \A u \in Users, x \in Rights : ago[u][x] \in Nat
  BY <1>t, Durations DEF AgoType
<1>1. ASSUME NEW q \in Requests, NEW u \in Users, NEW ip \in Ips,
             ReadAccount(q, u, ip) \/ LoginElsewhere(q, u, ip)
      PROVE  IInv'
  <2>1. users[u].exists /\ Admits(u, ip)
    BY <1>1 DEF ReadAccount, LoginElsewhere, Admits
  <2>2. /\ ClaimsOf(u, ip) \in Claims /\ ClaimsOf(u, ip).user = u
        /\ Grants(ClaimsOf(u, ip)) \subseteq Holds(users[u])
    BY <1>t, <2>1, ClaimsType
  <2>3. \A x \in Grants(ClaimsOf(u, ip)) : ago[u][x] = 0
    BY <1>t, <2>2, GrantsType DEF Current
  <2>4. PICK y \in Request : /\ y.pc \in {"issue", "add_allowed_ip"} /\ y.age = 0
                             /\ y.claims = ClaimsOf(u, ip)
                             /\ req' = [req EXCEPT ![q] = y]
    BY <1>1, <2>2, BusyType, Durations DEF ReadAccount, LoginElsewhere
  <2>5. UNCHANGED <<users, tokens, ago>>
    BY <1>1 DEF ReadAccount, LoginElsewhere
  <2> QED
    BY <2>2, <2>3, <2>4, <2>5, IInvBegin
<1>2. ASSUME NEW q \in Requests, Issue(q) PROVE IInv'
  BY <1>2, IInvIssue
<1>3. ASSUME NEW q \in Requests, Abandon(q) PROVE IInv'
  <2>1. NoOlder
    BY <1>3, <1>t, <1>a DEF Abandon, NoOlder, AgoType
  <2>2. UsersType' /\ AgoType' /\ Current'
    BY <1>3, <1>t DEF Abandon, UsersType, AgoType, Current
  <2>3. req' = [req EXCEPT ![q] = Idle] /\ tokens' = tokens
    BY <1>3 DEF Abandon
  <2> QED
    BY <2>1, <2>2, <2>3, Younger, IdleType, TypeParts
       DEF IInv, TokensTypeOK, UsersType, RequestsType, TokensType, AgoType
<1>4. ASSUME NEW q \in Requests, NEW bearer \in {{}} \cup {{t} : t \in tokens},
             NEW cookie \in {{}} \cup {{t} : t \in tokens}, AdminBegin(q, bearer, cookie)
      PROVE  IInv'
  <2>1. PICK t \in tokens :
          /\ Accepted(t)
          /\ AdminRole \in t.claims.roles
          /\ req' = [req EXCEPT ![q] = [pc |-> "admin", user |-> t.claims.user, age |-> 0]]
    BY <1>4 DEF AdminBegin, Carried
  <2>2. t.claims \in Claims /\ t.age \in Nat /\ TokenBound(t)
    BY <1>t, Durations DEF TokensType, Token, IInv
  <2>3. /\ AdminRole \in Grants(t.claims) /\ t.claims.user \in Users
        /\ ago[t.claims.user][AdminRole] \in Nat
    BY <1>a, <2>1, <2>2, GrantsType DEF Claims
  <2>4. ago[t.claims.user][AdminRole] <= Ttl + Leeway + MaxFlight
    BY <2>1, <2>2, <2>3, TokenConstants DEF TokenBound, Accepted
  <2>5. [pc |-> "admin", user |-> t.claims.user, age |-> 0] \in Request
    BY <2>3, BusyType, Durations
  <2>6. UNCHANGED <<users, tokens, ago>>
    BY <1>4 DEF AdminBegin
  <2> QED
    BY <2>1, <2>4, <2>5, <2>6, IInvBegin
<1>5. ASSUME NEW q \in Requests, NEW u \in Users, NEW account \in Account,
             AdminWrite(q, u, account)
      PROVE  IInv'
  <2>1. UsersType' /\ NoOlder /\ Current'
    BY <1>5, <1>t, StoreAgo DEF AdminWrite
  <2>2. req' = [req EXCEPT ![q] = Idle] /\ tokens' = tokens
    BY <1>5 DEF AdminWrite
  <2> QED
    BY <2>1, <2>2, Younger, IdleType, TypeParts
       DEF IInv, TokensTypeOK, UsersType, RequestsType, TokensType, AgoType, NoOlder
<1>6. ASSUME NEW q \in Requests, NEW u \in Users,
             \/ \E roles \in SUBSET RoleNames : UpdateRoles(q, u, roles)
             \/ \E only \in BOOLEAN, ips \in SUBSET Ips : UpdateWhitelist(q, u, only, ips)
             \/ DeleteUser(q, u)
      PROVE  IInv'
  <2>1. users[u] \in Account
    BY <1>t DEF UsersType
  <2>2. \A roles \in SUBSET RoleNames : [users[u] EXCEPT !.roles = roles] \in Account
    BY <2>1 DEF Account
  <2>3. \A only \in BOOLEAN, ips \in SUBSET Ips :
          [users[u] EXCEPT !.only = only, !.ips = ips] \in Account
    BY <2>1 DEF Account
  <2>4. Deleted \in Account
    BY DEF Deleted, Account
  <2> QED
    BY <1>5, <1>6, <2>2, <2>3, <2>4 DEF UpdateRoles, UpdateWhitelist, DeleteUser
<1>10. ASSUME NEW q \in Requests, AddAllowedIp(q) PROVE IInv'
  <2> DEFINE u == req[q].claims.user
             y == [pc |-> "issue", claims |-> req[q].claims, age |-> req[q].age]
  <2>1. At(q, "add_allowed_ip") /\ req' = [req EXCEPT ![q] = y] /\ tokens' = tokens
    BY <1>10 DEF AddAllowedIp
  <2>2. /\ req[q].claims \in Claims /\ req[q].ip \in Ips /\ req[q].age \in 0..MaxFlight
    BY <1>t, <2>1, RequestFields DEF RequestsType, At
  <2>3. u \in Users /\ y \in Request
    BY <2>2, BusyType DEF Claims
  <2>4. [users[u] EXCEPT !.ips = users[u].ips \cup {req[q].ip}] \in Account
    BY <1>t, <2>2, <2>3 DEF UsersType, Account
  <2>5. UsersType' /\ NoOlder /\ Current'
    <3>1. CASE Store(u, [users[u] EXCEPT !.ips = users[u].ips \cup {req[q].ip}])
      BY <1>t, <2>3, <2>4, <3>1, StoreAgo
    <3>2. CASE UNCHANGED <<users, ago>>
      BY <1>t, <1>a, <3>2 DEF NoOlder, UsersType, AgoType, Current
    <3> QED
      BY <1>10, <3>1, <3>2 DEF AddAllowedIp
  <2> QED
    BY <2>1, <2>3, <2>5, Younger, TypeParts
       DEF HasRead, IInv, TokensTypeOK, UsersType, RequestsType, TokensType, AgoType, NoOlder
<1>7. ASSUME Tick PROVE IInv'
  BY <1>7, IInvTick
<1>8. ASSUME NEW t \in tokens, Forget(t) PROVE IInv'
  BY <1>8, TypeParts
     DEF Forget, IInv, TokensTypeOK, Current, RequestBound, HasRead, TokenBound, At, Accepted
<1>9. ASSUME UNCHANGED vars PROVE IInv'
  BY <1>9
     DEF vars, IInv, TokensTypeOK, Current, RequestBound, HasRead, TokenBound, At, Accepted
<1> QED
  BY <1>1, <1>2, <1>3, <1>4, <1>6, <1>7, <1>8, <1>9, <1>10, TokenConstants DEF Next

LEMMA IInvAlways == Spec => []IInv
  BY IInvInit, IInvNext, PTL DEF Spec

\* Accounts, requests, tokens and ages keep their shape.
THEOREM TokensTypeCorrect == Spec => []TokensTypeOK
<1>1. IInv => TokensTypeOK
  BY DEF IInv
<1> QED
  BY <1>1, IInvAlways, PTL

\* What /validate tells of an account was true of it no longer ago than the life
\* of a token, the leeway and one request together.
THEOREM StalenessIsBounded == Spec => []StalenessBounded
<1>1. IInv => StalenessBounded
  <2> SUFFICES ASSUME IInv, NEW t \in tokens, Accepted(t), NEW x \in Grants(t.claims)
               PROVE  ago[t.claims.user][x] <= Ttl + Leeway + MaxFlight
    BY DEF StalenessBounded, Validates
  <2>1. t.claims \in Claims /\ t.age \in Nat
    BY Durations DEF IInv, TokensTypeOK, Token
  <2>2. ago[t.claims.user][x] \in Nat
    BY <2>1, GrantsType, Durations DEF IInv, TokensTypeOK, Claims
  <2>3. TokenBound(t)
    BY DEF IInv
  <2> QED
    BY <2>1, <2>2, <2>3, TokenConstants DEF TokenBound, Accepted
<1> QED
  BY <1>1, IInvAlways, PTL

\* Whoever administers was an administrator that recently, give or take his own
\* request.
THEOREM AdministratorsAreRecent == Spec => []AdministratorsRecent
<1>1. IInv => AdministratorsRecent
  <2> SUFFICES ASSUME IInv, NEW q \in Requests, At(q, "admin")
               PROVE  ago[req[q].user][AdminRole] <= Ttl + Leeway + 2 * MaxFlight
    BY DEF AdministratorsRecent
  <2>1. req[q].user \in Users /\ req[q].age \in 0..MaxFlight
    BY RequestFields DEF IInv, TokensTypeOK, At
  <2>2. ago[req[q].user][AdminRole] \in Nat
    BY <2>1, Durations, TokenConstants DEF IInv, TokensTypeOK, Rights
  <2>3. RequestBound(q)
    BY DEF IInv
  <2> QED
    BY <2>1, <2>2, <2>3, TokenConstants DEF RequestBound
<1> QED
  BY <1>1, IInvAlways, PTL
=============================================================================
