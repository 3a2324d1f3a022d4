-------------------------------- MODULE Roles --------------------------------
(***************************************************************************)
(* The role catalogue: what every start of the service does to it and to   *)
(* the configured administrator, and the handlers that create, delete and  *)
(* assign roles once it listens.                                           *)
(*                                                                         *)
(* One call to the database is one step.  The process may be killed, or    *)
(* refuse to start, between any two calls, and may be started again as     *)
(* another release, whose portals differ.                                  *)
(***************************************************************************)
EXTENDS Naturals

CONSTANTS
  Ids,            \* ids of the documents of the catalogue (bound)
  Names,          \* names of roles, without blanks around them
  SubNames,       \* names administrators give to sub-roles
  Releases,       \* what Portal::ALL is, by name, in each release
  Lists,          \* lists of roles administrators give to accounts
  Users,
  NoUser,
  SeededAdmin,    \* the account of ADMIN_EMAIL, NoUser without the secrets
  Requests        \* delete_role and update_roles requests (bound)

AdminRole == "admin"

\* A role as update_roles is given it, and as accounts store it: with blanks
\* around the name or not.
Given == [name : Names, padded : BOOLEAN]

ASSUME RolesConstants ==
  /\ SubNames \subseteq Names
  /\ \A R \in Releases : R \subseteq Names /\ AdminRole \in R
  /\ AdminRole \in Names
  /\ Lists \subseteq SUBSET Given
  /\ NoUser \notin Users
  /\ SeededAdmin \in Users \cup {NoUser}

VARIABLES
  known,     \* Portal::ALL of the running release
  phase,     \* how far the start has come
  todo,      \* portals left to seed
  roles,     \* the roles collection
  unused,    \* ids no document had yet
  accounts,  \* the users collection
  held,      \* roles of each account
  req        \* what each handler does next

vars == <<known, phase, todo, roles, unused, accounts, held, req>>

-----------------------------------------------------------------------------
Role == [id : Ids, name : Names, portal : Names, kind : {"portal", "sub"}]

PortalRole(i, p) == [id |-> i, name |-> p, portal |-> p, kind |-> "portal"]

SubRole(i, n, p) == [id |-> i, name |-> n, portal |-> p, kind |-> "sub"]

Listed == {r.name : r \in roles}

Plain(n) == [name |-> n, padded |-> FALSE]

\* exists looks the trimmed name up.
Exists(g) == g.name \in Listed

Request == [pc : {"new", "check", "delete", "done"}, ids : SUBSET Ids,
            user : Users \cup {NoUser}, roles : SUBSET Given, left : SUBSET Given]

NewRequest == [pc |-> "new", ids |-> {}, user |-> NoUser, roles |-> {}, left |-> {}]

At(q, call) == req[q].pc = call

Done == [NewRequest EXCEPT !.pc = "done"]

Finish(q) == req' = [req EXCEPT ![q] = Done]

Init ==
  /\ known \in Releases
  /\ phase = "prune"
  /\ todo = {}
  /\ roles = {}
  /\ unused = Ids
  /\ accounts \in SUBSET Users
  /\ held = [u \in Users |-> {}]
  /\ req = [q \in Requests |-> NewRequest]

-----------------------------------------------------------------------------
(* The start.                                                              *)

\* Killed, or exited on an error of the start, and started again.
Restart ==
  /\ known' \in Releases
  /\ phase' = "prune"
  /\ todo' = {}
  /\ req' = [q \in Requests |->
               IF At(q, "new") THEN NewRequest ELSE Done]
  /\ UNCHANGED <<roles, unused, accounts, held>>

Unknown == {r \in roles : r.portal \notin known}

\* delete_many, one document at a time.
Prune(r) ==
  /\ phase = "prune"
  /\ r \in Unknown
  /\ roles' = roles \ {r}
  /\ UNCHANGED <<known, phase, todo, unused, accounts, held, req>>

\* Seeded bug: the deletion comes back before its last document.
PruneSome ==
  /\ phase = "prune"
  /\ phase' = "seed"
  /\ todo' = known
  /\ UNCHANGED <<known, roles, unused, accounts, held, req>>

PruneDone ==
  /\ phase = "prune"
  /\ Unknown = {}
  /\ phase' = "seed"
  /\ todo' = known
  /\ UNCHANGED <<known, roles, unused, accounts, held, req>>

\* Seeded bug: the index on the name is not unique.
InsertAgain(r) ==
  /\ r.id \in unused
  /\ roles' = roles \cup {r}
  /\ unused' = unused \ {r.id}

\* insert: the index on the name is unique.
Insert(r) ==
  /\ r.id \in unused
  /\ r.name \notin Listed
  /\ roles' = roles \cup {r}
  /\ unused' = unused \ {r.id}

\* In any order, where the code has that of Portal::ALL.
Seed(p, i) ==
  /\ phase = "seed"
  /\ p \in todo
  /\ Insert(PortalRole(i, p))
  /\ todo' = todo \ {p}
  /\ UNCHANGED <<known, phase, accounts, held, req>>

\* Seeded bug: a duplicate fails the start.
SeedFails(p) ==
  /\ phase = "seed"
  /\ p \in todo \cap Listed
  /\ phase' = "exit"
  /\ UNCHANGED <<known, todo, roles, unused, accounts, held, req>>

\* Duplicate: the role is there.
SeedAgain(p) ==
  /\ phase = "seed"
  /\ p \in todo \cap Listed
  /\ todo' = todo \ {p}
  /\ UNCHANGED <<known, phase, roles, unused, accounts, held, req>>

\* Seeded bug: an existing account is left as it is.
SeedMissingAdmin ==
  /\ phase = "seed"
  /\ todo = {}
  /\ phase' = "bind"
  /\ accounts' = accounts \cup ({SeededAdmin} \cap Users)
  /\ held' = [u \in Users |->
                IF u = SeededAdmin /\ u \notin accounts THEN {Plain(AdminRole)} ELSE held[u]]
  /\ UNCHANGED <<known, todo, roles, unused, req>>

\* seed_admin: nothing else runs between its read and its write.
SeedAdmin ==
  /\ phase = "seed"
  /\ todo = {}
  /\ phase' = "bind"
  /\ accounts' = accounts \cup ({SeededAdmin} \cap Users)
  /\ held' = [u \in Users |->
                CASE u # SeededAdmin -> held[u]
                  [] u \in accounts  -> held[u] \cup {Plain(AdminRole)}
                  [] OTHER           -> {Plain(AdminRole)}]
  /\ UNCHANGED <<known, todo, roles, unused, req>>

Listen ==
  /\ phase = "bind"
  /\ phase' = "listen"
  /\ UNCHANGED <<known, todo, roles, unused, accounts, held, req>>

StartStep ==
  \/ \E r \in roles : Prune(r)
  \/ PruneDone
  \/ \E p \in known : SeedAgain(p) \/ \E i \in Ids : Seed(p, i)
  \/ SeedAdmin
  \/ Listen

-----------------------------------------------------------------------------
(* The handlers.  A handler whose client goes away stops where it is.      *)

CreateRole(n, p, i) ==
  /\ phase = "listen"
  /\ p \in known
  /\ Insert(SubRole(i, n, p))
  /\ UNCHANGED <<known, phase, todo, accounts, held, req>>

\* Seeded bug: the kind of the role is not looked at.
DeleteRoleAnyKind(q, r) ==
  /\ phase = "listen"
  /\ At(q, "new")
  /\ r \in roles
  /\ req' = [req EXCEPT ![q] = [@ EXCEPT !.pc = "delete", !.ids = {r.id}]]
  /\ UNCHANGED <<known, phase, todo, roles, unused, accounts, held>>

\* delete_role read the document; of an unknown or a portal's role nothing
\* follows.
DeleteRoleRead(q, r) ==
  /\ phase = "listen"
  /\ At(q, "new")
  /\ r \in roles
  /\ r.kind # "portal"
  /\ req' = [req EXCEPT ![q] = [@ EXCEPT !.pc = "delete", !.ids = {r.id}]]
  /\ UNCHANGED <<known, phase, todo, roles, unused, accounts, held>>

DeleteRole(q) ==
  /\ At(q, "delete")
  /\ roles' = {r \in roles : r.id \notin req[q].ids}
  /\ Finish(q)
  /\ UNCHANGED <<known, phase, todo, unused, accounts, held>>

UpdateRoles(q, u, gs) ==
  /\ phase = "listen"
  /\ At(q, "new")
  /\ req' = [req EXCEPT ![q] =
               [@ EXCEPT !.pc = "check", !.user = u, !.roles = gs, !.left = gs]]
  /\ UNCHANGED <<known, phase, todo, roles, unused, accounts, held>>

\* Seeded bug: one name of the catalogue is enough.
CheckAny(q, g) ==
  /\ At(q, "check")
  /\ g \in req[q].left
  /\ Exists(g)
  /\ req' = [req EXCEPT ![q].left = {}]
  /\ UNCHANGED <<known, phase, todo, roles, unused, accounts, held>>

\* One name is looked up; the order is the client's.
CheckRole(q, g) ==
  /\ At(q, "check")
  /\ g \in req[q].left
  /\ Exists(g)
  /\ req' = [req EXCEPT ![q].left = @ \ {g}]
  /\ UNCHANGED <<known, phase, todo, roles, unused, accounts, held>>

\* 400: the role is not in the catalogue.
RefuseRoles(q, g) ==
  /\ At(q, "check")
  /\ g \in req[q].left
  /\ ~ Exists(g)
  /\ Finish(q)
  /\ UNCHANGED <<known, phase, todo, roles, unused, accounts, held>>

\* Every name was found: the list is stored as it was given; for an account
\* that is gone the answer is 404.
StoreRoles(q) ==
  /\ At(q, "check")
  /\ req[q].left = {}
  /\ held' = IF req[q].user \in accounts
             THEN [held EXCEPT ![req[q].user] = req[q].roles]
             ELSE held
  /\ Finish(q)
  /\ UNCHANGED <<known, phase, todo, roles, unused, accounts>>

DeleteUser(u) ==
  /\ phase = "listen"
  /\ u \in accounts
  /\ accounts' = accounts \ {u}
  /\ held' = [held EXCEPT ![u] = {}]
  /\ UNCHANGED <<known, phase, todo, roles, unused, req>>

-----------------------------------------------------------------------------
Next ==
  \/ StartStep
  \/ Restart
  \/ \E n \in SubNames, p \in known, i \in Ids : CreateRole(n, p, i)
  \/ \E q \in Requests :
       \/ \E r \in roles : DeleteRoleRead(q, r)
       \/ DeleteRole(q)
       \/ \E u \in Users, gs \in Lists : UpdateRoles(q, u, gs)
       \/ \E g \in Given : CheckRole(q, g) \/ RefuseRoles(q, g)
       \/ StoreRoles(q)
  \/ \E u \in Users : DeleteUser(u)

Spec == Init /\ [][Next]_vars

\* The database answers a process that starts.
Fairness == WF_vars(StartStep)

-----------------------------------------------------------------------------
(* Properties.                                                             *)

\* The catalogue, the accounts and the requests keep their shape; the ids and
\* the names of the catalogue are unique.
RolesTypeOK ==
  /\ known \in Releases
  /\ phase \in {"prune", "seed", "bind", "listen"}
  /\ todo \subseteq known
  /\ roles \subseteq Role
  /\ unused \subseteq Ids
  /\ accounts \subseteq Users
  /\ held \in [Users -> SUBSET Given]
  /\ req \in [Requests -> Request]
  /\ \A r \in roles : r.id \notin unused
  /\ \A r, s \in roles : r.id = s.id \/ r.name = s.name => r = s

\* Every role that the service may read names a portal of its release: list
\* reads the whole catalogue, and fails on a portal it does not know.
CatalogueReadable ==
  phase = "listen" => \A r \in roles : r.portal \in known

\* Whoever deleted or demoted the configured administrator, it is back when the
\* service listens again.
StartRestoresAdmin ==
  [][phase' = "listen" /\ phase # "listen" /\ SeededAdmin # NoUser =>
       SeededAdmin \in accounts' /\ Plain(AdminRole) \in held'[SeededAdmin]]_vars

\* The last process that is started listens in the end, whatever the catalogue,
\* the accounts and the requests that earlier processes left behind (as long as
\* the bound on the ids lets it insert).
StartEnds == <>[][~Restart]_vars /\ [](unused # {}) => <>[](phase = "listen")
=============================================================================
