----------------------------- MODULE RolesProofs -----------------------------
(***************************************************************************)
(* Theorems about Roles, for any releases, catalogue and number of         *)
(* requests and restarts.                                                  *)
(***************************************************************************)
EXTENDS RolesHistory, TLAPS

-----------------------------------------------------------------------------
(* Types.                                                                  *)

RoleShapes ==
  /\ roles \subseteq Role
  /\ unused \subseteq Ids

RequestShapes == req \in [Requests -> Request]

Unique ==
  /\ \A r \in roles : r.id \notin unused
  /\ \A r, s \in roles : r.id = s.id \/ r.name = s.name => r = s

RestShapes ==
  /\ known \in Releases
  /\ phase \in {"prune", "seed", "bind", "listen"}
  /\ todo \subseteq known
  /\ accounts \subseteq Users
  /\ held \in [Users -> SUBSET Given]

LEMMA TypeParts ==
  RolesTypeOK <=> RoleShapes /\ RequestShapes /\ Unique /\ RestShapes
  BY DEF RolesTypeOK, RoleShapes, RequestShapes, Unique, RestShapes

LEMMA PortalRoleType ==
  ASSUME NEW i \in Ids, NEW p \in Names PROVE PortalRole(i, p) \in Role
  BY DEF PortalRole, Role

LEMMA SubRoleType ==
  ASSUME NEW i \in Ids, NEW n \in Names, NEW p \in Names PROVE SubRole(i, n, p) \in Role
  BY DEF SubRole, Role

LEMMA RequestTypes ==
  /\ NewRequest \in Request /\ Done \in Request
  /\ NewRequest.ids = {} /\ NewRequest.roles = {} /\ NewRequest.pc = "new"
  /\ Done.ids = {} /\ Done.pc = "done"
  BY DEF NewRequest, Done, Request

LEMMA ReadType ==
  ASSUME NEW x \in Request, NEW i \in Ids
  PROVE  [x EXCEPT !.pc = "delete", !.ids = {i}] \in Request
  BY DEF Request

LEMMA AssignType ==
  ASSUME NEW x \in Request, NEW u \in Users, NEW gs \in SUBSET Given
  PROVE  [x EXCEPT !.pc = "check", !.user = u, !.roles = gs, !.left = gs] \in Request
  BY DEF Request

LEMMA CheckType ==
  ASSUME NEW x \in Request, NEW gs \in SUBSET Given
  PROVE  [x EXCEPT !.left = gs] \in Request
  BY DEF Request

LEMMA TypeInit == Init => RolesTypeOK
  BY RequestTypes DEF Init, RolesTypeOK

LEMMA InsertKeeps ==
  ASSUME RoleShapes, Unique, NEW r \in Role, Insert(r)
  PROVE  RoleShapes' /\ Unique'
  BY DEF RoleShapes, Unique, Insert, Listed

LEMMA RemoveKeeps ==
  ASSUME RoleShapes, Unique, roles' \subseteq roles, UNCHANGED unused
  PROVE  RoleShapes' /\ Unique'
  BY DEF RoleShapes, Unique

LEMMA TypeNext == RolesTypeOK /\ [Next]_vars => RolesTypeOK'
<1> SUFFICES ASSUME RoleShapes, RequestShapes, Unique, RestShapes, [Next]_vars
             PROVE  RoleShapes' /\ RequestShapes' /\ Unique' /\ RestShapes'
  BY TypeParts DEF RolesTypeOK, RoleShapes, RequestShapes, Unique, RestShapes
<1> DEFINE Catalogue == RoleShapes /\ Unique
           Goal == RoleShapes' /\ RequestShapes' /\ Unique' /\ RestShapes'
<1>a. ASSUME UNCHANGED <<roles, unused>> PROVE RoleShapes' /\ Unique'
  BY <1>a DEF RoleShapes, Unique
<1>b. ASSUME UNCHANGED req PROVE RequestShapes'
  BY <1>b DEF RequestShapes
<1>c. ASSUME UNCHANGED <<known, phase, todo, accounts, held>> PROVE RestShapes'
  BY <1>c DEF RestShapes
<1>d. \A R \in Releases : R \subseteq Names
  BY RolesConstants
<1>1. ASSUME Restart PROVE Goal
  <2>1. RequestShapes'
    BY <1>1, RequestTypes DEF Restart, RequestShapes
  <2> QED
    BY <1>1, <1>a, <2>1 DEF Restart, RestShapes
<1>2. ASSUME NEW r \in roles, Prune(r) PROVE Goal
  BY <1>2, <1>b, <1>c, RemoveKeeps DEF Prune
<1>3. ASSUME PruneDone PROVE Goal
  BY <1>3, <1>a, <1>b DEF PruneDone, RestShapes
<1>4. ASSUME NEW p \in known, NEW i \in Ids, Seed(p, i) PROVE Goal
  <2>1. PortalRole(i, p) \in Role
    BY <1>d, PortalRoleType DEF RestShapes
  <2>2. RestShapes'
    BY <1>4 DEF Seed, RestShapes
  <2> QED
    BY <1>4, <1>b, <2>1, <2>2, InsertKeeps DEF Seed
<1>5. ASSUME NEW p \in known, SeedAgain(p) PROVE Goal
  BY <1>5, <1>a, <1>b DEF SeedAgain, RestShapes
<1>6. ASSUME SeedAdmin PROVE Goal
  <2>1. Plain(AdminRole) \in Given
    BY RolesConstants DEF Plain, Given
  <2>2. RestShapes'
    BY <1>6, <2>1 DEF SeedAdmin, RestShapes
  <2> QED
    BY <1>6, <1>a, <1>b, <2>2 DEF SeedAdmin
<1>7. ASSUME Listen PROVE Goal
  BY <1>7, <1>a, <1>b DEF Listen, RestShapes
<1>8. ASSUME NEW n \in SubNames, NEW p \in known, NEW i \in Ids, CreateRole(n, p, i)
      PROVE  Goal
  <2>1. SubRole(i, n, p) \in Role
    BY <1>d, RolesConstants, SubRoleType DEF RestShapes
  <2> QED
    BY <1>8, <1>b, <1>c, <2>1, InsertKeeps DEF CreateRole
<1>9. ASSUME NEW q \in Requests, NEW r \in roles, DeleteRoleRead(q, r) PROVE Goal
  <2>1. r.id \in Ids
    BY DEF RoleShapes, Role
  <2>2. RequestShapes'
    BY <1>9, <2>1, ReadType DEF DeleteRoleRead, RequestShapes
  <2> QED
    BY <1>9, <1>a, <1>c, <2>2 DEF DeleteRoleRead
<1>10. ASSUME NEW q \in Requests, DeleteRole(q) PROVE Goal
  <2>1. RequestShapes'
    BY <1>10, RequestTypes DEF DeleteRole, Finish, RequestShapes
  <2> QED
    BY <1>10, <1>c, <2>1, RemoveKeeps DEF DeleteRole
<1>11. ASSUME NEW q \in Requests, NEW u \in Users, NEW gs \in Lists, UpdateRoles(q, u, gs)
       PROVE  Goal
  <2>1. gs \in SUBSET Given
    BY RolesConstants
  <2>2. RequestShapes'
    BY <1>11, <2>1, AssignType DEF UpdateRoles, RequestShapes
  <2> QED
    BY <1>11, <1>a, <1>c, <2>2 DEF UpdateRoles
<1>12. ASSUME NEW q \in Requests, NEW g \in Given, CheckRole(q, g) PROVE Goal
  <2>1. req[q].left \ {g} \in SUBSET Given
    BY DEF RequestShapes, Request
  <2>2. RequestShapes'
    BY <1>12, <2>1, CheckType DEF CheckRole, RequestShapes
  <2> QED
    BY <1>12, <1>a, <1>c, <2>2 DEF CheckRole
<1>13. ASSUME NEW q \in Requests, NEW g \in Given, RefuseRoles(q, g) PROVE Goal
  <2>1. RequestShapes'
    BY <1>13, RequestTypes DEF RefuseRoles, Finish, RequestShapes
  <2> QED
    BY <1>13, <1>a, <1>c, <2>1 DEF RefuseRoles
<1>14. ASSUME NEW q \in Requests, StoreRoles(q) PROVE Goal
  <2>1. RequestShapes'
    BY <1>14, RequestTypes DEF StoreRoles, Finish, RequestShapes
  <2>2. req[q].roles \in SUBSET Given
    BY DEF RequestShapes, Request
  <2>3. RestShapes'
    BY <1>14, <2>2 DEF StoreRoles, RestShapes
  <2> QED
    BY <1>14, <1>a, <2>1, <2>3 DEF StoreRoles
<1>15. ASSUME NEW u \in Users, DeleteUser(u) PROVE Goal
  BY <1>15, <1>a, <1>b DEF DeleteUser, RestShapes
<1>16. ASSUME UNCHANGED vars PROVE Goal
  BY <1>16, <1>a, <1>b, <1>c DEF vars
<1> QED
  BY <1>1, <1>2, <1>3, <1>4, <1>5, <1>6, <1>7, <1>8, <1>9, <1>10, <1>11, <1>12, <1>13,
     <1>14, <1>15, <1>16 DEF Next, StartStep

\* The catalogue, the accounts and the requests keep their shape and the names
\* of the catalogue stay unique.
THEOREM RolesTypeCorrect == Spec => []RolesTypeOK
  BY TypeInit, TypeNext, PTL DEF Spec

-----------------------------------------------------------------------------
(* The readable catalogue.                                                 *)

\* The start has removed what its release does not know.
Pruned == phase # "prune" => \A r \in roles : r.portal \in known

LEMMA PrunedNext == ASSUME Pruned, [Next]_vars PROVE Pruned'
<1>a. ASSUME UNCHANGED known, roles' \subseteq roles, phase' = "prune" \/ phase # "prune"
      PROVE  Pruned'
  BY <1>a DEF Pruned
<1>1. ASSUME PruneDone PROVE Pruned'
  BY <1>1 DEF PruneDone, Unknown, Pruned
<1>2. ASSUME NEW p \in known, NEW i \in Ids, Seed(p, i) PROVE Pruned'
  BY <1>2 DEF Seed, Insert, PortalRole, Pruned
<1>3. ASSUME NEW n \in SubNames, NEW p \in known, NEW i \in Ids, CreateRole(n, p, i)
      PROVE  Pruned'
  BY <1>3 DEF CreateRole, Insert, SubRole, Pruned
<1>4. ASSUME \/ \E r \in roles : Prune(r)
             \/ \E p \in known : SeedAgain(p)
             \/ SeedAdmin \/ Listen \/ UNCHANGED vars
      PROVE  Pruned'
  BY <1>4, <1>a DEF Prune, SeedAgain, SeedAdmin, Listen, vars, Pruned
<1>5. ASSUME NEW q \in Requests,
             \/ \E r \in roles : DeleteRoleRead(q, r)
             \/ DeleteRole(q)
             \/ \E u \in Users, gs \in Lists : UpdateRoles(q, u, gs)
             \/ \E g \in Given : CheckRole(q, g) \/ RefuseRoles(q, g)
             \/ StoreRoles(q)
      PROVE  Pruned'
  <2>1. UNCHANGED <<known, phase>> /\ roles' \subseteq roles
    BY <1>5 DEF DeleteRoleRead, DeleteRole, UpdateRoles, CheckRole, RefuseRoles, StoreRoles
  <2> QED
    BY <2>1 DEF Pruned
<1>6. ASSUME Restart PROVE Pruned'
  BY <1>6 DEF Restart, Pruned
<1>7. ASSUME NEW u \in Users, DeleteUser(u) PROVE Pruned'
  BY <1>7, <1>a DEF DeleteUser, Pruned
<1> QED
  BY <1>1, <1>2, <1>3, <1>4, <1>5, <1>6, <1>7 DEF Next, StartStep

\* While the service listens every role names a portal of its release, so that
\* the catalogue can be read: wherever earlier starts were cut short, and
\* whatever other releases and administrators stored.
THEOREM CatalogueStaysReadable == Spec => []CatalogueReadable
<1>1. Init => Pruned
  BY DEF Init, Pruned
<1>2. Pruned => CatalogueReadable
  BY DEF Pruned, CatalogueReadable
<1> QED
  BY <1>1, <1>2, PrunedNext, PTL DEF Spec

-----------------------------------------------------------------------------
(* The roles of the portals.                                               *)

OwnRole(p) == \E r \in roles : r.name = p /\ r.kind = "portal"

\* What the start has done so far: a portal that is seeded has its own role, or
\* a sub-role had its name.
Seeded ==
  /\ phase # "prune" => \A p \in known \ todo : p \in shadowed \/ OwnRole(p)
  /\ phase \in {"bind", "listen"} => todo = {}

\* delete_role only goes on with a sub-role, and the id of a role that is gone
\* is not given again.
DeletesSubRoles ==
  \A q \in Requests :
    /\ req[q].ids \cap unused = {}
    /\ \A r \in roles : r.id \in req[q].ids => r.kind = "sub"

IInv == RolesTypeOK /\ Seeded /\ DeletesSubRoles

LEMMA IInvInit == HInit => IInv
<1>1. HInit => Seeded /\ DeletesSubRoles
  BY RequestTypes DEF HInit, Init, Seeded, DeletesSubRoles
<1> QED
  BY <1>1, TypeInit DEF HInit, IInv

LEMMA DeletesSubRolesNext == ASSUME IInv, [Next]_vars PROVE DeletesSubRoles'
<1>t. RoleShapes /\ RequestShapes /\ Unique /\ RestShapes
  BY TypeParts DEF IInv
<1>i. DeletesSubRoles
  BY DEF IInv
<1>a. ASSUME UNCHANGED <<roles, unused>>,
             \A q \in Requests : req'[q].ids \subseteq req[q].ids
      PROVE  DeletesSubRoles'
  BY <1>a, <1>i DEF DeletesSubRoles
<1>b. ASSUME NEW r \in Role, Insert(r), UNCHANGED req PROVE DeletesSubRoles'
  BY <1>b, <1>i, <1>t DEF DeletesSubRoles, Insert
<1>c. ASSUME NEW q \in Requests, Finish(q)
      PROVE  \A p \in Requests : req'[p].ids \subseteq req[p].ids
  BY <1>c, <1>t, RequestTypes DEF Finish, RequestShapes
<1>1. ASSUME Restart PROVE DeletesSubRoles'
  <2>1. \A q \in Requests : req'[q].ids = {}
    BY <1>1, RequestTypes DEF Restart
  <2> QED
    BY <1>1, <1>a, <2>1 DEF Restart
<1>2. ASSUME NEW r \in roles, Prune(r) PROVE DeletesSubRoles'
  BY <1>2, <1>i DEF Prune, DeletesSubRoles
<1>3. ASSUME NEW p \in known, NEW i \in Ids, Seed(p, i) PROVE DeletesSubRoles'
  <2>1. PortalRole(i, p) \in Role
    BY <1>t, RolesConstants, PortalRoleType DEF RestShapes
  <2> QED
    BY <1>3, <1>b, <2>1 DEF Seed
<1>4. ASSUME NEW n \in SubNames, NEW p \in known, NEW i \in Ids, CreateRole(n, p, i)
      PROVE  DeletesSubRoles'
  <2>1. SubRole(i, n, p) \in Role
    BY <1>t, RolesConstants, SubRoleType DEF RestShapes
  <2> QED
    BY <1>4, <1>b, <2>1 DEF CreateRole
<1>5. ASSUME NEW q \in Requests, NEW r \in roles, DeleteRoleRead(q, r)
      PROVE  DeletesSubRoles'
  <2>1. r.kind = "sub" /\ r.id \notin unused /\ \A s \in roles : s.id = r.id => s = r
    BY <1>5, <1>t DEF DeleteRoleRead, RoleShapes, Role, Unique
  <2>2. \A p \in Requests : req'[p].ids = IF p = q THEN {r.id} ELSE req[p].ids
    BY <1>5, <1>t DEF DeleteRoleRead, RequestShapes, Request
  <2>3. UNCHANGED <<roles, unused>>
    BY <1>5 DEF DeleteRoleRead
  <2> QED
    BY <1>i, <2>1, <2>2, <2>3 DEF DeletesSubRoles
<1>6. ASSUME NEW q \in Requests, DeleteRole(q) PROVE DeletesSubRoles'
  <2>1. roles' \subseteq roles /\ unused' = unused
    BY <1>6 DEF DeleteRole
  <2> QED
    BY <1>6, <1>c, <1>i, <2>1 DEF DeleteRole, DeletesSubRoles
<1>7. ASSUME NEW q \in Requests, NEW u \in Users, NEW gs \in Lists, UpdateRoles(q, u, gs)
      PROVE  DeletesSubRoles'
  <2>1. \A p \in Requests : req'[p].ids = req[p].ids
    BY <1>7, <1>t DEF UpdateRoles, RequestShapes, Request
  <2> QED
    BY <1>7, <1>a, <2>1 DEF UpdateRoles
<1>10. ASSUME NEW q \in Requests, NEW g \in Given, CheckRole(q, g) PROVE DeletesSubRoles'
  <2>1. \A p \in Requests : req'[p].ids = req[p].ids
    BY <1>10, <1>t DEF CheckRole, RequestShapes, Request
  <2> QED
    BY <1>10, <1>a, <2>1 DEF CheckRole
<1>8. ASSUME NEW q \in Requests, StoreRoles(q) \/ \E g \in Given : RefuseRoles(q, g)
      PROVE  DeletesSubRoles'
  BY <1>8, <1>a, <1>c DEF StoreRoles, RefuseRoles
<1>9. ASSUME \/ PruneDone \/ (\E p \in known : SeedAgain(p)) \/ SeedAdmin \/ Listen
             \/ (\E u \in Users : DeleteUser(u)) \/ UNCHANGED vars
      PROVE  DeletesSubRoles'
  BY <1>9, <1>a DEF PruneDone, SeedAgain, SeedAdmin, Listen, DeleteUser, vars
<1> QED
  BY <1>1, <1>2, <1>3, <1>4, <1>5, <1>6, <1>7, <1>8, <1>9, <1>10 DEF Next, StartStep

LEMMA SeededNext == ASSUME IInv, HNext PROVE Seeded'
<1>t. RoleShapes /\ RestShapes
  BY TypeParts DEF IInv
<1>i. Seeded /\ DeletesSubRoles
  BY DEF IInv
<1>s. shadowed' = IF phase' = "prune" THEN {} ELSE shadowed \cup Shadows
  BY DEF HNext
\* A step that keeps the portals' roles and marks no portal as seeded.
<1>a. ASSUME UNCHANGED <<known, todo>>, phase # "prune",
             phase' = phase \/ todo = {},
             \A r \in roles : r.kind = "portal" => r \in roles'
      PROVE  Seeded'
  BY <1>a, <1>i, <1>s DEF Seeded, OwnRole
<1>b. ASSUME phase' = "prune" PROVE Seeded'
  BY <1>b DEF Seeded
<1>c. ASSUME UNCHANGED <<known, phase, todo>>,
             \A r \in roles : r.kind = "portal" => r \in roles'
      PROVE  Seeded'
  BY <1>a, <1>b, <1>c
<1>1. ASSUME Restart \/ \E r \in roles : Prune(r) PROVE Seeded'
  BY <1>1, <1>b DEF Restart, Prune
<1>2. ASSUME PruneDone PROVE Seeded'
  BY <1>2 DEF PruneDone, Seeded
<1>3. ASSUME NEW p \in known, NEW i \in Ids, Seed(p, i) PROVE Seeded'
  <2>1. /\ roles' = roles \cup {PortalRole(i, p)} /\ todo' = todo \ {p}
        /\ known' = known /\ phase' = "seed" /\ phase = "seed"
    BY <1>3 DEF Seed, Insert
  <2>2. OwnRole(p)'
    <3>1. PortalRole(i, p).name = p /\ PortalRole(i, p).kind = "portal"
      BY DEF PortalRole
    <3>2. PortalRole(i, p) \in roles'
      BY <2>1
    <3> HIDE DEF PortalRole
    <3> QED
      BY <3>1, <3>2 DEF OwnRole
  <2>3. \A x \in Names : OwnRole(x) => OwnRole(x)'
    BY <2>1 DEF OwnRole
  <2> QED
    BY <1>i, <1>s, <1>t, <2>1, <2>2, <2>3, RolesConstants DEF Seeded, RestShapes
<1>4. ASSUME NEW p \in known, SeedAgain(p) PROVE Seeded'
  <2>1. /\ roles' = roles /\ todo' = todo \ {p} /\ p \in todo \cap Listed
        /\ known' = known /\ phase' = "seed" /\ phase = "seed"
    BY <1>4 DEF SeedAgain
  <2>2. p \in shadowed' \/ OwnRole(p)'
    BY <1>4, <1>s, <1>t, <2>1
       DEF Listed, Shadows, IsSubRole, OwnRole, RoleShapes, Role
  <2> QED
    BY <1>i, <1>s, <2>1, <2>2 DEF Seeded, OwnRole
<1>5. ASSUME SeedAdmin \/ Listen PROVE Seeded'
  BY <1>5, <1>a, <1>i DEF SeedAdmin, Listen, Seeded
<1>6. ASSUME NEW n \in SubNames, NEW p \in known, NEW i \in Ids, CreateRole(n, p, i)
      PROVE  Seeded'
  BY <1>6, <1>c DEF CreateRole, Insert
<1>7. ASSUME NEW q \in Requests, DeleteRole(q) PROVE Seeded'
  <2>1. \A r \in roles : r.kind = "portal" => r \in roles'
    BY <1>7, <1>i DEF DeleteRole, DeletesSubRoles
  <2> QED
    BY <1>7, <1>c, <2>1 DEF DeleteRole
<1>8. ASSUME NEW q \in Requests,
             \/ \E r \in roles : DeleteRoleRead(q, r)
             \/ \E u \in Users, gs \in Lists : UpdateRoles(q, u, gs)
             \/ \E g \in Given : CheckRole(q, g) \/ RefuseRoles(q, g)
             \/ StoreRoles(q)
      PROVE  Seeded'
  BY <1>8, <1>c DEF DeleteRoleRead, UpdateRoles, CheckRole, RefuseRoles, StoreRoles
<1>9. ASSUME NEW u \in Users, DeleteUser(u) PROVE Seeded'
  BY <1>9, <1>c DEF DeleteUser
<1> QED
  BY <1>1, <1>2, <1>3, <1>4, <1>5, <1>6, <1>7, <1>8, <1>9 DEF HNext, Next, StartStep

LEMMA IInvNext == IInv /\ [HNext]_hvars => IInv'
<1>1. ASSUME IInv, HNext PROVE IInv'
  BY <1>1, SeededNext, DeletesSubRolesNext, TypeNext DEF HNext, IInv
<1>2. ASSUME IInv, UNCHANGED hvars PROVE IInv'
  <2>1. UNCHANGED vars /\ UNCHANGED shadowed
    BY <1>2 DEF hvars
  <2>2. Seeded'
    BY <1>2, <2>1 DEF vars, IInv, Seeded, OwnRole
  <2> QED
    BY <1>2, <2>1, <2>2, DeletesSubRolesNext, TypeNext DEF IInv
<1> QED
  BY <1>1, <1>2

\* While the service listens every portal of its release has its role, whatever
\* names administrators gave to sub-roles, wherever starts were cut short and
\* whatever was deleted, except a portal whose seeding met a sub-role of its name.
THEOREM PortalRolesSeeded == HSpec => []PortalRolesWhileListening
<1>1. IInv => PortalRolesWhileListening
  BY DEF IInv, Seeded, OwnRole, PortalRolesWhileListening
<1> QED
  BY <1>1, IInvInit, IInvNext, PTL DEF HSpec
-----------------------------------------------------------------------------
(* The administrator.                                                      *)

\* No handler is left from before the start.
Waiting == phase # "listen" => \A q \in Requests : req[q].pc \in {"new", "done"}

AdminSeeded ==
  phase = "bind" /\ SeededAdmin # NoUser =>
    SeededAdmin \in accounts /\ Plain(AdminRole) \in held[SeededAdmin]

AInv == RolesTypeOK /\ Waiting /\ AdminSeeded

LEMMA AInvInit == Init => AInv
<1>1. Init => Waiting /\ AdminSeeded
  BY RequestTypes DEF Init, Waiting, AdminSeeded
<1> QED
  BY <1>1, TypeInit DEF AInv

LEMMA AInvNext == ASSUME AInv, [Next]_vars PROVE AInv'
<1> DEFINE Goal == Waiting' /\ AdminSeeded'
<1>t. RequestShapes /\ RestShapes
  BY TypeParts DEF AInv
<1>i. Waiting /\ AdminSeeded
  BY DEF AInv
<1>1. ASSUME Restart PROVE Goal
  <2>1. Waiting'
    BY <1>1, RequestTypes DEF Restart, Waiting, NewRequest
  <2> QED
    BY <1>1, <2>1 DEF Restart, AdminSeeded
<1>2. ASSUME (\E r \in roles : Prune(r)) \/ PruneDone
             \/ \E p \in known : SeedAgain(p) \/ \E j \in Ids : Seed(p, j)
      PROVE  Goal
  BY <1>2, <1>i DEF Prune, PruneDone, SeedAgain, Seed, Waiting, AdminSeeded
<1>3. ASSUME SeedAdmin PROVE Goal
  <2>1. Waiting'
    BY <1>3, <1>i DEF SeedAdmin, Waiting
  <2>2. ASSUME SeededAdmin # NoUser
        PROVE  SeededAdmin \in accounts' /\ Plain(AdminRole) \in held'[SeededAdmin]
    BY <1>3, <2>2, RolesConstants DEF SeedAdmin
  <2> QED
    BY <2>1, <2>2 DEF AdminSeeded
<1>4. ASSUME Listen PROVE Goal
  BY <1>4 DEF Listen, Waiting, AdminSeeded
\* The handlers run while the service listens only.
<1>5. ASSUME phase = "listen", phase' = phase PROVE Goal
  BY <1>5 DEF Waiting, AdminSeeded
<1>6. ASSUME NEW q \in Requests, At(q, "check") \/ At(q, "delete") PROVE phase = "listen"
  BY <1>6, <1>i DEF Waiting, At
<1>7. ASSUME \E n \in SubNames, p \in known, j \in Ids : CreateRole(n, p, j) PROVE Goal
  BY <1>5, <1>7 DEF CreateRole
<1>8. ASSUME NEW q \in Requests,
             \/ (\E r \in roles : DeleteRoleRead(q, r))
             \/ DeleteRole(q)
             \/ (\E u \in Users, gs \in Lists : UpdateRoles(q, u, gs))
             \/ (\E g \in Given : CheckRole(q, g) \/ RefuseRoles(q, g))
             \/ StoreRoles(q)
      PROVE  Goal
  BY <1>5, <1>6, <1>8
     DEF DeleteRoleRead, DeleteRole, UpdateRoles, CheckRole, RefuseRoles, StoreRoles
<1>9. ASSUME \E u \in Users : DeleteUser(u) PROVE Goal
  BY <1>5, <1>9 DEF DeleteUser
<1>10. ASSUME UNCHANGED vars PROVE Goal
  BY <1>10, <1>i DEF vars, Waiting, AdminSeeded
<1>11. Goal
  BY <1>1, <1>2, <1>3, <1>4, <1>7, <1>8, <1>9, <1>10 DEF Next, StartStep
<1> QED
  BY <1>11, TypeNext DEF AInv

\* StartRestoresAdmin: the account of ADMIN_EMAIL is there with its role when
\* the service begins to listen, whatever administrators did to it before and
\* wherever earlier starts were cut short.
THEOREM AdminReturns == Spec => StartRestoresAdmin
<1>1. ASSUME AInv, Next, phase' = "listen", phase # "listen" PROVE Listen
  <2>1. \A q \in Requests : ~ At(q, "check") /\ ~ At(q, "delete")
    BY <1>1 DEF AInv, Waiting, At
  <2> QED
    BY <1>1, <2>1
       DEF Next, StartStep, Prune, PruneDone, SeedAgain, Seed, SeedAdmin, Restart, CreateRole,
           DeleteRoleRead, DeleteRole, UpdateRoles, CheckRole, RefuseRoles, StoreRoles, DeleteUser
<1>2. ASSUME AInv, Listen, SeededAdmin # NoUser
      PROVE  SeededAdmin \in accounts' /\ Plain(AdminRole) \in held'[SeededAdmin]
  BY <1>2 DEF AInv, AdminSeeded, Listen
<1>3. ASSUME AInv, [Next]_vars,
             phase' = "listen" /\ phase # "listen" /\ SeededAdmin # NoUser
      PROVE  SeededAdmin \in accounts' /\ Plain(AdminRole) \in held'[SeededAdmin]
  <2>1. Next
    BY <1>3 DEF vars
  <2> QED
    BY <1>1, <1>2, <1>3, <2>1
<1>4. AInv /\ [Next]_vars => AInv'
  BY AInvNext
<1>5. AInv /\ [Next]_vars =>
        (phase' = "listen" /\ phase # "listen" /\ SeededAdmin # NoUser =>
           SeededAdmin \in accounts' /\ Plain(AdminRole) \in held'[SeededAdmin])
  BY <1>3
<1> QED
  BY <1>4, <1>5, AInvInit, PTL DEF Spec, StartRestoresAdmin

-----------------------------------------------------------------------------
(* Assigned roles.  A name that update_roles has looked up was in the      *)
(* catalogue then, and left it since only while the request ran.           *)

CheckedListed ==
  \A q \in Requests : At(q, "check") =>
    \A g \in req[q].roles \ req[q].left : g.name \in Listed \cup gone[q]

\* A request that looks names up began with all of them, or looked one up.
CheckStep(q) ==
  At(q, "check")' =>
    \/ ~ At(q, "check") /\ req'[q].left = req'[q].roles
    \/ At(q, "check") /\ req'[q] = req[q]
    \/ /\ At(q, "check") /\ req'[q].roles = req[q].roles /\ roles' = roles
       /\ \E g \in Given : g.name \in Listed /\ req'[q].left = req[q].left \ {g}

LEMMA CheckSteps ==
  ASSUME RolesTypeOK, [Next]_vars, NEW q \in Requests PROVE CheckStep(q)
<1>0. RequestShapes
  BY TypeParts
<1> USE <1>0 DEF RequestShapes, CheckStep, At
<1>1. ASSUME NEW p \in Requests, \A k \in Requests \ {p} : req'[k] = req[k],
             req'[p].pc # "check"
      PROVE  CheckStep(q)
  BY <1>1
<1>2. ASSUME UNCHANGED req PROVE CheckStep(q)
  BY <1>2
<1>3. ASSUME Restart PROVE CheckStep(q)
  BY <1>3, RequestTypes DEF Restart
<1>4. ASSUME NEW p \in Requests, Finish(p) PROVE CheckStep(q)
  BY <1>1, <1>4, RequestTypes DEF Finish
<1>5. ASSUME NEW p \in Requests, NEW r \in roles, DeleteRoleRead(p, r) PROVE CheckStep(q)
  BY <1>1, <1>5 DEF DeleteRoleRead, Request
<1>6. ASSUME NEW p \in Requests, NEW u \in Users, NEW gs \in Lists, UpdateRoles(p, u, gs)
      PROVE  CheckStep(q)
  BY <1>6 DEF UpdateRoles, Request
<1>7. ASSUME NEW p \in Requests, NEW g \in Given, CheckRole(p, g) PROVE CheckStep(q)
  BY <1>7 DEF CheckRole, Exists, Request
<1>8. ASSUME NEW p \in Requests, DeleteRole(p) \/ StoreRoles(p) PROVE CheckStep(q)
  BY <1>4, <1>8 DEF DeleteRole, StoreRoles
<1>9. ASSUME NEW p \in Requests, NEW g \in Given, RefuseRoles(p, g) PROVE CheckStep(q)
  BY <1>4, <1>9 DEF RefuseRoles
<1>10. ASSUME StartStep PROVE CheckStep(q)
  BY <1>2, <1>10 DEF StartStep, Prune, PruneDone, SeedAgain, Seed, SeedAdmin, Listen
<1>11. ASSUME \/ \E n \in SubNames, p \in known, i \in Ids : CreateRole(n, p, i)
              \/ \E u \in Users : DeleteUser(u)
              \/ UNCHANGED vars
       PROVE  CheckStep(q)
  BY <1>2, <1>11 DEF CreateRole, DeleteUser, vars
<1> QED
  BY <1>3, <1>5, <1>6, <1>7, <1>8, <1>9, <1>10, <1>11 DEF Next

LEMMA CheckedNext ==
  ASSUME RolesTypeOK, CheckedListed, [HNext]_hvars PROVE CheckedListed'
<1>1. [Next]_vars
  BY DEF HNext, hvars
<1>2. CASE HNext
  <2> SUFFICES ASSUME NEW q \in Requests, At(q, "check")',
                      NEW g \in Given, g \in req'[q].roles \ req'[q].left
               PROVE  g.name \in Listed' \cup gone'[q]
    <3>1. req' \in [Requests -> Request]
      BY <1>1, TypeNext DEF RolesTypeOK
    <3> QED BY <3>1 DEF CheckedListed, Request
  <2>1. CheckStep(q)
    BY <1>1, CheckSteps
  <2>2. At(q, "check") => gone'[q] = gone[q] \cup (Listed \ Listed')
    BY <1>2 DEF HNext
  <2>3. CASE At(q, "check") /\ req'[q] = req[q]
    BY <2>2, <2>3 DEF CheckedListed
  <2>4. CASE /\ At(q, "check") /\ req'[q].roles = req[q].roles /\ roles' = roles
             /\ \E h \in Given : h.name \in Listed /\ req'[q].left = req[q].left \ {h}
    BY <2>2, <2>4 DEF CheckedListed, Listed
  <2> QED BY <2>1, <2>3, <2>4 DEF CheckStep
<1>3. CASE UNCHANGED hvars
  BY <1>3 DEF hvars, vars, CheckedListed, At, Listed
<1> QED BY <1>2, <1>3

\* A role that update_roles stores is in the catalogue, or was deleted from it
\* between the lookups and the update of the same request.
THEOREM RacingDeletionsOnly == HSpec => OnlyRacingDeletionsEscape
<1>1. HInit => RolesTypeOK /\ CheckedListed
  BY TypeInit, RequestTypes DEF HInit, Init, CheckedListed, At
<1>2. RolesTypeOK /\ CheckedListed /\ [HNext]_hvars => RolesTypeOK' /\ CheckedListed'
  BY CheckedNext, TypeNext DEF HNext, hvars
<1>3. RolesTypeOK /\ CheckedListed /\ [HNext]_hvars =>
        [\A q \in Requests : StoreRoles(q) =>
           \A g \in req[q].roles : g.name \in Listed \cup gone[q]]_hvars
  BY DEF CheckedListed, StoreRoles
<1> QED BY <1>1, <1>2, <1>3, PTL DEF HSpec, OnlyRacingDeletionsEscape
=============================================================================
