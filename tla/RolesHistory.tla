---------------------------- MODULE RolesHistory ----------------------------
(***************************************************************************)
(* Roles with the names that left the catalogue while each update_roles    *)
(* request ran, and the portals whose name a sub-role already had.         *)
(***************************************************************************)
EXTENDS Roles

VARIABLES
  gone,       \* names deleted from the catalogue while each request checked its own
  shadowed    \* portals the running process did not seed because of a sub-role

hvars == <<vars, gone, shadowed>>

HInit == Init /\ gone = [q \in Requests |-> {}] /\ shadowed = {}

IsSubRole(p) == \E r \in roles : r.name = p /\ r.kind = "sub"

\* The portals this step takes for seeded although it found a sub-role.
Shadows == {p \in todo : SeedAgain(p) /\ IsSubRole(p)}

HNext ==
  /\ Next
  /\ gone' = [q \in Requests |->
                gone[q] \cup IF At(q, "check") THEN Listed \ Listed' ELSE {}]
  /\ shadowed' = IF phase' = "prune" THEN {} ELSE shadowed \cup Shadows

HSpec == HInit /\ [][HNext]_hvars

FairHSpec == HSpec /\ Fairness

\* While the service listens every portal of its release has its role, whatever
\* starts were cut short, other releases left behind and administrators deleted,
\* except a portal whose name a sub-role had when this process seeded it: the
\* duplicate is taken for the portal's role, which is then missing.
PortalRolesWhileListening ==
  phase = "listen" =>
    \A p \in known \ shadowed : \E r \in roles : r.name = p /\ r.kind = "portal"

\* A role that is assigned without being in the catalogue was deleted from it
\* while the request ran: the names are looked up one by one, and the list is
\* stored after the last.
OnlyRacingDeletionsEscape ==
  [][\A q \in Requests : StoreRoles(q) =>
       \A g \in req[q].roles : g.name \in Listed \cup gone[q]]_hvars
=============================================================================
