--------------------------- MODULE DeletionEvents ---------------------------
(***************************************************************************)
(* What the rest of CustHome may expect of the auth/user/deleted events: an *)
(* account is deleted once and for all, and then, perhaps never, announced  *)
(* by one event, however often that event is sent.                         *)
(***************************************************************************)
CONSTANTS Users, Events

VARIABLES
  accounts,   \* the accounts there are
  announced   \* announced[u]: the events about u that were seen

vars == <<accounts, announced>>

Init ==
  /\ accounts = Users
  /\ announced = [u \in Users |-> {}]

Delete(u) ==
  /\ u \in accounts
  /\ accounts' = accounts \ {u}
  /\ UNCHANGED announced

Announce(u, e) ==
  /\ u \notin accounts
  /\ announced[u] = {}
  /\ announced' = [announced EXCEPT ![u] = {e}]
  /\ UNCHANGED accounts

Next == \E u \in Users : Delete(u) \/ \E e \in Events : Announce(u, e)

Spec == Init /\ [][Next]_vars
=============================================================================
