---------------------------- MODULE TokenFamily ----------------------------
(***************************************************************************)
(* What a family of refresh tokens promises.  A family starts at a login,  *)
(* holds at most one usable token, is renewed by exchanging that token for *)
(* a new one, and once closed never holds a usable token again.            *)
(* Sessions implements it: see Sessions!Family.                            *)
(***************************************************************************)
CONSTANT Families

VARIABLE family   \* family[f]: its phase

Phases == {"none", "live", "rotating", "closed"}

FamilyTypeOK == family \in [Families -> Phases]

FamilyInit == family = [f \in Families |-> "none"]

Move(f, from, to) ==
  /\ family[f] = from
  /\ family' = [family EXCEPT ![f] = to]

\* A login hands out the first token.
Open(f) == Move(f, "none", "live")

\* A refresh takes the usable token: nobody holds one until it answers.
Consume(f) == Move(f, "live", "rotating")

\* The refresh that took the token stores its successor.
Renew(f) == Move(f, "rotating", "live")

\* Revocation, expiry, or a refresh that ends without a successor.
Close(f) == Move(f, "live", "closed") \/ Move(f, "rotating", "closed")

FamilyNext ==
  \E f \in Families : Open(f) \/ Consume(f) \/ Renew(f) \/ Close(f)

\* How a refresh that took the token ends.
Settle(f) == family[f] = "rotating" /\ (Renew(f) \/ Close(f))

FamilySpec == FamilyInit /\ [][FamilyNext]_family

FairFamilySpec == FamilySpec /\ \A f \in Families : WF_family(Settle(f))
============================================================================
