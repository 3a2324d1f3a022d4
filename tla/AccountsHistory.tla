-------------------------- MODULE AccountsHistory --------------------------
(***************************************************************************)
(* Accounts with what the requests overlapped.                             *)
(***************************************************************************)
EXTENDS Accounts

VARIABLES
  email_by,   \* the request that gave each account its address
  overlaps,   \* pairs of update_user requests that wrote at the same time
  after_off,  \* requests that began since registration was last closed
  freed       \* addresses given up while each resolution ran

history == <<email_by, overlaps, after_off, freed>>

hvars == <<vars, history>>

HInit ==
  /\ Init
  /\ email_by = [i \in Ids |-> NoRequest]
  /\ overlaps = {}
  /\ after_off = {}
  /\ freed = [q \in Requests |-> {}]

Moves(q) == req'[q] # req[q]

\* Request q stores an address for account i in this step.
WritesEmail(q, i) ==
  \/ RegisterInsert(q, i)
  \/ At(q, "new") /\ req'[q].pc \in {"load", "update_name"} /\ i \in req'[q].id

HNext ==
  /\ Next
  /\ email_by' = [i \in Ids |->
       IF email'[i] = NoAddress THEN NoRequest
       ELSE IF \E q \in Requests : WritesEmail(q, i)
            THEN CHOOSE q \in Requests : WritesEmail(q, i)
            ELSE email_by[i]]
  /\ overlaps' = overlaps \cup
       {{q, p} : q, p \in {r \in Requests : req'[r].pc = "update_name"}}
  /\ after_off' = IF settings # "off" /\ settings' = "off" THEN {}
                  ELSE after_off \cup {q \in Requests : At(q, "new") /\ Moves(q)}
  /\ freed' = [q \in Requests |->
       freed[q] \cup IF At(q, "find")
                     THEN {email[i] : i \in {j \in Stored : email'[j] # email[j]}} ELSE {}]

HSpec == HInit /\ [][HNext]_hvars

-----------------------------------------------------------------------------
Ended(q) == req[q].pc \in Answers \ {"aborted"}

\* update_user writes the address and the name in two calls: an account shows
\* the address of an update that was answered and the name of another only if
\* the two ran at the same time.
OnlyOverlapsMixProfiles ==
  \A i \in Stored :
    LET q == email_by[i]
    IN  q \in Requests /\ req[q].kind # "update_me" /\ Ended(q) =>
          name[i] = q \/ {q, name[i]} \in overlaps

\* Accounts that are registered while registration is closed were asked for
\* before it was closed.
OnlyEarlierRequestsRegister ==
  [][\A q \in Requests :
       (\E i \in Ids : RegisterInsert(q, i)) /\ settings = "off" => q \notin after_off]_hvars

\* resolve_users reads its accounts one by one: it shows one address for two of
\* them only if an account gave that address up meanwhile.
OnlyFreedAddressesRepeat ==
  \A q \in Requests : \A x, y \in req[q].out :
    x # y /\ x[2] = y[2] => x[2] \in freed[q]
=============================================================================
