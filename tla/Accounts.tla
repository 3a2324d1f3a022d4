------------------------------ MODULE Accounts ------------------------------
(***************************************************************************)
(* Registration, the profile updates of users and administrators, the      *)
(* switch that closes registration, and the internal resolution of ids.    *)
(*                                                                         *)
(* One call to the database is one step; between two steps of a request    *)
(* those of the others run.  Passwords, status and roles are elsewhere.    *)
(***************************************************************************)
EXTENDS Naturals, FiniteSets

CONSTANTS
  Ids,            \* ids of accounts (bound)
  Mailboxes,      \* what an email address designates
  NoAddress,
  Requests,       \* requests (bound); also the names they give to accounts
  NoRequest,
  Kinds           \* what the requests of an instance do

\* An address is written with capitals or not.
Address == [mailbox : Mailboxes, caps : BOOLEAN]

ASSUME AccountsConstants ==
  /\ NoAddress \notin Address
  /\ NoRequest \notin Requests
  /\ Kinds \subseteq {"register", "update_me", "update_user", "resolve"}

VARIABLES
  settings,   \* the registration_enabled document
  unused,     \* ids no account had yet
  email,      \* stored address of each account, NoAddress without account
  name,       \* the request that gave each account its name
  req

vars == <<settings, unused, email, name, req>>

-----------------------------------------------------------------------------
Stored == {i \in Ids : email[i] # NoAddress}

\* normalize_email: trimmed, lower case.
Normalize(a) == [a EXCEPT !.caps = FALSE]

\* Seeded bug: the index is not unique.
FreeAlways(i, a) == i \in Ids

\* The unique index on the address lets account i take a.
Free(i, a) == \A j \in Stored : email[j] = a => j = i

RegistrationEnabled == settings # "off"

Calls == {"insert", "update_name", "load", "find"}

Answers == {"ok", "conflict", "not_found", "forbidden", "aborted"}

Request == [pc : {"new"} \cup Calls \cup Answers, kind : Kinds \cup {"none"},
            id : SUBSET Ids, given : Address \cup {NoAddress},
            out : SUBSET (Ids \X Address)]

NewRequest == [pc |-> "new", kind |-> "none", id |-> {}, given |-> NoAddress, out |-> {}]

At(q, call) == req[q].pc = call

Begin(q, kind, call, ids) ==
  /\ At(q, "new")
  /\ kind \in Kinds
  /\ req' = [req EXCEPT ![q] = [@ EXCEPT !.pc = call, !.kind = kind, !.id = ids]]

Go(q, call) == req' = [req EXCEPT ![q].pc = call]

\* The database may hold accounts already.
Init ==
  /\ settings \in {"absent", "on", "off"}
  /\ unused \in SUBSET Ids
  /\ email \in [Ids -> Address \cup {NoAddress}]
  /\ \A i \in unused : email[i] = NoAddress
  /\ \A i \in Stored : ~ email[i].caps /\ Free(i, email[i])
  /\ name = [i \in Ids |-> NoRequest]
  /\ req = [q \in Requests |-> NewRequest]

-----------------------------------------------------------------------------
(* Registration.                                                           *)

\* Seeded bug: the switch is not read.
RegisterAlways(q, a) ==
  /\ At(q, "new")
  /\ "register" \in Kinds
  /\ req' = [req EXCEPT ![q] = [@ EXCEPT !.pc = "insert", !.kind = "register", !.given = a]]
  /\ UNCHANGED <<settings, unused, email, name>>

\* The switch is read; the password is hashed before the next call.
RegisterRead(q, a) ==
  /\ At(q, "new")
  /\ "register" \in Kinds
  /\ req' = [req EXCEPT ![q] =
               [@ EXCEPT !.pc = IF RegistrationEnabled THEN "insert" ELSE "forbidden",
                         !.kind = "register", !.given = a]]
  /\ UNCHANGED <<settings, unused, email, name>>

RegisterInsert(q, i) ==
  /\ At(q, "insert")
  /\ i \in unused
  /\ Free(i, Normalize(req[q].given))
  /\ email' = [email EXCEPT ![i] = Normalize(req[q].given)]
  /\ name' = [name EXCEPT ![i] = q]
  /\ unused' = unused \ {i}
  /\ Go(q, "ok")
  /\ UNCHANGED settings

RegisterConflict(q) ==
  /\ At(q, "insert")
  /\ \E j \in Stored : email[j] = Normalize(req[q].given)
  /\ Go(q, "conflict")
  /\ UNCHANGED <<settings, unused, email, name>>

-----------------------------------------------------------------------------
(* Profiles.                                                               *)

\* Seeded bug: the address is stored as it was written.
UpdateEmailAsGiven(q, kind, i, a, call) ==
  /\ i \in Stored
  /\ Free(i, a)
  /\ email' = [email EXCEPT ![i] = a]
  /\ Begin(q, kind, call, {i})

\* Seeded bug: the update is an upsert.
UpdateEmailUpsert(q, kind, i, a, call) ==
  /\ Free(i, Normalize(a))
  /\ email' = [email EXCEPT ![i] = Normalize(a)]
  /\ Begin(q, kind, call, {i})

\* update_email matched the account.
UpdateEmail(q, kind, i, a, call) ==
  /\ i \in Stored
  /\ Free(i, Normalize(a))
  /\ email' = [email EXCEPT ![i] = Normalize(a)]
  /\ Begin(q, kind, call, {i})

\* DuplicateEmail, or no account has the id any more.
RefuseEmail(q, kind, i, a) ==
  /\ \/ i \in Stored /\ ~ Free(i, Normalize(a)) /\ Begin(q, kind, "conflict", {i})
     \/ i \notin Stored /\ Begin(q, kind, "not_found", {i})
  /\ UNCHANGED email

UpdateMe(q, i, a) ==
  /\ i \notin unused
  /\ UpdateEmail(q, "update_me", i, a, "load") \/ RefuseEmail(q, "update_me", i, a)
  /\ UNCHANGED <<settings, unused, name>>

\* Seeded bug: the name is not updated.
UpdateUserEmail(q, i, a) ==
  /\ UpdateEmail(q, "update_user", i, a, "load") \/ RefuseEmail(q, "update_user", i, a)
  /\ UNCHANGED <<settings, unused, name>>

UpdateUser(q, i, a) ==
  /\ UpdateEmail(q, "update_user", i, a, "update_name") \/ RefuseEmail(q, "update_user", i, a)
  /\ UNCHANGED <<settings, unused, name>>

\* Whether update_name found the account is not looked at.
UpdateName(q) ==
  /\ At(q, "update_name")
  /\ name' = [i \in Ids |-> IF i \in req[q].id \cap Stored THEN q ELSE name[i]]
  /\ Go(q, "load")
  /\ UNCHANGED <<settings, unused, email>>

\* The profile is read again for the answer.
Load(q) ==
  /\ At(q, "load")
  /\ Go(q, IF req[q].id \subseteq Stored THEN "ok" ELSE "not_found")
  /\ UNCHANGED <<settings, unused, email, name>>

DeleteUser(i) ==
  /\ i \in Stored
  /\ email' = [email EXCEPT ![i] = NoAddress]
  /\ name' = [name EXCEPT ![i] = NoRequest]
  /\ UNCHANGED <<settings, unused, req>>

-----------------------------------------------------------------------------
(* The rest.                                                               *)

UpdateRegistration(enabled) ==
  /\ settings' = IF enabled THEN "on" ELSE "off"
  /\ UNCHANGED <<unused, email, name, req>>

ResolveUsers(q, ids) ==
  /\ Begin(q, "resolve", "find", ids)
  /\ UNCHANGED <<settings, unused, email, name>>

\* One id is looked up; those without account are left out.
ResolveOne(q, i) ==
  /\ At(q, "find")
  /\ i \in req[q].id
  /\ LET seen == IF i \in Stored THEN {<<i, email[i]>>} ELSE {}
     IN  req' = [req EXCEPT ![q] =
                   [@ EXCEPT !.id = req[q].id \ {i}, !.out = req[q].out \cup seen]]
  /\ UNCHANGED <<settings, unused, email, name>>

ResolveDone(q) ==
  /\ At(q, "find")
  /\ req[q].id = {}
  /\ Go(q, "ok")
  /\ UNCHANGED <<settings, unused, email, name>>

\* A call of the request fails, or its client goes away.
Abort(q) ==
  /\ req[q].pc \in Calls
  /\ Go(q, "aborted")
  /\ UNCHANGED <<settings, unused, email, name>>

Next ==
  \/ \E q \in Requests :
       \/ \E a \in Address : RegisterRead(q, a)
       \/ \E i \in Ids : RegisterInsert(q, i)
       \/ RegisterConflict(q)
       \/ \E i \in Ids, a \in Address : UpdateMe(q, i, a) \/ UpdateUser(q, i, a)
       \/ UpdateName(q)
       \/ Load(q)
       \/ \E ids \in SUBSET Ids : ResolveUsers(q, ids)
       \/ \E i \in Ids : ResolveOne(q, i)
       \/ ResolveDone(q)
       \/ Abort(q)
  \/ \E i \in Ids : DeleteUser(i)
  \/ \E enabled \in BOOLEAN : UpdateRegistration(enabled)

Spec == Init /\ [][Next]_vars

-----------------------------------------------------------------------------
(* Properties.                                                             *)

\* The collections and the requests keep their shape; an id that no account had
\* has no address and no name, even when a request asks for its update, and a
\* registration that is about to insert has an address.
AccountsTypeOK ==
  /\ settings \in {"absent", "on", "off"}
  /\ unused \subseteq Ids
  /\ email \in [Ids -> Address \cup {NoAddress}]
  /\ name \in [Ids -> Requests \cup {NoRequest}]
  /\ req \in [Requests -> Request]
  /\ \A i \in unused : email[i] = NoAddress /\ name[i] = NoRequest
  /\ \A q \in Requests : At(q, "insert") => req[q].given # NoAddress

\* Two accounts never answer to the same mailbox, however the address is written:
\* login looks the normalized address up and expects one account.
OneAccountPerMailbox ==
  \A i, j \in Stored : email[i].mailbox = email[j].mailbox => i = j
=============================================================================
