--------------------------- MODULE AccountsProofs ---------------------------
(***************************************************************************)
(* Theorems about Accounts, for any number of accounts, mailboxes and      *)
(* requests.                                                               *)
(***************************************************************************)
EXTENDS AccountsHistory, TLAPS

-----------------------------------------------------------------------------
(* Types.                                                                  *)

AccountShapes ==
  /\ unused \subseteq Ids
  /\ email \in [Ids -> Address \cup {NoAddress}]
  /\ name \in [Ids -> Requests \cup {NoRequest}]
  /\ \A i \in unused : email[i] = NoAddress /\ name[i] = NoRequest

RequestShapes ==
  /\ req \in [Requests -> Request]
  /\ \A q \in Requests : At(q, "insert") => req[q].given # NoAddress

SettingsShape == settings \in {"absent", "on", "off"}

LEMMA TypeParts == AccountsTypeOK <=> AccountShapes /\ RequestShapes /\ SettingsShape
  BY DEF AccountsTypeOK, AccountShapes, RequestShapes, SettingsShape

LEMMA NormalizeType ==
  ASSUME NEW a \in Address
  PROVE  /\ Normalize(a) \in Address
         /\ Normalize(a).mailbox = a.mailbox
         /\ Normalize(a).caps = FALSE
  BY DEF Normalize, Address

LEMMA NewRequestType == NewRequest \in Request
  BY DEF NewRequest, Request

LEMMA GoType ==
  ASSUME RequestShapes, NEW q \in Requests, NEW call \in Calls \cup Answers,
         call # "insert", Go(q, call)
  PROVE  RequestShapes'
<1>1. \A x \in Request : [x EXCEPT !.pc = call] \in Request
  BY DEF Request
<1>2. [req[q] EXCEPT !.pc = call].pc = call
  BY DEF RequestShapes, Request
<1>3. req' = [req EXCEPT ![q] = [req[q] EXCEPT !.pc = call]]
  BY DEF Go, RequestShapes
<1> QED
  BY <1>1, <1>2, <1>3 DEF RequestShapes, At

LEMMA BeginType ==
  ASSUME RequestShapes, NEW q \in Requests, NEW kind, NEW call \in Calls \cup Answers,
         call # "insert", NEW ids \in SUBSET Ids, Begin(q, kind, call, ids)
  PROVE  RequestShapes'
<1> DEFINE x == [req[q] EXCEPT !.pc = call, !.kind = kind, !.id = ids]
<1>1. req[q] \in Request /\ kind \in Kinds
  BY DEF RequestShapes, Begin
<1>2. x \in Request /\ x.pc = call
  BY <1>1 DEF Request
<1>3. req' = [req EXCEPT ![q] = x]
  BY DEF Begin
<1> QED
  BY <1>2, <1>3 DEF RequestShapes, At

LEMMA TypeInit == Init => AccountsTypeOK
<1>1. NewRequest.pc = "new"
  BY DEF NewRequest
<1> QED
  BY <1>1, NewRequestType DEF Init, AccountsTypeOK, At

\* What a step does to the accounts, as far as the addresses go.
Stores(i, a) ==
  /\ \A j \in Stored : email[j] = Normalize(a) => j = i
  /\ email' = [email EXCEPT ![i] = Normalize(a)]

Removes(i) == email' = [email EXCEPT ![i] = NoAddress]

AddressStep ==
  \/ \E i \in Ids, a \in Address : Stores(i, a)
  \/ \E i \in Ids : Removes(i)
  \/ UNCHANGED email

LEMMA Step ==
  ASSUME AccountsTypeOK, [Next]_vars PROVE AccountsTypeOK' /\ AddressStep
<1> DEFINE Goal == AccountShapes' /\ RequestShapes' /\ SettingsShape' /\ AddressStep
<1>t. AccountShapes /\ RequestShapes /\ SettingsShape
  BY TypeParts
<1>a. ASSUME UNCHANGED <<unused, email, name>> PROVE AccountShapes' /\ AddressStep
  BY <1>a, <1>t DEF AccountShapes, AddressStep
<1>s. ASSUME UNCHANGED settings PROVE SettingsShape'
  BY <1>s, <1>t DEF SettingsShape
<1>r. ASSUME UNCHANGED req PROVE RequestShapes'
  BY <1>r, <1>t DEF RequestShapes, At
<1>1. ASSUME NEW q \in Requests, NEW a \in Address, RegisterRead(q, a) PROVE Goal
  <2> DEFINE x == [req[q] EXCEPT
                     !.pc = IF RegistrationEnabled THEN "insert" ELSE "forbidden",
                     !.kind = "register", !.given = a]
  <2>1. req[q] \in Request /\ "register" \in Kinds
    BY <1>1, <1>t DEF RegisterRead, RequestShapes
  <2>2. x \in Request /\ x.given = a
    BY <2>1 DEF Request, Calls, Answers
  <2>3. req' = [req EXCEPT ![q] = x]
    BY <1>1 DEF RegisterRead
  <2>4. RequestShapes'
    BY <1>t, <2>2, <2>3, AccountsConstants DEF RequestShapes, At
  <2> QED
    BY <1>1, <1>a, <1>s, <2>4 DEF RegisterRead
<1>2. ASSUME NEW q \in Requests, NEW i \in Ids, RegisterInsert(q, i) PROVE Goal
  <2>1. req[q].given \in Address
    BY <1>2, <1>t DEF RegisterInsert, RequestShapes, Request
  <2>2. AccountShapes'
    BY <1>2, <1>t, <2>1, NormalizeType DEF RegisterInsert, AccountShapes
  <2>3. Stores(i, req[q].given)
    BY <1>2 DEF RegisterInsert, Free, Stores
  <2>4. RequestShapes'
    BY <1>2, <1>t, GoType DEF RegisterInsert, Answers
  <2> QED
    BY <1>2, <1>s, <2>1, <2>2, <2>3, <2>4 DEF RegisterInsert, AddressStep
<1>3. ASSUME NEW q \in Requests, RegisterConflict(q) PROVE Goal
  <2>1. RequestShapes'
    BY <1>3, <1>t, GoType DEF RegisterConflict, Answers
  <2> QED
    BY <1>3, <1>a, <1>s, <2>1 DEF RegisterConflict
<1>4. ASSUME NEW q \in Requests, NEW i \in Ids, NEW a \in Address, NEW kind,
             NEW call \in {"load", "update_name"},
             UpdateEmail(q, kind, i, a, call) \/ RefuseEmail(q, kind, i, a),
             UNCHANGED <<settings, unused, name>>
      PROVE  Goal
  <2>1. CASE UpdateEmail(q, kind, i, a, call)
    <3>1. AccountShapes'
      BY <1>4, <1>t, <2>1, NormalizeType DEF UpdateEmail, AccountShapes, Stored
    <3>2. Stores(i, a)
      BY <2>1 DEF UpdateEmail, Free, Stores
    <3>3. RequestShapes'
      BY <1>t, <2>1, BeginType DEF UpdateEmail, Calls
    <3> QED
      BY <1>4, <1>s, <3>1, <3>2, <3>3 DEF AddressStep
  <2>2. CASE RefuseEmail(q, kind, i, a)
    <3>1. RequestShapes'
      BY <1>t, <2>2, BeginType DEF RefuseEmail, Answers
    <3> QED
      BY <1>4, <1>a, <1>s, <2>2, <3>1 DEF RefuseEmail
  <2> QED
    BY <1>4, <2>1, <2>2
<1>5. ASSUME NEW q \in Requests, NEW i \in Ids, NEW a \in Address,
             UpdateMe(q, i, a) \/ UpdateUser(q, i, a)
      PROVE  Goal
  BY <1>4, <1>5 DEF UpdateMe, UpdateUser
<1>6. ASSUME NEW q \in Requests, UpdateName(q) PROVE Goal
  <2>1. AccountShapes'
    BY <1>6, <1>t DEF UpdateName, AccountShapes, Stored
  <2>2. RequestShapes'
    BY <1>6, <1>t, GoType DEF UpdateName, Calls
  <2> QED
    BY <1>6, <1>s, <2>1, <2>2 DEF UpdateName, AddressStep
<1>7. ASSUME NEW q \in Requests, Load(q) \/ ResolveDone(q) \/ Abort(q) PROVE Goal
  <2>1. RequestShapes'
    BY <1>7, <1>t, GoType DEF Load, ResolveDone, Abort, Answers
  <2> QED
    BY <1>7, <1>a, <1>s, <2>1 DEF Load, ResolveDone, Abort
<1>8. ASSUME NEW q \in Requests, NEW ids \in SUBSET Ids, ResolveUsers(q, ids) PROVE Goal
  <2>1. RequestShapes'
    BY <1>8, <1>t, BeginType DEF ResolveUsers, Calls
  <2> QED
    BY <1>8, <1>a, <1>s, <2>1 DEF ResolveUsers
<1>9. ASSUME NEW q \in Requests, NEW i \in Ids, ResolveOne(q, i) PROVE Goal
  <2> DEFINE seen == IF i \in Stored THEN {<<i, email[i]>>} ELSE {}
             x == [req[q] EXCEPT !.id = req[q].id \ {i}, !.out = req[q].out \cup seen]
  <2>1. req[q] \in Request
    BY <1>t DEF RequestShapes
  <2>2. seen \in SUBSET (Ids \X Address)
    BY <1>t DEF AccountShapes, Stored
  <2>3. x \in Request /\ x.pc = req[q].pc /\ x.given = req[q].given
    BY <2>1, <2>2 DEF Request
  <2>4. req' = [req EXCEPT ![q] = x]
    BY <1>9 DEF ResolveOne
  <2>5. RequestShapes'
    BY <1>t, <2>3, <2>4 DEF RequestShapes, At
  <2> QED
    BY <1>9, <1>a, <1>s, <2>5 DEF ResolveOne
<1>10. ASSUME NEW i \in Ids, DeleteUser(i) PROVE Goal
  <2>1. AccountShapes'
    BY <1>10, <1>t DEF DeleteUser, AccountShapes
  <2> QED
    BY <1>10, <1>s, <1>r, <2>1 DEF DeleteUser, AddressStep, Removes
<1>11. ASSUME NEW enabled \in BOOLEAN, UpdateRegistration(enabled) PROVE Goal
  BY <1>11, <1>a, <1>r DEF UpdateRegistration, SettingsShape
<1>12. ASSUME UNCHANGED vars PROVE Goal
  BY <1>12, <1>a, <1>s, <1>r DEF vars
<1>13. Goal
  BY <1>1, <1>2, <1>3, <1>5, <1>6, <1>7, <1>8, <1>9, <1>10, <1>11, <1>12 DEF Next
<1> QED
  BY <1>13 DEF AccountsTypeOK, AccountShapes, RequestShapes, SettingsShape

\* The collections and the requests keep their shape, and no id is given to a
\* second account.
THEOREM AccountsTypeCorrect == Spec => []AccountsTypeOK
  BY TypeInit, Step, PTL DEF Spec

-----------------------------------------------------------------------------
(* Addresses.                                                              *)

\* What is stored is what the unique index compares and find_by_email looks up.
Normalized == \A i \in Stored : ~ email[i].caps

DistinctAddresses == \A i, j \in Stored : email[i] = email[j] => i = j

IInv == AccountsTypeOK /\ Normalized /\ DistinctAddresses

LEMMA IInvInit == Init => IInv
  BY TypeInit DEF Init, IInv, Normalized, DistinctAddresses, Free, Stored

LEMMA IInvNext == IInv /\ [Next]_vars => IInv'
<1> SUFFICES ASSUME IInv, [Next]_vars PROVE IInv'
  OBVIOUS
<1>1. AccountsTypeOK' /\ AddressStep
  BY Step DEF IInv
<1>2. email \in [Ids -> Address \cup {NoAddress}] /\ NoAddress \notin Address
  BY AccountsConstants DEF IInv, AccountsTypeOK
<1>3. ASSUME NEW i \in Ids, NEW a \in Address, Stores(i, a)
      PROVE  Normalized' /\ DistinctAddresses'
  <2>1. Stored' = Stored \cup {i}
    BY <1>2, <1>3, NormalizeType DEF Stores, Stored
  <2>2. \A j \in Stored' : email'[j] = IF j = i THEN Normalize(a) ELSE email[j]
    BY <1>2, <1>3, <2>1 DEF Stores, Stored
  <2>3. Normalized'
    BY <2>1, <2>2, NormalizeType DEF IInv, Normalized
  <2>4. DistinctAddresses'
    BY <1>3, <2>1, <2>2 DEF Stores, IInv, DistinctAddresses
  <2> QED
    BY <2>3, <2>4
<1>4. ASSUME NEW i \in Ids, Removes(i) PROVE Normalized' /\ DistinctAddresses'
  BY <1>2, <1>4 DEF Removes, IInv, Normalized, DistinctAddresses, Stored
<1>5. ASSUME UNCHANGED email PROVE Normalized' /\ DistinctAddresses'
  BY <1>5 DEF IInv, Normalized, DistinctAddresses, Stored
<1> QED
  BY <1>1, <1>3, <1>4, <1>5 DEF IInv, AddressStep

\* Whatever requests interleave, a mailbox has one account: every write
\* normalizes the address before the unique index compares it.
THEOREM MailboxesUnique == Spec => []OneAccountPerMailbox
<1>1. IInv => OneAccountPerMailbox
  <2> SUFFICES ASSUME IInv, NEW i \in Stored, NEW j \in Stored,
                      email[i].mailbox = email[j].mailbox
               PROVE  i = j
    BY DEF OneAccountPerMailbox
  <2>1. email[i] \in Address /\ email[j] \in Address /\ ~ email[i].caps /\ ~ email[j].caps
    BY DEF IInv, AccountsTypeOK, Normalized, Stored
  <2>2. email[i] = email[j]
    BY <2>1 DEF Address
  <2> QED
    BY <2>2 DEF IInv, DistinctAddresses
<1> QED
  BY <1>1, IInvInit, IInvNext, PTL DEF Spec

-----------------------------------------------------------------------------
(* What a step does to a request.                                          *)

\* A request that will insert read the switch on.
InsertStep(q) ==
  At(q, "insert")' =>
    \/ req'[q] = req[q]
    \/ At(q, "new") /\ settings # "off" /\ UNCHANGED settings

\* Addresses are shown by the resolution, one by one.
OutStep(q) ==
  /\ At(q, "new")' => req'[q] = req[q]
  /\ \/ /\ req'[q].out = req[q].out
        /\ At(q, "find")' => At(q, "find") \/ At(q, "new")
     \/ /\ At(q, "find") /\ UNCHANGED email
        /\ \E i \in Stored : req'[q].out = req[q].out \cup {<<i, email[i]>>}

LEMMA RequestSteps ==
  ASSUME AccountsTypeOK, [Next]_vars, NEW q \in Requests
  PROVE  InsertStep(q) /\ OutStep(q)
<1> DEFINE Goal == InsertStep(q) /\ OutStep(q)
<1>0. req \in [Requests -> Request]
  BY DEF AccountsTypeOK
<1> USE <1>0 DEF InsertStep, OutStep, At
<1>1. ASSUME req'[q] = req[q] PROVE Goal
  BY <1>1
<1>1a. ASSUME NEW p \in Requests, \A k \in Requests \ {p} : req'[k] = req[k],
               p = q => /\ req'[p].out = req[p].out
                        /\ req'[p].pc \notin {"new", "find"}
                        /\ req'[p].pc = "insert" => /\ req[p].pc = "new"
                                                    /\ settings # "off" /\ UNCHANGED settings
       PROVE  Goal
  <2>1. CASE p # q
    BY <1>1, <1>1a, <2>1
  <2>2. CASE p = q
    BY <1>1a, <2>2
  <2> QED BY <2>1, <2>2
<1>2. ASSUME NEW p \in Requests, NEW call \in Answers \cup {"load"}, Go(p, call)
      PROVE  Goal
  <2>1. /\ \A k \in Requests \ {p} : req'[k] = req[k]
        /\ req'[p].pc = call /\ req'[p].out = req[p].out
    BY <1>2 DEF Go, Request
  <2> QED BY <1>1a, <2>1 DEF Answers
<1>3. ASSUME NEW p \in Requests, NEW kind, NEW call \in (Calls \cup Answers) \ {"insert"},
             NEW ids, Begin(p, kind, call, ids)
      PROVE  Goal
  <2>1. /\ \A k \in Requests \ {p} : req'[k] = req[k]
        /\ req[p].pc = "new" /\ req'[p].pc = call /\ req'[p].out = req[p].out
    BY <1>3 DEF Begin, Request
  <2>2. CASE p # q
    BY <1>1, <2>1, <2>2
  <2>3. CASE p = q
    BY <2>1, <2>3 DEF Calls, Answers
  <2> QED BY <2>2, <2>3
<1>4. ASSUME NEW p \in Requests, NEW a \in Address, RegisterRead(p, a) PROVE Goal
  <2>1. /\ \A k \in Requests \ {p} : req'[k] = req[k]
        /\ req[p].pc = "new" /\ req'[p].out = req[p].out /\ UNCHANGED settings
        /\ req'[p].pc = IF settings # "off" THEN "insert" ELSE "forbidden"
    BY <1>4 DEF RegisterRead, RegistrationEnabled, Request
  <2> QED BY <1>1a, <2>1
<1>5. ASSUME NEW p \in Requests, NEW i \in Ids, RegisterInsert(p, i) PROVE Goal
  BY <1>2, <1>5 DEF RegisterInsert, Answers
<1>6. ASSUME NEW p \in Requests,
             \/ RegisterConflict(p) \/ UpdateName(p) \/ Load(p) \/ ResolveDone(p) \/ Abort(p)
      PROVE  Goal
  BY <1>2, <1>6 DEF RegisterConflict, UpdateName, Load, ResolveDone, Abort, Answers
<1>7. ASSUME NEW p \in Requests, NEW i \in Ids, NEW a \in Address,
             UpdateMe(p, i, a) \/ UpdateUser(p, i, a)
      PROVE  Goal
  BY <1>3, <1>7 DEF UpdateMe, UpdateUser, UpdateEmail, RefuseEmail, Calls, Answers
<1>8. ASSUME NEW p \in Requests, NEW ids \in SUBSET Ids, ResolveUsers(p, ids) PROVE Goal
  BY <1>3, <1>8 DEF ResolveUsers, Calls
<1>9. ASSUME NEW p \in Requests, NEW i \in Ids, ResolveOne(p, i) PROVE Goal
  <2>1. CASE p # q
    BY <1>1, <1>9, <2>1 DEF ResolveOne
  <2>2. CASE p = q
    <3> DEFINE seen == IF i \in Stored THEN {<<i, email[i]>>} ELSE {}
    <3>1. /\ req'[q].pc = "find" /\ req'[q].out = req[q].out \cup seen
          /\ req[q].pc = "find" /\ UNCHANGED email
      BY <1>9, <2>2 DEF ResolveOne, Request
    <3> QED BY <3>1
  <2> QED BY <2>1, <2>2
<1>10. ASSUME \/ \E i \in Ids : DeleteUser(i)
              \/ \E enabled \in BOOLEAN : UpdateRegistration(enabled)
              \/ UNCHANGED vars
       PROVE  Goal
  BY <1>1, <1>10 DEF DeleteUser, UpdateRegistration, vars
<1> QED
  BY <1>4, <1>5, <1>6, <1>7, <1>8, <1>9, <1>10 DEF Next

-----------------------------------------------------------------------------
(* Registration.                                                           *)

\* A request that began since the switch was turned off inserts nothing while
\* it is off.
LateRefused == \A q \in Requests : q \in after_off /\ At(q, "insert") => settings # "off"

LEMMA LateNext ==
  ASSUME AccountsTypeOK, LateRefused, [HNext]_hvars PROVE LateRefused'
<1>1. [Next]_vars
  BY DEF HNext, hvars
<1>2. CASE HNext
  <2> SUFFICES ASSUME NEW q \in Requests, q \in after_off', At(q, "insert")', settings' = "off"
               PROVE  FALSE
    BY DEF LateRefused
  <2>1. InsertStep(q)
    BY <1>1, RequestSteps
  <2>2. settings = "off"
    BY <1>2 DEF HNext
  <2>3. req'[q] = req[q]
    BY <2>1, <2>2 DEF InsertStep
  <2>4. q \in after_off
    BY <1>2, <2>2, <2>3 DEF HNext, Moves
  <2> QED BY <2>2, <2>3, <2>4 DEF LateRefused, At
<1>3. CASE UNCHANGED hvars
  BY <1>3 DEF hvars, vars, history, LateRefused, At
<1> QED BY <1>2, <1>3

\* While registration is closed, the only accounts that appear are those of
\* requests that read the switch before it was turned off.
THEOREM EarlierRequestsRegister == HSpec => OnlyEarlierRequestsRegister
<1>1. HInit => AccountsTypeOK /\ LateRefused
  BY TypeInit DEF HInit, Init, LateRefused, At
<1>2. AccountsTypeOK /\ LateRefused /\ [HNext]_hvars => AccountsTypeOK' /\ LateRefused'
  BY LateNext, Step DEF HNext, hvars
<1>3. AccountsTypeOK /\ LateRefused /\ [HNext]_hvars =>
        [\A q \in Requests :
           (\E i \in Ids : RegisterInsert(q, i)) /\ settings = "off" => q \notin after_off]_hvars
  BY DEF LateRefused, RegisterInsert
<1> QED BY <1>1, <1>2, <1>3, PTL DEF HSpec, OnlyEarlierRequestsRegister

-----------------------------------------------------------------------------
(* Resolution.                                                             *)

\* What a resolution under way has shown is still so, or was given up since.
ShownOrFreed ==
  \A q \in Requests :
    /\ At(q, "new") => req[q].out = {}
    /\ At(q, "find") => \A x \in req[q].out : email[x[1]] = x[2] \/ x[2] \in freed[q]

FInv == IInv /\ freed \in [Requests -> SUBSET Address] /\ ShownOrFreed /\ OnlyFreedAddressesRepeat

LEMMA FInvNext == FInv /\ [HNext]_hvars => ShownOrFreed' /\ OnlyFreedAddressesRepeat'
<1> SUFFICES ASSUME FInv, [HNext]_hvars, NEW q \in Requests
             PROVE  /\ At(q, "new")' => req'[q].out = {}
                    /\ At(q, "find")' =>
                         \A x \in req'[q].out : email'[x[1]] = x[2] \/ x[2] \in freed'[q]
                    /\ \A x, y \in req'[q].out : x # y /\ x[2] = y[2] => x[2] \in freed'[q]
  BY DEF ShownOrFreed, OnlyFreedAddressesRepeat
<1>1. AccountsTypeOK /\ DistinctAddresses /\ [Next]_vars
  BY DEF FInv, IInv, HNext, hvars
<1>2. OutStep(q) /\ req[q].out \subseteq Ids \X Address
  BY <1>1, RequestSteps DEF AccountsTypeOK, Request
<1>3. freed[q] \subseteq freed'[q]
  BY DEF HNext, hvars, history
<1>4. ASSUME At(q, "find"), NEW x \in req[q].out
      PROVE  email'[x[1]] = x[2] \/ x[2] \in freed'[q]
  <2>1. x[1] \in Ids /\ x[2] \in Address
    BY <1>2
  <2>2. email[x[1]] = x[2] \/ x[2] \in freed[q]
    BY <1>4 DEF FInv, ShownOrFreed
  <2>3. CASE email[x[1]] = x[2] /\ email'[x[1]] # x[2]
    <3>1. x[1] \in Stored
      BY <2>1, <2>3, AccountsConstants DEF Stored
    <3>2. HNext
      BY <2>3 DEF hvars, vars
    <3> QED BY <1>4, <2>3, <3>1, <3>2 DEF HNext
  <2> QED BY <1>3, <2>2, <2>3
<1>5. CASE /\ req'[q].out = req[q].out
           /\ At(q, "find")' => At(q, "find") \/ At(q, "new")
  <2>1. At(q, "new")' => req'[q].out = {}
    BY <1>2 DEF OutStep, FInv, ShownOrFreed, At
  <2>2. At(q, "find")' =>
          \A x \in req'[q].out : email'[x[1]] = x[2] \/ x[2] \in freed'[q]
    BY <1>4, <1>5 DEF FInv, ShownOrFreed
  <2> QED BY <1>3, <1>5, <2>1, <2>2 DEF FInv, OnlyFreedAddressesRepeat
<1>6. ASSUME At(q, "find"), UNCHANGED email,
             NEW i \in Stored, req'[q].out = req[q].out \cup {<<i, email[i]>>}
      PROVE  /\ At(q, "new")' => req'[q].out = {}
             /\ \A x \in req'[q].out : email'[x[1]] = x[2] \/ x[2] \in freed'[q]
             /\ \A x, y \in req'[q].out : x # y /\ x[2] = y[2] => x[2] \in freed'[q]
  <2>1. ~ At(q, "new")'
    BY <1>2, <1>6 DEF OutStep, At
  <2>2. \A x \in req'[q].out : email'[x[1]] = x[2] \/ x[2] \in freed'[q]
    BY <1>4, <1>6
  <2>3. ASSUME NEW x \in req[q].out, x # <<i, email[i]>>, x[2] = email[i]
        PROVE  x[2] \in freed'[q]
    <3>1. x = <<x[1], x[2]>> /\ x[1] \in Ids /\ x[2] \in Address
      BY <1>2
    <3>2. x[1] # i
      BY <2>3, <3>1
    <3>3. email[x[1]] # x[2]
      BY <1>1, <2>3, <3>1, <3>2, AccountsConstants DEF DistinctAddresses, Stored
    <3> QED BY <1>4, <1>6, <3>3
  <2>4. \A x, y \in req'[q].out : x # y /\ x[2] = y[2] => x[2] \in freed'[q]
    BY <1>3, <1>6, <2>3 DEF FInv, OnlyFreedAddressesRepeat
  <2> QED BY <2>1, <2>2, <2>4
<1> QED BY <1>2, <1>5, <1>6 DEF OutStep

\* A resolution shows one address for two accounts only if one of them gave it
\* up while the resolution ran: at any instant the addresses are distinct.
THEOREM FreedAddressesRepeat == HSpec => []OnlyFreedAddressesRepeat
<1>1. HInit => FInv
  BY IInvInit DEF HInit, Init, FInv, ShownOrFreed, OnlyFreedAddressesRepeat, NewRequest, At
<1>2. FInv /\ [HNext]_hvars => FInv'
  <2> SUFFICES ASSUME FInv, [HNext]_hvars PROVE FInv'
    OBVIOUS
  <2>1. IInv'
    BY IInvNext DEF FInv, HNext, hvars
  <2>2. freed' \in [Requests -> SUBSET Address]
    BY DEF FInv, IInv, AccountsTypeOK, HNext, hvars, history, Stored
  <2> QED BY <2>1, <2>2, FInvNext DEF FInv
<1>3. FInv => OnlyFreedAddressesRepeat
  BY DEF FInv
<1> QED BY <1>1, <1>2, <1>3, PTL DEF HSpec

-----------------------------------------------------------------------------
(* Profiles.  An update that overwrites the address of another one that is *)
(* still to write its name finds it at update_name: the pair is recorded.  *)

\* What the request that gave account i its address has left behind.
Settled(i, q) ==
  /\ i \in Stored
  /\ req[q].pc \in {"update_name", "load", "ok", "not_found", "aborted"}
  /\ At(q, "update_name") => i \in req[q].id

\* The name is that of q, or of a request it overlapped, and so will be the
\* names that are still to be written.
Unmixed(i, q) ==
  /\ req[q].pc \in {"load", "ok", "not_found"} => name[i] = q \/ {q, name[i]} \in overlaps
  /\ \A p \in Requests : At(p, "update_name") /\ i \in req[p].id => p = q \/ {q, p} \in overlaps

ProfilesKept ==
  \A i \in Ids : LET q == email_by[i]
                 IN  q \in Requests =>
                       Settled(i, q) /\ (req[q].kind # "update_me" => Unmixed(i, q))

\* Names are written to accounts, not to ids that are still to be given.
NamesOfAccounts == \A p \in Requests : At(p, "update_name") => req[p].id \cap unused = {}

MInv == AccountsTypeOK /\ NamesOfAccounts /\ ProfilesKept

\* The request that moves is the only one that may have stored an address.
LEMMA WriterStep ==
  ASSUME AccountsTypeOK, HNext, NEW p \in Requests, \A k \in Requests \ {p} : req'[k] = req[k],
         NEW i \in Ids
  PROVE  \/ email_by'[i] = NoRequest
         \/ i \in Stored' /\ email_by'[i] = email_by[i] /\ ~ WritesEmail(p, i)
         \/ i \in Stored' /\ email_by'[i] = p /\ WritesEmail(p, i)
<1>1. ASSUME NEW k \in Requests, WritesEmail(k, i) PROVE k = p
  <2>1. RegisterInsert(k, i) => req'[k].pc = "ok" /\ req[k].pc = "insert"
    BY DEF RegisterInsert, Go, At, AccountsTypeOK, Request
  <2>2. req'[k] # req[k]
    BY <1>1, <2>1 DEF WritesEmail, At
  <2> QED BY <2>2
<1>2. email_by'[i] = IF email'[i] = NoAddress THEN NoRequest
                     ELSE IF \E k \in Requests : WritesEmail(k, i)
                          THEN CHOOSE k \in Requests : WritesEmail(k, i)
                          ELSE email_by[i]
  BY DEF HNext
<1>3. (\E k \in Requests : WritesEmail(k, i)) =>
        (CHOOSE k \in Requests : WritesEmail(k, i)) = p /\ WritesEmail(p, i)
  BY <1>1
<1>4. i \in Stored' <=> email'[i] # NoAddress
  BY DEF Stored
<1> QED BY <1>2, <1>3, <1>4

LEMMA StillStep ==
  ASSUME AccountsTypeOK, HNext, UNCHANGED req, NEW i \in Ids
  PROVE  \/ email_by'[i] = NoRequest
         \/ i \in Stored' /\ email_by'[i] = email_by[i]
<1>1. ASSUME NEW k \in Requests PROVE ~ WritesEmail(k, i)
  <2>1. RegisterInsert(k, i) => req'[k].pc = "ok" /\ req[k].pc = "insert"
    BY DEF RegisterInsert, Go, At, AccountsTypeOK, Request
  <2> QED BY <2>1 DEF WritesEmail, At
<1>2. email_by'[i] = IF email'[i] = NoAddress THEN NoRequest
                     ELSE IF \E k \in Requests : WritesEmail(k, i)
                          THEN CHOOSE k \in Requests : WritesEmail(k, i)
                          ELSE email_by[i]
  BY DEF HNext
<1> QED BY <1>1, <1>2 DEF Stored

\* The moves of a request that store neither an address nor a name.
PlainMove(p) ==
  /\ \A k \in Requests \ {p} : req'[k] = req[k]
  /\ UNCHANGED <<unused, email, name>>
  /\ req'[p].pc \notin {"update_name", "load"}
  /\ \/ req[p].pc \in {"new", "insert", "find"}
     \/ /\ req'[p].kind = req[p].kind
        /\ req'[p].pc = "aborted" \/ (At(p, "load") /\ req'[p].pc \in {"ok", "not_found"})

WriteMove(p, i) ==
  /\ \A k \in Requests \ {p} : req'[k] = req[k]
  /\ i \in Stored /\ Stored \subseteq Stored' /\ UNCHANGED <<unused, name>>
  /\ At(p, "new") /\ req'[p].id = {i}
  /\ \/ req'[p].pc = "load" /\ req'[p].kind = "update_me"
     \/ req'[p].pc = "update_name"

InsertMove(p, i) ==
  /\ \A k \in Requests \ {p} : req'[k] = req[k]
  /\ Stored \subseteq Stored' /\ name' = [name EXCEPT ![i] = p]
  /\ i \in unused /\ unused' = unused \ {i}
  /\ At(p, "insert") /\ req'[p].pc = "ok"

NameMove(p) ==
  /\ \A k \in Requests \ {p} : req'[k] = req[k]
  /\ UNCHANGED <<unused, email>>
  /\ name' = [i \in Ids |-> IF i \in req[p].id \cap Stored THEN p ELSE name[i]]
  /\ At(p, "update_name") /\ req'[p].pc = "load"
  /\ req'[p].kind = req[p].kind /\ req'[p].id = req[p].id

ProfileMove ==
  \/ \E p \in Requests : PlainMove(p) \/ NameMove(p)
  \/ \E p \in Requests, i \in Ids : WriteMove(p, i) \/ InsertMove(p, i)
  \/ /\ UNCHANGED <<unused, req>>
     /\ \A i \in Stored' : i \in Stored /\ name'[i] = name[i]

LEMMA ProfileMoves ==
  ASSUME AccountsTypeOK, Next PROVE ProfileMove
<1>0. /\ req \in [Requests -> Request] /\ unused \subseteq Ids
      /\ email \in [Ids -> Address \cup {NoAddress}]
      /\ name \in [Ids -> Requests \cup {NoRequest}]
      /\ \A i \in unused : email[i] = NoAddress
  BY DEF AccountsTypeOK
<1> USE <1>0
<1>g. ASSUME NEW p \in Requests, NEW call \in Answers \cup {"load"}, Go(p, call)
      PROVE  /\ \A k \in Requests \ {p} : req'[k] = req[k]
             /\ req'[p].pc = call /\ req'[p].kind = req[p].kind /\ req'[p].id = req[p].id
  BY <1>g DEF Go, Request
<1>b. ASSUME NEW p \in Requests, NEW kind, NEW call \in Calls \cup Answers, NEW ids,
             Begin(p, kind, call, ids)
      PROVE  /\ \A k \in Requests \ {p} : req'[k] = req[k]
             /\ At(p, "new")
             /\ req'[p].pc = call /\ req'[p].kind = kind /\ req'[p].id = ids
  BY <1>b DEF Begin, Request
<1>1. ASSUME NEW p \in Requests, NEW a \in Address, RegisterRead(p, a) PROVE PlainMove(p)
  <2>1. /\ \A k \in Requests \ {p} : req'[k] = req[k]
        /\ At(p, "new")
        /\ req'[p].pc = IF RegistrationEnabled THEN "insert" ELSE "forbidden"
    BY <1>1 DEF RegisterRead, Request
  <2> QED BY <1>1, <2>1 DEF RegisterRead, PlainMove, At
<1>2. ASSUME NEW p \in Requests, NEW i \in Ids, RegisterInsert(p, i) PROVE InsertMove(p, i)
  <2>1. Go(p, "ok") /\ At(p, "insert") /\ i \in unused /\ name' = [name EXCEPT ![i] = p]
        /\ unused' = unused \ {i}
    BY <1>2 DEF RegisterInsert
  <2>2. Stored \subseteq Stored'
    BY <1>2 DEF RegisterInsert, Stored
  <2> QED BY <1>g, <2>1, <2>2 DEF InsertMove, Answers
<1>3. ASSUME NEW p \in Requests, RegisterConflict(p) \/ Abort(p) \/ Load(p) \/ ResolveDone(p)
      PROVE  PlainMove(p)
  <2>1. CASE RegisterConflict(p)
    BY <1>g, <2>1 DEF RegisterConflict, PlainMove, At, Answers
  <2>2. CASE Abort(p)
    BY <1>g, <2>2 DEF Abort, PlainMove, At, Answers
  <2>3. CASE Load(p)
    <3>1. At(p, "load") /\ UNCHANGED <<unused, email, name>>
      BY <2>3 DEF Load
    <3>2. Go(p, "ok") \/ Go(p, "not_found")
      BY <2>3 DEF Load
    <3>3. /\ \A k \in Requests \ {p} : req'[k] = req[k]
          /\ req'[p].pc \in {"ok", "not_found"} /\ req'[p].kind = req[p].kind
      BY <1>g, <3>2 DEF Answers
    <3> QED BY <3>1, <3>3 DEF PlainMove
  <2>4. CASE ResolveDone(p)
    BY <1>g, <2>4 DEF ResolveDone, PlainMove, At, Answers
  <2> QED BY <1>3, <2>1, <2>2, <2>3, <2>4
<1>4. ASSUME NEW p \in Requests, NEW i \in Ids, NEW a \in Address,
             UpdateMe(p, i, a) \/ UpdateUser(p, i, a)
      PROVE  PlainMove(p) \/ WriteMove(p, i)
  <2>1. ASSUME NEW kind, RefuseEmail(p, kind, i, a), UNCHANGED <<unused, name>> PROVE PlainMove(p)
    <3>1. UNCHANGED email /\ (Begin(p, kind, "conflict", {i}) \/ Begin(p, kind, "not_found", {i}))
      BY <2>1 DEF RefuseEmail
    <3>2. /\ \A k \in Requests \ {p} : req'[k] = req[k]
          /\ At(p, "new") /\ req'[p].pc \in {"conflict", "not_found"}
      BY <1>b, <3>1 DEF Answers
    <3> QED BY <2>1, <3>1, <3>2 DEF PlainMove, At
  <2>2. ASSUME NEW kind, NEW call \in {"load", "update_name"}, UpdateEmail(p, kind, i, a, call),
               call = "load" => kind = "update_me", UNCHANGED <<unused, name>>
        PROVE  WriteMove(p, i)
    <3>1. Begin(p, kind, call, {i}) /\ i \in Stored /\ email' = [email EXCEPT ![i] = Normalize(a)]
      BY <2>2 DEF UpdateEmail
    <3>2. Stored \subseteq Stored'
      BY <3>1, NormalizeType, AccountsConstants DEF Stored
    <3> QED BY <1>b, <2>2, <3>1, <3>2 DEF WriteMove, Calls
  <2>3. CASE UpdateMe(p, i, a)
    BY <2>1, <2>2, <2>3 DEF UpdateMe
  <2>4. CASE UpdateUser(p, i, a)
    BY <2>1, <2>2, <2>4 DEF UpdateUser
  <2> QED BY <1>4, <2>3, <2>4
<1>5. ASSUME NEW p \in Requests, UpdateName(p) PROVE NameMove(p)
  BY <1>5, <1>g DEF UpdateName, NameMove
<1>6. ASSUME NEW p \in Requests, NEW ids \in SUBSET Ids, ResolveUsers(p, ids) PROVE PlainMove(p)
  BY <1>6, <1>b DEF ResolveUsers, PlainMove, At, Calls
<1>7. ASSUME NEW p \in Requests, NEW i \in Ids, ResolveOne(p, i) PROVE PlainMove(p)
  <2>1. /\ \A k \in Requests \ {p} : req'[k] = req[k]
        /\ req[p].pc = "find" /\ req'[p].pc = "find"
    BY <1>7 DEF ResolveOne, Request, At
  <2> QED BY <1>7, <2>1 DEF ResolveOne, PlainMove
<1>8. ASSUME NEW i \in Ids, DeleteUser(i) PROVE ProfileMove
  BY <1>8 DEF DeleteUser, ProfileMove, Stored
<1>9. ASSUME NEW enabled \in BOOLEAN, UpdateRegistration(enabled) PROVE ProfileMove
  BY <1>9 DEF UpdateRegistration, ProfileMove, Stored
<1>10. CASE \E i \in Ids : DeleteUser(i)
  BY <1>8, <1>10
<1>11. CASE \E enabled \in BOOLEAN : UpdateRegistration(enabled)
  BY <1>9, <1>11
<1>12. CASE \E p \in Requests :
       \/ \E a \in Address : RegisterRead(p, a)
       \/ \E i \in Ids : RegisterInsert(p, i)
       \/ RegisterConflict(p) \/ UpdateName(p) \/ Load(p) \/ ResolveDone(p) \/ Abort(p)
       \/ \E i \in Ids, a \in Address : UpdateMe(p, i, a) \/ UpdateUser(p, i, a)
       \/ \E ids \in SUBSET Ids : ResolveUsers(p, ids)
       \/ \E i \in Ids : ResolveOne(p, i)
  <2> PICK p \in Requests :
       \/ \E a \in Address : RegisterRead(p, a)
       \/ \E i \in Ids : RegisterInsert(p, i)
       \/ RegisterConflict(p) \/ UpdateName(p) \/ Load(p) \/ ResolveDone(p) \/ Abort(p)
       \/ \E i \in Ids, a \in Address : UpdateMe(p, i, a) \/ UpdateUser(p, i, a)
       \/ \E ids \in SUBSET Ids : ResolveUsers(p, ids)
       \/ \E i \in Ids : ResolveOne(p, i)
    BY <1>12
  <2>1. \/ PlainMove(p) \/ NameMove(p)
        \/ \E i \in Ids : WriteMove(p, i) \/ InsertMove(p, i)
    BY <1>1, <1>2, <1>3, <1>4, <1>5, <1>6, <1>7
  <2> QED BY <2>1 DEF ProfileMove
<1> QED BY <1>10, <1>11, <1>12 DEF Next

LEMMA MInvNext == MInv /\ [HNext]_hvars => NamesOfAccounts' /\ ProfilesKept'
<1> DEFINE Kept(i) == LET q == email_by[i]
                      IN  q \in Requests =>
                            Settled(i, q) /\ (req[q].kind # "update_me" => Unmixed(i, q))
           Goal == NamesOfAccounts' /\ \A i \in Ids : Kept(i)'
<1> SUFFICES ASSUME MInv, [HNext]_hvars PROVE Goal
  BY DEF ProfilesKept
<1>0. AccountsTypeOK /\ NamesOfAccounts /\ \A i \in Ids : Kept(i)
  BY DEF MInv, ProfilesKept
<1>c. /\ \A i \in unused : email[i] = NoAddress
      /\ NoRequest \notin Requests /\ Stored \subseteq Ids /\ Stored \cap unused = {}
      /\ unused \subseteq Ids /\ name \in [Ids -> Requests \cup {NoRequest}]
  BY <1>0, AccountsConstants DEF AccountsTypeOK, Stored
<1>1. CASE HNext
  <2>0. ProfileMove /\ AccountsTypeOK
    BY <1>0, <1>1, ProfileMoves DEF HNext
  <2>o. /\ overlaps \subseteq overlaps'
        /\ \A q, p \in Requests :
             At(q, "update_name")' /\ At(p, "update_name")' => {q, p} \in overlaps'
    BY <1>1 DEF HNext, At
  <2>1. ASSUME NEW p \in Requests, PlainMove(p) PROVE Goal
    <3>1. NamesOfAccounts'
      BY <1>0, <2>1 DEF PlainMove, NamesOfAccounts, At
    <3>2. ASSUME NEW i \in Ids PROVE Kept(i)'
      <4>1. ~ (i \in Stored' /\ WritesEmail(p, i))
        <5>1. Stored' = Stored
          BY <2>1 DEF PlainMove, Stored
        <5>2. ~ RegisterInsert(p, i) \/ i \notin Stored
          BY <1>c DEF RegisterInsert
        <5> QED BY <2>1, <5>1, <5>2 DEF PlainMove, WritesEmail
      <4>2. \/ email_by'[i] = NoRequest
            \/ email_by'[i] = email_by[i]
        BY <1>1, <2>0, <2>1, <4>1, WriterStep DEF PlainMove
      <4>3. Stored' = Stored /\ name'[i] = name[i]
        BY <2>1 DEF PlainMove, Stored
      <4>4. Kept(i)
        BY <1>0
      <4>5. ASSUME email_by[i] \in Requests, email_by'[i] = email_by[i]
            PROVE  Kept(i)'
        <5> DEFINE q == email_by[i]
        <5>1. Settled(i, q)
          BY <4>4, <4>5
        <5>2. Settled(i, q)' /\ req'[q].kind = req[q].kind
          BY <2>1, <4>3, <4>5, <5>1 DEF PlainMove, Settled, At
        <5>3. Unmixed(i, q) => Unmixed(i, q)'
          BY <2>1, <2>o, <4>3, <4>5, <5>1 DEF PlainMove, Unmixed, Settled, At
        <5> QED BY <4>4, <4>5, <5>2, <5>3
      <4> QED BY <1>c, <4>2, <4>5
    <3> QED BY <3>1, <3>2
  <2>2. ASSUME NEW p \in Requests, NameMove(p) PROVE Goal
    <3>1. NamesOfAccounts'
      BY <1>0, <2>2 DEF NameMove, NamesOfAccounts, At
    <3>2. ASSUME NEW i \in Ids PROVE Kept(i)'
      <4>1. ~ (i \in Stored' /\ WritesEmail(p, i))
        BY <2>2 DEF NameMove, WritesEmail, RegisterInsert, At
      <4>2. \/ email_by'[i] = NoRequest
            \/ email_by'[i] = email_by[i]
        BY <1>1, <2>0, <2>2, <4>1, WriterStep DEF NameMove
      <4>3. Stored' = Stored /\ name'[i] = IF i \in req[p].id \cap Stored THEN p ELSE name[i]
        BY <2>2 DEF NameMove, Stored
      <4>4. Kept(i)
        BY <1>0
      <4>5. ASSUME email_by[i] \in Requests, email_by'[i] = email_by[i]
            PROVE  Kept(i)'
        <5> DEFINE q == email_by[i]
        <5>1. Settled(i, q)
          BY <4>4, <4>5
        <5>2. Settled(i, q)' /\ req'[q].kind = req[q].kind
          BY <2>2, <4>3, <4>5, <5>1 DEF NameMove, Settled, At
        <5>3. ASSUME Unmixed(i, q) PROVE Unmixed(i, q)'
          <6>1. \A k \in Requests : At(k, "update_name")' /\ i \in req'[k].id =>
                  k = q \/ {q, k} \in overlaps'
            BY <2>2, <2>o, <5>3 DEF NameMove, Unmixed, At
          <6>2. CASE name'[i] = p
            <7>1. i \in req[p].id \/ name[i] = p
              BY <4>3, <6>2
            <7>2. ASSUME i \in req[p].id PROVE p = q \/ {q, p} \in overlaps
              BY <2>2, <5>3, <7>2 DEF NameMove, Unmixed
            <7>3. ASSUME i \notin req[p].id, p # q, req'[q].pc \in {"load", "ok", "not_found"}
                  PROVE  {q, p} \in overlaps
              <8>1. name[i] = p /\ req'[q] = req[q]
                BY <2>2, <4>5, <7>1, <7>3 DEF NameMove
              <8> QED BY <5>3, <7>3, <8>1 DEF Unmixed
            <7> QED BY <2>o, <4>5, <6>1, <6>2, <7>2, <7>3 DEF Unmixed
          <6>3. CASE name'[i] # p
            <7>1. name'[i] = name[i] /\ i \notin req[p].id
              BY <4>3, <5>1, <6>3 DEF Settled
            <7>2. p # q
              BY <2>2, <5>1, <7>1 DEF NameMove, Settled
            <7> QED BY <2>2, <2>o, <4>5, <5>3, <6>1, <7>1, <7>2 DEF NameMove, Unmixed
          <6> QED BY <6>2, <6>3
        <5> QED BY <4>4, <4>5, <5>2, <5>3
      <4> QED BY <1>c, <4>2, <4>5
    <3> QED BY <3>1, <3>2
  <2>3. ASSUME NEW p \in Requests, NEW i0 \in Ids, WriteMove(p, i0) PROVE Goal
    <3>1. NamesOfAccounts'
      BY <1>0, <1>c, <2>3 DEF WriteMove, NamesOfAccounts, At
    <3>2. ASSUME NEW i \in Ids PROVE Kept(i)'
      <4>1. WritesEmail(p, i) => i = i0
        BY <2>3 DEF WriteMove, WritesEmail, RegisterInsert, At
      <4>2. WritesEmail(p, i0)
        BY <2>3 DEF WriteMove, WritesEmail
      <4>3. Kept(i)
        BY <1>0
      <4>4. CASE i \in Stored' /\ email_by'[i] = email_by[i] /\ ~ WritesEmail(p, i)
        <5>1. i # i0
          BY <4>2, <4>4
        <5>2. ASSUME email_by[i] \in Requests PROVE Kept(i)'
          <6> DEFINE q == email_by[i]
          <6>1. Settled(i, q) /\ p # q
            BY <2>3, <4>3, <5>2 DEF WriteMove, Settled, At
          <6>2. Settled(i, q)' /\ req'[q] = req[q]
            BY <2>3, <4>4, <5>2, <6>1 DEF WriteMove, Settled, At
          <6>3. Unmixed(i, q) => Unmixed(i, q)'
            BY <2>3, <2>o, <4>4, <5>1, <5>2, <6>1, <6>2 DEF WriteMove, Unmixed, At
          <6> QED BY <4>3, <4>4, <5>2, <6>2, <6>3
        <5> QED BY <4>4, <5>2
      <4>5. CASE i \in Stored' /\ email_by'[i] = p /\ WritesEmail(p, i)
        <5>1. i = i0
          BY <4>1, <4>5
        <5>2. Settled(i, p)'
          BY <2>3, <4>5, <5>1 DEF WriteMove, Settled, At
        <5>3. req'[p].kind # "update_me" => Unmixed(i, p)'
          <6> SUFFICES ASSUME req'[p].kind # "update_me" PROVE Unmixed(i, p)'
            OBVIOUS
          <6>1. req'[p].pc = "update_name"
            BY <2>3 DEF WriteMove
          <6> QED BY <2>o, <6>1 DEF Unmixed, At
        <5> QED BY <4>5, <5>2, <5>3
      <4> QED BY <1>1, <1>c, <2>0, <2>3, <4>4, <4>5, WriterStep DEF WriteMove
    <3> QED BY <3>1, <3>2
  <2>4. ASSUME NEW p \in Requests, NEW i0 \in Ids, InsertMove(p, i0) PROVE Goal
    <3>1. NamesOfAccounts'
      BY <1>0, <2>4 DEF InsertMove, NamesOfAccounts, At
    <3>2. ASSUME NEW i \in Ids PROVE Kept(i)'
      <4>1. WritesEmail(p, i) => i = i0
        <5>1. RegisterInsert(p, i) => i \in unused /\ unused' = unused \ {i}
          BY DEF RegisterInsert
        <5> QED BY <2>4, <5>1 DEF InsertMove, WritesEmail, At
      <4>3. Kept(i)
        BY <1>0
      <4>4. CASE i \in Stored' /\ email_by'[i] = email_by[i] /\ ~ WritesEmail(p, i)
        <5>2. ASSUME email_by[i] \in Requests PROVE Kept(i)'
          <6> DEFINE q == email_by[i]
          <6>0. i # i0
            BY <1>c, <2>4, <4>3, <5>2 DEF InsertMove, Settled
          <6>1. Settled(i, q) /\ p # q
            BY <2>4, <4>3, <5>2 DEF InsertMove, Settled, At
          <6>2. Settled(i, q)' /\ req'[q] = req[q]
            BY <2>4, <4>4, <5>2, <6>1 DEF InsertMove, Settled, At
          <6>3. name'[i] = name[i]
            BY <1>c, <2>4, <6>0 DEF InsertMove
          <6>4. Unmixed(i, q) => Unmixed(i, q)'
            BY <2>4, <2>o, <4>4, <5>2, <6>1, <6>2, <6>3 DEF InsertMove, Unmixed, At
          <6> QED BY <4>3, <4>4, <5>2, <6>2, <6>4
        <5> QED BY <4>4, <5>2
      <4>5. CASE i \in Stored' /\ email_by'[i] = p /\ WritesEmail(p, i)
        <5>1. i = i0
          BY <4>1, <4>5
        <5>2. Settled(i, p)'
          BY <2>4, <4>5, <5>1 DEF InsertMove, Settled, At
        <5>3. name'[i] = p
          BY <1>c, <2>4, <5>1 DEF InsertMove
        <5>4. \A k \in Requests : At(k, "update_name")' => i \notin req'[k].id
          BY <1>0, <2>4, <5>1 DEF InsertMove, NamesOfAccounts, At
        <5>5. Unmixed(i, p)'
          BY <4>5, <5>3, <5>4 DEF Unmixed
        <5> QED BY <4>5, <5>2, <5>5
      <4> QED BY <1>1, <1>c, <2>0, <2>4, <4>4, <4>5, WriterStep DEF InsertMove
    <3> QED BY <3>1, <3>2
  <2>5. CASE /\ UNCHANGED <<unused, req>>
             /\ \A i \in Stored' : i \in Stored /\ name'[i] = name[i]
    <3>1. NamesOfAccounts'
      BY <1>0, <2>5 DEF NamesOfAccounts, At
    <3>2. ASSUME NEW i \in Ids PROVE Kept(i)'
      <4>1. \/ email_by'[i] = NoRequest
            \/ i \in Stored' /\ email_by'[i] = email_by[i]
        BY <1>1, <2>0, <2>5, StillStep
      <4>2. Kept(i)
        BY <1>0
      <4>3. ASSUME i \in Stored', email_by'[i] = email_by[i], email_by[i] \in Requests
            PROVE  Kept(i)'
        <5> DEFINE q == email_by[i]
        <5>1. Settled(i, q) => Settled(i, q)'
          BY <2>5, <4>3 DEF Settled, At
        <5>2. Unmixed(i, q) => Unmixed(i, q)'
          BY <2>5, <2>o, <4>3 DEF Unmixed, At
        <5>3. req' = req
          BY <2>5
        <5> QED BY <4>2, <4>3, <5>1, <5>2, <5>3
      <4> QED BY <1>c, <4>1, <4>3
    <3> QED BY <3>1, <3>2
  <2> QED BY <2>0, <2>1, <2>2, <2>3, <2>4, <2>5 DEF ProfileMove
<1>2. CASE UNCHANGED hvars
  BY <1>0, <1>2 DEF hvars, vars, history, NamesOfAccounts, Settled, Unmixed, Stored, At
<1> QED BY <1>1, <1>2

\* Whatever updates interleave, deletions and failures included, an account
\* shows the address of an update that was answered with the name of another one
\* only if both were writing at the same time.
THEOREM OverlapsMixProfiles == HSpec => []OnlyOverlapsMixProfiles
<1>1. HInit => MInv
  <2>1. HInit => \A q \in Requests : req[q].pc = "new"
    BY DEF HInit, Init, NewRequest
  <2> QED BY <2>1, TypeInit, AccountsConstants
          DEF HInit, Init, MInv, NamesOfAccounts, ProfilesKept, At
<1>2. MInv /\ [HNext]_hvars => MInv'
  BY MInvNext, Step DEF MInv, HNext, hvars
<1>3. MInv => OnlyOverlapsMixProfiles
  <2> SUFFICES ASSUME MInv, NEW i \in Stored, email_by[i] \in Requests,
                      req[email_by[i]].kind # "update_me", Ended(email_by[i])
               PROVE  name[i] = email_by[i] \/ {email_by[i], name[i]} \in overlaps
    BY DEF OnlyOverlapsMixProfiles
  <2>1. Settled(i, email_by[i]) /\ Unmixed(i, email_by[i])
    BY DEF MInv, ProfilesKept, Stored
  <2> QED BY <2>1 DEF Settled, Unmixed, Ended, Answers
<1> QED BY <1>1, <1>2, <1>3, PTL DEF HSpec
=============================================================================
