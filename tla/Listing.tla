------------------------------- MODULE Listing -------------------------------
(***************************************************************************)
(* GET /users and /users/pending: pages of the accounts in the order of    *)
(* their creation, while accounts are created, deleted and moved between   *)
(* statuses.                                                               *)
(*                                                                         *)
(* One page is asked for at a time: a page only reads.  The filter on the  *)
(* address, which lets one account through, is left out.  A page fits in   *)
(* one batch of the cursor, so that find is one step.                      *)
(***************************************************************************)
EXTENDS Integers, FiniteSets, FiniteSetsExt

CONSTANTS
  Ids,            \* ids of accounts, ordered (bound)
  MaxTime,        \* the last instant of creation (bound)
  Statuses,
  DefaultLimit,   \* DEFAULT_LIMIT (20 in the code)
  MaxLimit,       \* MAX_LIMIT (100 in the code)
  Absent,         \* a parameter that is not given
  Pages, Limits,  \* values of the parameters page and limit
  Word            \* bits of a u64; release builds wrap around

ASSUME ListingConstants ==
  /\ Ids \subseteq Nat /\ IsFiniteSet(Ids)
  /\ Cardinality(Ids) < 2^Word   \* count_documents answers a u64
  /\ MaxTime \in Nat
  /\ "pending_validation" \in Statuses /\ Absent \notin Statuses
  /\ MaxLimit \in Nat \ {0} /\ DefaultLimit \in 1..MaxLimit
  /\ Word \in Nat \ {0}
  /\ Pages \subseteq 0..(2^Word - 1) /\ MaxLimit < 2^Word
  /\ Limits \subseteq Int

VARIABLES
  now,
  created,   \* created_at of each account, -1 while it has none
  stored,    \* accounts in the users collection
  status,
  req        \* the page that is being answered

vars == <<now, created, stored, status, req>>

-----------------------------------------------------------------------------
\* unwrap_or(1).max(1)
PageOf(p) == IF p = Absent THEN 1 ELSE Max({p, 1})

\* unwrap_or(DEFAULT_LIMIT).clamp(1, MAX_LIMIT)
LimitOf(l) == IF l = Absent THEN DefaultLimit ELSE Max({Min({l, MaxLimit}), 1})

\* Seeded bug: the pages overlap.
SkipPages(page, limit) == page - 1

\* Seeded bug: pages are counted from 0.
SkipFromZero(page, limit) == (page * limit) % 2^Word

\* (page - 1) * limit, on a u64.
Skip(page, limit) == ((page - 1) * limit) % 2^Word

Paginate(p, l) ==
  [page |-> PageOf(p), limit |-> LimitOf(l), skip |-> Skip(PageOf(p), LimitOf(l))]

\* The driver sends skip as an i64, and refuses what does not fit.
Representable(n) == n < 2^(Word - 1)

Matching(filter) == {i \in stored : filter \in {Absent, status[i]}}

\* sort created_at, then _id.
Before(i, j) == created[i] < created[j] \/ (created[i] = created[j] /\ i < j)

Rank(i, S) == Cardinality({j \in S : Before(j, i)})

\* skip and limit of find: no limit is written 0.
Page(S, skip, limit) ==
  {i \in S : Rank(i, S) >= skip /\ (limit = 0 \/ Rank(i, S) < skip + limit)}

Filters == Statuses \cup {Absent}

Idle == [pc |-> "idle"]

Init ==
  /\ now = 0
  /\ created = [i \in Ids |-> -1]
  /\ stored = {}
  /\ status = [i \in Ids |-> "pending_validation"]
  /\ req = Idle

-----------------------------------------------------------------------------
(* Accounts.                                                               *)

Tick ==
  /\ now < MaxTime
  /\ now' = now + 1
  /\ UNCHANGED <<created, stored, status, req>>

\* User::new takes the instant, the driver the id.
NewUser(i) ==
  /\ created[i] = -1
  /\ created' = [created EXCEPT ![i] = now]
  /\ UNCHANGED <<now, stored, status, req>>

\* The database has the account, later.
Insert(i) ==
  /\ created[i] # -1
  /\ i \notin stored
  /\ status[i] # "deleted"
  /\ stored' = stored \cup {i}
  /\ UNCHANGED <<now, created, status, req>>

UpdateStatus(i, s) ==
  /\ i \in stored
  /\ status' = [status EXCEPT ![i] = s]
  /\ UNCHANGED <<now, created, stored, req>>

DeleteUser(i) ==
  /\ i \in stored
  /\ stored' = stored \ {i}
  /\ status' = [status EXCEPT ![i] = "deleted"]
  /\ UNCHANGED <<now, created, req>>

-----------------------------------------------------------------------------
(* Pages.                                                                  *)

\* list_users, list_pending (whose filter is pending_validation).
ListUsers(p, l, filter) ==
  /\ req.pc = "idle"
  /\ req' = [pc |-> "count", at |-> Paginate(p, l), filter |-> filter]
  /\ UNCHANGED <<now, created, stored, status>>

\* Seeded bug: the filter is forgotten.
CountAll ==
  /\ req.pc = "count"
  /\ req' = [pc |-> "find", at |-> req.at, filter |-> req.filter,
             total |-> Cardinality(stored)]
  /\ UNCHANGED <<now, created, stored, status>>

Count ==
  /\ req.pc = "count"
  /\ req' = [pc |-> "find", at |-> req.at, filter |-> req.filter,
             total |-> Cardinality(Matching(req.filter))]
  /\ UNCHANGED <<now, created, stored, status>>

Find ==
  /\ req.pc = "find"
  /\ Representable(req.at.skip)
  /\ req' = [pc |-> "page", at |-> req.at, filter |-> req.filter, total |-> req.total,
             users |-> Page(Matching(req.filter), req.at.skip, req.at.limit)]
  /\ UNCHANGED <<now, created, stored, status>>

\* 500: the driver refuses skip, a call fails or the client goes away.
Fail ==
  /\ req.pc \in {"count", "find"}
  /\ req' = Idle
  /\ UNCHANGED <<now, created, stored, status>>

\* The client has its page.
Answer ==
  /\ req.pc = "page"
  /\ req' = Idle
  /\ UNCHANGED <<now, created, stored, status>>

Next ==
  \/ Tick
  \/ \E i \in Ids :
       \/ NewUser(i)
       \/ Insert(i)
       \/ \E s \in Statuses : UpdateStatus(i, s)
       \/ DeleteUser(i)
  \/ \E p \in Pages \cup {Absent}, l \in Limits \cup {Absent}, f \in Filters : ListUsers(p, l, f)
  \/ Count
  \/ Find
  \/ Fail
  \/ Answer

Spec == Init /\ [][Next]_vars
=============================================================================
