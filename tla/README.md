# A TLA+ verification of CH-Api-Authenticator

CH-Api-Authenticator is a Rust / Axum / MongoDB service that authenticates the
users of several portals. One process serves every request; each handler is a
tokio task, so handlers interleave at every `.await`, and almost every `.await`
is a MongoDB call. MongoDB makes a call on one document atomic and nothing more:
no transaction is used, `update_many` and `delete_many` work document by
document, and a handler that makes two calls can be overtaken, fail or be
dropped (client gone, process killed) between them. These models are about what
the collections can look like then.

## 1. The parts of the system

| Component | State | Operations | What is hard | What makes it correct |
|---|---|---|---|---|
| Sessions (`handlers/login.rs`, `handlers/session.rs`, `repository/refresh_tokens.rs`) | `refresh_tokens`: hash, user, family, expiry, `revoked` | login, refresh (rotation, reuse detection), logout, `revoke_family`, `revoke_all_for_user`, TTL index | rotation is one atomic update, all the rest of a refresh is separate calls; revocation races rotation; lost answers are retried | one usable token per family, a closed family stays closed, only requests that read the account earlier escape a change to it |
| Account administration (`handlers/admin.rs`, `handlers/me.rs`, `repository/users.rs`) | `users`: email, password hash, roles, status, whitelist | status, whitelist, roles, profile, password, deletion | administrators race the handlers that read the account once | checks are made on a document that was true at some moment of the request |
| Passwords (`handlers/password.rs`, `repository/reset_tokens.rs`, `services/missive.rs`) | `password_reset_tokens`, emails in flight | change, forgot, reset | delete-then-insert, token consumed before the password is stored, revocation errors swallowed, emails reordered or lost | a link works at most once; after a change the old password and old sessions are gone |
| Registration and settings (`handlers/register.rs`, `handlers/settings.rs`) | the registration toggle, the unique index on emails | register, toggle, profile update in two calls | toggle read before a slow hash | one account per email |
| Role catalogue and startup (`handlers/roles.rs`, `repository/roles.rs`, `main.rs`) | `roles` | create, delete, assign, seeding at every start | check of the catalogue then assignment; crash during the seeding | portal roles always exist once the service listens |
| Access tokens (`services/jwt.rs`, `handlers/validate.rs`, `middleware/auth.rs`) | none: signed claims | issue, validate | claims outlive what they describe | staleness bounded by the token's life, address binding |
| Rate limiting (`services/rate_limit.rs`, `services/client_ip.rs`) | the instant at which each key is paid off, in memory | enforce, cleanup every 60 s | boundary of the window, cleanup races requests, headers and spellings that change the key | the burst, one more and what time replenishes; cleanup admits nothing more; Retry-After holds |
| Deletion events (`services/relay.rs`) | MQTT channel of 16, broker session | publish, reconnect | full channel, crash after the deletion, credential that expires | at most one event per deletion, none without a deletion |
| Listing (`handlers/admin.rs`, `handlers/internal.rs`) | none | pagination | 64-bit arithmetic, count and find not atomic | page windows partition the list |
| Analytics, configuration, cookies, logging, health | | | | pure I/O, formatting or wiring |

Components meet in the collections: login and refresh read `users` and write
`refresh_tokens`; password changes write `users` and revoke `refresh_tokens`;
administrators write `users` only, whatever tokens are stored. The start of the
process writes `roles` and `users` before it listens. Access tokens carry what
login and refresh read of `users` to `/validate` and to the administrator's
extractor, which read nothing. `Passwords` is composed with `Sessions`; each of the
other modules holds the part of `users` it depends on and lets the rest of the
service change it at any moment.

## 2. The modules

| Module | What it is |
|---|---|
| `TokenFamily` | abstract specification: the phases of a family of refresh tokens |
| `Sessions` | login, refresh, logout, the administrator's updates, expiry and failures, call by call |
| `SessionsHistory` | `Sessions` with history variables that remember which revocations overlapped a refresh |
| `ReuseHistory` | `Sessions` with the families in which a reuse was detected |
| `MCSessions`, `MCReuse` | TLC instances of `SessionsHistory` and `ReuseHistory` |
| `SessionsProofs` | type correctness, exclusive families, stale requests, final revocations, and that `Sessions` implements `TokenFamily`: proofs for all constants |
| `Passwords` | extends `Sessions`: change, forgot, reset, the administrator's update, reset links and their emails, `revoke_all_for_user` |
| `ResetLinksHistory` | `Passwords` with the pairs of forgot requests that were in flight together |
| `PasswordsHistory` | `Passwords` with the password each session rests on |
| `MCResetLinks`, `MCPasswords` | TLC instances of `ResetLinksHistory` and `PasswordsHistory` |
| `PasswordsProofs` | reset links serve once and coexist by concurrency only; which sessions a change ends; password changes keep what is proved of `Sessions` |
| `DeletionEvents` | abstract specification: what the bus may see of an account's deletion |
| `UserDeletion` | `DELETE /users/{id}`, the channel to the MQTT client, its task, lost connections, the credential, restarts |
| `UserDeletionHistory` | `UserDeletion` with the events that a failure may have lost, and whether the process lost a connection it had |
| `Roles` | the role catalogue: every start, and the handlers that create, delete and assign roles |
| `RolesHistory` | `Roles` with the names that left the catalogue while each assignment ran, and the portals a sub-role shadowed when they were seeded |
| `Accounts` | registration and its switch, profile updates, resolution of ids, deletion |
| `AccountsHistory` | `Accounts` with what the requests overlapped |
| `AccessTokens` | issue and validation of access tokens while their accounts change; durations in ticks |
| `RateLimit` | one policy: keys, trusted proxies, admissions, Retry-After, cleanup, restarts |
| `Listing` | pages of the accounts while these come, go and change status; the words of `paginate` |
| `ListingHistory` | `Listing` with a client that walks over the pages |
| `MCUserDeletion`, `MCRoles`, `MCAccounts`, `MCAccessTokens`, `MCRateLimit`, `MCListing` | TLC instances, of the history module where there is one |
| `UserDeletionProofs`, `RolesProofs`, `AccountsProofs`, `AccessTokensProofs`, `RateLimitProofs`, `ListingProofs` | theorems about these modules, for all constants |

A module `XHistory` only adds variables that remember what happened: its steps
are those of `X`. The runs explore it, so that the properties of `X` and those about
its history are checked together.

### How the state corresponds to the code

*Requests.* `req[r]` is one handler in flight. `req[r].pc` names the repository
call it makes next (`add_allowed_ip`, `record`, `create`, `find_one`,
`find_by_id`, `revoke_family`, `update_many`); an action is that call and the
computation on its result up to the next call. The first call of a handler is
the action that starts it. A handler that refuses a request without having
written anything leaves the state unchanged and is not written down: every
refusal is a stuttering step. `Abort` ends a handler at any call: a database
error (answered 500, or swallowed by `.ok()`, `unwrap_or(0)` or an `if let
Err` that only logs), a client that disconnects (axum drops the task), or a
killed process (all requests abort). A call whose effect took place but whose
answer was lost is that call's action followed by `Abort`; a call still running
in the database after its handler was dropped is a handler that aborts later.

*Tokens.* `tokens` is the `refresh_tokens` collection as a function over all the
tokens that may be issued. Hashes, cookies and random values are not modelled: a
token is its own name, and `find_by_hash` of a string that was never issued
finds nothing. `family_id` is named by the first token of the family. `doc` is
`"purged"` once the TTL index removed the document.

*Accounts.* `users[u]` holds what sessions depend on. `allowed_ips` is the set
of modelled addresses its entries cover.

*update_many* is `RevokeStart` (which notes the matching documents present at
that moment), `RevokeOne` (one document at a time) and `RevokeDone` (once all
the noted documents were reached). Documents stored while it runs may be
reached or missed.

*Jobs.* In `Passwords` a job is one request to the password handlers, with a
`pc` like that of a request; it serves once, so that passwords and links can be
named by the job that made them: `passwords[u]` is the job whose password `u`
has, `reset_tokens[x]` and `mails[x]` are the link and the email of the forgot
request `x`. `job[j].link` is kept when the job is done, which lets
`OneResetPerLink` speak of all the resets of an execution. `todo` and `links` are
the documents `update_many` and `delete_many` noted. An email is sent by a
detached task: it is delivered or lost, in any order, and only a delivered link
is ever presented.

*Deletion.* `req[q].pc` is "publish" from `delete_one` to the return of
`client.publish`, which waits while `channel` is full. `unacked` are the events
that the client took from the channel and the broker has not acknowledged; what
rumqttc does with the channel and with these when the connection is lost is left
open (kept, sent again, or forgotten at a clean start). An event is named by the
call that published it, as by its random `event_id`; `DeletionEvents` sees the set
of the events about each account. `left` is what remains of
the life of the credential, which only `StartClient` renews.

*Roles.* `phase` is how far `main` has come ("prune" and "seed" are
`ensure_portal_roles`, "bind" follows `seed_admin`); `known` is `Portal::ALL` of
the running release. `delete_many` is `Prune`, one document at a time, and
`PruneDone`. `Restart` is enabled in every state: a kill, or the `exit(1)` of a
start that fails. Names are without blanks; `padded` says that a client wrote
some around one.

*Profiles.* `Accounts` writes an address as a mailbox and whether it has capitals:
`normalize_email` removes these. `name[i]` is the request that gave `i` its name.
A request serves once. `settings` may be absent, which counts as "on".

*Access tokens.* A token is its claims and its age in ticks; `exp` is passed when
the age passes `Ttl`, and accepted until it passes `Ttl + Leeway`, since
`Validation` keeps the library's leeway of 60 s. `ago[u][x]` is a history variable:
how long ago account `u` last held the right `x` (that it exists, a role, an
address it may be used from, any address). A login from an address that is not in
the list of an unrestricted account is two steps before the token is signed, the
read and `AddAllowedIp`: by then the account may be restricted to a list, which the
address then joins.

*Rate limiter.* `paid[k]` is the theoretical arrival time of governor 0.6.3: a
key that is not known starts one cell late, so that a new key gets the burst and
a key that was paid off and not forgotten gets one more. Peers outside `Trusted`
are their own address whatever header they send; behind a trusted proxy the
header counts.

*Pages.* Values of `page` and `skip` are words of `Word` bits, and products wrap
around as in a release build (a debug build panics and answers nothing). The
driver sends `skip` as a signed word and refuses what does not fit. `created_at`
is taken by `User::new`, before the insertion.

### What is abstracted

The texts of passwords (checking one is checking the one stored now; a wrong
password is a refusal; setting the same text again counts as another password), the rate limiter
(a 429 is a refusal), cookies, the access token's claims, roles and logging. The
clock of `create` is read when the document is inserted: the code reads it just
before, a difference smaller than a tick. In the other modules: the policy on passwords
and other validation of texts, the signature of tokens (one is what `issue`
made), payloads and topics, the filter of the list on an address, the creation
of indexes (one step with the start), and the retries inside the drivers.

## 3. What the runs check

| Run | Question | Instance |
|---|---|---|
| `sessions` | `TypeOK`. `QuietRevocationIsFinal`: which revocations are final? `OnlyEarlierReadsEscape`: who can still act for an account that was deleted, disabled or restricted? `ImplementsFairTokenFamily`, `RequestsEnd`: do families settle and requests end, while other requests store tokens under the revocations? | 1 account, 2 requests, 2 tokens, 2 addresses, 2 clock values, fairness |
| `sessions_reuse` | `ReuseClosesFamily`, violated: is a family closed once a reuse was detected? | 1 account, 3 requests, 3 tokens |
| `reset_links` | `PasswordsTypeOK`, `OneResetPerLink`: can a link serve twice, or another account? `OnlyConcurrentLinksCoexist`: when can an account have two links? `JobsEnd`: do jobs end, while others store links under their deletions? | 2 accounts, one of which forgets its password, 3 jobs, 2 clock values, no session, fairness |
| `passwords` | `OneLiveToken`, `OneRotation`, `ImplementsTokenFamily`: can any interleaving of logins, refreshes, logouts, reuse detections, failures and a change of the password give a family two usable tokens, or revive one with none and no refresh in flight? `QuietChangeEndsSessions`: which sessions does a change end? | 1 account, 1 job, 2 requests, 3 tokens |
| `password_change_sessions` | `ChangeEndsSessions`, violated: does a change end all the sessions of earlier passwords? | 1 account, 2 jobs, 2 requests, 2 tokens |
| `deletions` | `DeletionTypeOK`, `OneEventPerDeletion`, `ImplementsDeletionEvents`: what can the bus see of deletions? `OnlyFailuresLoseEvents`: what can lose an event? `ConnectedDeletionsEnd`: does a deletion that waits for room in the channel end? | 3 accounts, 3 calls, channel of 1, a credential of 1 tick, Relay on or off at each start, fairness |
| `relay_reconnects` | `LoopReconnects`, violated: does the loop restore a lost connection? | 1 account, fairness |
| `roles` | `RolesTypeOK`, `PortalRolesWhileListening`, `CatalogueReadable`, `StartRestoresAdmin`: what does a service that listens find, after starts cut short anywhere? `StartEnds`: does the last start end, whatever it finds? `OnlyRacingDeletionsEscape`: which roles outside the catalogue can be assigned? | 2 releases with one common portal, 5 ids, 2 requests, sub-roles with the name of another release's portal and without, names with and without blanks, fairness |
| `accounts` | `AccountsTypeOK`, `OneAccountPerMailbox`: can a mailbox have two accounts? `OnlyOverlapsMixProfiles`: when does an account mix two updates? `OnlyEarlierRequestsRegister`: who registers after the switch? `OnlyFreedAddressesRepeat`: when does an answer show an address twice? | 3 ids, 2 mailboxes, 2 requests of all kinds |
| `tokens` | `TokensTypeOK`, `StalenessBounded`: how old can what `/validate` says be? `AdministratorsRecent`: how long does a demoted administrator administer? `RevokedRightsFade`: can a right be carried from token to token for ever? | 2 accounts, one of which is restricted and deleted, 2 requests, 1 token, `Ttl` and `MaxFlight` of 1, no leeway, fairness |
| `rate_limit` | `RateLimitTypeOK`, `AdmissionsBounded`, `CleanupOnlyTightens`, `RetryAfterNearlySuffices` | burst 2, window 10, 2 ticks a second, 11 instants, a proxy and a client, 1 mailbox |
| `listing` | `OnlyDeparturesHide`, `OnlyLateArrivalsRepeat`, `PagesAddUpToTotal`: what can a walk over pages miss, repeat or not add up to? | 2 accounts, 2 statuses, 2 instants, pages of 1 and 2, parameters out of range, words of 3 bits |

*Bounds.* `Tokens`, `Requests` and `MaxTime` bound the instances; `HasRoom`
starts a request that may store a token only while one is left, so that no
handler waits for a token, which the code never does. Three tokens let a family be
renewed twice, or two families exist at once; two requests, each of which serves
again and again, are a rotation against a second use of the token, a revocation, or
a change of the account. Clocks of two values are used in `sessions`, where tokens expire
between any two calls and are purged. What an `update_many` or `delete_many` competes
with is bounded by the tokens and jobs still to come: the liveness properties say
that a scan ends when others stored documents under it, not that an endless stream of
them would let it end. With three requests and two clock values
`Sessions`, and with two requests and two jobs `PasswordsHistory`, were explored
apart (0.7 and 1.2 million distinct states, no error); the safety of `Sessions`
is proved for all sizes. `Jobs` bounds the password requests; three are a forgot and
two resets of its link, or two forgots and a reset. `reset_links` has no
sessions: nothing a session does touches links. The one job of `passwords` is a change,
or the administrator's update; a reset revokes the sessions by the same three actions
(`RevokeAllStart`, `RevokeAllOne`, `RevokeAllDone`), and the theorem
`QuietChangesEndSessions` is about it too. `Capacity` of one fills the channel
with the first event, and a credential of one tick expires with the first. `Ids` bounds the
documents ever inserted (five roles are two portals, a sub-role and two insertions
after deletions); `Listed` and `Deletable` name the accounts whose addresses change and
that may be deleted: in `tokens` both accounts sign in, administer and demote each
other, and one of them is restricted and deleted; `MaxTokens` and `MaxFlight` bound the access
tokens at one time (a request keeps the claims it was made from, so that two
administrators act at once with a token after the other) and the length of a request, and ages stop one tick above the
last that a property tells apart, so that this run has no other bound on time; a
leeway of one adds states and no case (it was explored apart), for the code only
adds it to the life of a token.
`MaxNow` ends the clock of the rate limiter one tick after a window, when a key
that used its burst was replenished, forgotten and refused again; a window of 10
and a burst of 2 make cells of 5 ticks, which are no whole seconds. One mailbox is enough, for each has
keys of its own and no key reads another's. One page at a
time is enough for lists: pages only read. Two accounts and pages of one and two make
a full page, a short one, an empty one, and an account that leaves or arrives before
another. Words of 3 bits wrap around as 64 do: page 5 of two accounts each does.
Symmetry is used in the safety runs only. Deadlock is
checked in `deletions`, `roles`, `tokens`, `rate_limit` and `listing`; in
`sessions`, `reset_links`, `passwords` and `accounts` an instance that has used all
its tokens, jobs, ids or requests stops, as a service with nothing left to do.

*Fairness.* In `sessions`, weak fairness of `Step(r)`, and in `reset_links` of `JobStep(j)`, the
next step of each handler: tokio
polls every task whose database call has completed, and the MongoDB driver
answers or times out. Nothing is assumed of arrivals, administrators, the clock,
the TTL index or failures. In `UserDeletion`, weak fairness of each handler's next
step, of the client's task (it connects while its credential lasts, and takes
events while connected) and of the broker's receipt; none of disconnections,
restarts or the clock: that the connection stays up is a premise of
`ConnectedDeletionsEnd`, not an assumption. In `Roles`, weak fairness of the start,
which is one task; that no kill comes any more and an id is left are premises of
`StartEnds`, which asks for a service that listens from some moment on: that the
start after the last kill ends, over whatever earlier ones left. In `AccessTokens`, weak fairness of the clock and of the end of each
request.

## 4. What the runs show

*Rotation is exclusive.* `find_one_and_update` with `revoked: false` in its
filter is what makes a family linear: `OneLiveToken` and `OneRotation` hold
whatever else interleaves, and fail as soon as the filter or the atomicity is
weakened.

*Reuse detection does not always close the family* (`sessions_reuse`). A refresh
takes the current token; before it stores the successor, an older token of the
family is presented again. The family is revoked, nothing in it being usable,
the reuse is answered 401, and then the successor is stored, unrevoked. The same
holds for a logout. `QuietRevocationIsFinal` states what the code does ensure:
the revocation is final when no refresh of the family was in flight during it.

*A reset link serves once* (`OneResetPerLink`), and is spent even when the reset
fails after it. *It is not always alone*: two forgots that
both delete before either inserts leave two usable links, although
`tests/api_password_reset.rs` says that a new link replaces the previous one. Two
links coexist in no other way (`OnlyConcurrentLinksCoexist`).

*A password change does not reach sessions being opened*
(`password_change_sessions`). A login that checked the old password, or a refresh
that took its token, stores its session after `revoke_all_for_user`.
`QuietChangeEndsSessions` states what the code ensures: with none of these in
flight during the revocation, the sessions of earlier passwords are over for
good. The administrator's update of a password revokes nothing, and a revocation
that fails is only logged.

*An account change does not reach requests in flight.* By
`OnlyEarlierReadsEscape` those are the only ones that escape it. A disabled
account keeps refreshing: `refresh` never looks at the status.

*A lost connection to the broker is not restored once the first minute is over*
(`relay_reconnects`; the run shows a process that connects, outlives its credential and
then loses the connection): the credential is signed at the start, the loop presents it
for ever. From then on the channel fills, and the deletion that finds it full
waits (`ConnectedDeletionsEnd` promises an answer only if the broker stays
connected). *Events can be lost but not invented*: a deletion has one event
(`OneEventPerDeletion`), an event is lost only to a restart, a dropped handler, a
lost connection or a disabled Relay (`OnlyFailuresLoseEvents`), and the bus sees a
behaviour of `DeletionEvents`.

*A service that listens has its portals' roles* and can read its catalogue,
whatever starts were killed half-way. The properties leave open what the code does
not ensure, against the letter of `tests/api_roles.rs`. A role deleted between its
lookup and the assignment is assigned (in no other way,
`OnlyRacingDeletionsEscape`). A name with blanks around it is found trimmed and
stored with them, and no check of a role recognises it; `OnlyRacingDeletionsEscape`
compares trimmed names. A sub-role with the name of a portal that a later release
adds is taken for that portal's role, keeps its kind, and can be deleted:
`create_role` accepts any name. `PortalRolesWhileListening` exempts the portals that
the running process found shadowed in this way, and no others; the run has such a
name.

*A mailbox has one account*: every write goes through `normalize_email` and the
unique index. Registration after the switch was turned off is left to requests
that had read it before; a profile with the address of one update and the name of
another comes from overlapping or interrupted updates only.

*What an access token says was true recently*: within its life, the leeway and one
request (`StalenessBounded`); whoever administers was an administrator within
that and the length of his own request, and refreshes do not carry a lost right
on (`RevokedRightsFade`).

*The limiter lets through, for each peer and mailbox, the burst, one more and what time
replenishes* (`AdmissionsBounded`; the key of `login.rs` is the peer and the address, so
that a peer that tries many mailboxes has a quota for each); the one more is the key that was paid off and not yet
forgotten. Forgetting keys admits nothing more. Retry-After is right to the
second it cuts.

*A walk over pages* misses an account only if one before it went, and repeats one
only if one before it arrived late or changed status. *The product of `paginate`
wraps around* in a release build: a page far beyond the end can show accounts, which
is the exception `PagesAddUpToTotal` makes.

## 5. What is proved

Every invariant and every action property of the runs that pass is a theorem, for
all values of the constants; so are the refinements `ImplementsTokenFamily` and
`ImplementsDeletionEvents`. Each proof has the same shape: an invariant that is
inductive, lemmas about what one step does to one request or document, one case per
action, and a last step by temporal logic. The history variables only record, so
that the invariant of a module `XHistory` is that of `X` and what ties the record to
the state.

The proofs about sessions and passwords assume `ConstantsAssumption` and, for
`PasswordsProofs`, `PasswordConstants` only (the null values are not members of
their sets, the life of a token is positive, that of a link a natural) and hold for
any sets of accounts, tokens, requests and addresses, finite or not.

*`SessionsProofs`*

* `TypeCorrect`: `Spec => []TypeOK`. `TypeOK` contains `FieldsSet`: a call finds
  the fields it reads, without which the shapes are not inductive (the address
  `AddAllowedIp` adds must be an address).
* `FamiliesExclusive`: `Spec => [](OneLiveToken /\ OneRotation)`. Neither is
  inductive alone. `CreateSession` would break `OneLiveToken` were there a usable
  token left in the family, which `OneRotation` excludes for a refresh; for a
  login the family is new, which takes `FamiliesIssued`: every family in a
  document or a request is one whose first token was issued. `IInv` is their
  conjunction with `TypeOK`.
* `EarlierReads`: `Spec => OnlyEarlierReadsEscape`.
* `SessionsImplementTokenFamily`: `Spec => ImplementsTokenFamily`. Under `IInv`
  each action moves at most one family, along one step of `TokenFamily`.
* `QuietRevocationsAreFinal`: `HSpec => []QuietRevocationIsFinal`. That a quiet
  family has no usable token is not inductive, since a refresh in flight could
  store one: `QuietClosed` says that it is closed as `TokenFamily` understands it,
  and the refinement above that a closed family stays closed. `ScansReach` is what a
  revocation under way needs to close it: while nothing overlapped the scan, every
  usable token of the family is still before it and no refresh holds one.

*`PasswordsProofs`*

* `FamiliesStayExclusive`, `FamiliesStayFamilies`: the same of `PSpec`. A step of
  `Passwords` is a step of `Sessions`, leaves its variables alone, or revokes one
  usable token (`PasswordSteps`); the last preserves `IInv` and closes a family.
* `PasswordsTypeCorrect`: `PSpec => []PasswordsTypeOK`.
* `LinksServeOnce`: `PSpec => []OneResetPerLink`. It needs `LinksOnce`: a link
  becomes usable once, as the last act of its forgot request, and a job takes a
  link only as its first.
* `LinksCoexistByConcurrency`: `LHSpec => []OnlyConcurrentLinksCoexist`, by
  `LinksReached`: the links of the account whose requests a forgot request did not
  overlap are before its deletion while it runs, and none is left when it inserts.
  Insertions are last (`LinksOnce`), so that a link stored meanwhile is of a
  request that was recorded as overlapping.
* `QuietChangesEndSessions`: `PHSpec => []QuietChangeEndsSessions`. Two facts are
  about all steps: what a request or a usable token rests on was in flight or
  usable before, or is the account's password now (`InFlightStep`, `RestsStep`), and
  a password that was replaced never comes back, since each job stores its own once
  (`FreshJobs`, `Replaced`). `RevocationReaches` says of a revocation that nothing
  overtook that all it must end is still before it, and `OverEnded` that nothing in
  flight or usable rests on a password that is over; the second is kept by the two
  facts and made true by the first.

*The other parts*

* `UserDeletionProofs`: `DeletionTypeCorrect`, `DeletionsPublishOnce`,
  `DeletionsImplementEvents`. The invariant adds to `OneEventPerDeletion` that what
  is in the channel, unacknowledged or received was published, and that a call past
  its deletion knows its account: without it `Receive` could announce an account
  that is present. `LossesAreFailures`: `HSpec => []OnlyFailuresLoseEvents`, by
  `NotLost` (the event of a call past its publication is in the channel,
  unacknowledged, received or exposed) and `DownExposed` (what the client forgets
  when it connects again was exposed when the connection was lost).
* `RolesProofs`: `RolesTypeCorrect`; `CatalogueStaysReadable`, by `Pruned` (past the
  pruning every role names a portal of the running release); `PortalRolesSeeded`:
  `HSpec => []PortalRolesWhileListening`, for any names of sub-roles. Its invariant:
  the portals that are not left to seed have their role or were shadowed (`Seeded`),
  and a deletion under way is of no portal's role (`DeletesSubRoles`). `AdminReturns`
  is an action property: a start that ends leaves its administrator.
  `RacingDeletionsOnly`: `HSpec => OnlyRacingDeletionsEscape`, an action property,
  by `CheckedListed`: a name that was looked up is in the catalogue, or left it
  since. It needs no assumption on the releases: whatever leaves the catalogue, a
  deletion or the pruning of a start, is recorded, and a start ends all requests.
* `AccountsProofs`: `AccountsTypeCorrect`, `MailboxesUnique`. Stored addresses are
  normalized and distinct; every step stores a normalized address that is free, or
  none. `EarlierRequestsRegister`: `HSpec => OnlyEarlierRequestsRegister`, an
  action property, by `LateRefused` (no request that began since the switch was
  turned off is at its insertion while it is off). `FreedAddressesRepeat`:
  `HSpec => []OnlyFreedAddressesRepeat`, by `ShownOrFreed` (an account that was
  shown still has the address, or gave it up since) and the uniqueness of
  addresses. `OverlapsMixProfiles`: `HSpec => []OnlyOverlapsMixProfiles`. Its
  invariant speaks of the request that gave an account its address: it is past that
  call and holds the account until it wrote the name (`Settled`), and once it has,
  the name and every name still to be written are its own or of a request it
  overlapped (`Unmixed`). `NamesOfAccounts` is needed beside it: a request that
  writes a name writes it to an account, not to an id that is still to be given.
* `AccessTokensProofs`: `TokensTypeCorrect`, `StalenessIsBounded`,
  `AdministratorsAreRecent`. The invariant bounds, for a request, how long ago its
  account held what it carries by the age of the request (of an administrator's
  request, by that and the life of a token), and for a token by its age and
  `MaxFlight`; ages that reached their last value need a case of their own.
* `RateLimitProofs`: `RateLimitTypeCorrect`, `LimiterBounds`, `CleanupIsSafe`,
  `RetryAfterIsRight`, for every burst, window and set of peers. The admissions of a peer
  are paid by the distance its key's instant has advanced (`Owed`); a limiter
  without cleanup is never ahead of the real one (`UncleanedBehind`). The clock is
  assumed monotonic and governor to compute what `Admits` and `Charge` say.
* `ListingProofs`: `PagesAddUp`, `DeparturesHide`, `LateArrivalsRepeat`, for any
  finite set of accounts and any width of the integers. `created_at` and the id order
  the accounts totally, so that the ranks of `n` accounts are 0 to `n - 1`, each
  once, and a page is the accounts whose ranks are in an interval (`PageSize`):
  these are counted with the library's theorems on cardinalities, without
  induction. `TotalKept` ties the count to the collection as long as nothing came
  or went. The walk needs `SeenBehind` (what was seen ranks below the pages walked,
  unless an arrival pushed it back), `UnseenAhead` (what was not seen ranks above
  them, unless a departure moved it up) and `PagesFull` (all the pages walked so far
  were full, so that the next one begins at most at the number of accounts: it is
  why the product does not wrap in a walk, which jumps to no page).

These modules assume the conditions on their constants that `DeletionConstants`,
`RolesConstants`, `AccountsConstants`, `TokenConstants`, `RateLimitConstants` and
`ListingConstants` name (the runs evaluate them): null values apart, durations
natural numbers, bursts and windows not zero, which `config.rs` refuses, and fewer
accounts than words, which is what `count_documents` assumes when it answers a
`u64`.

Model-checked only: what needs fairness, which these provers cannot reason about
(`RequestsEnd`, `JobsEnd`, `ConnectedDeletionsEnd`, `StartEnds`,
`RevokedRightsFade`, and the liveness that `ImplementsFairTokenFamily` adds to
`ImplementsTokenFamily`), and the three violations.

## 6. Not modelled

* Configuration, cookies, tracing, health, ping, routes and errors: read once at the
  start, or formatting and wiring, without state that two requests share. The
  values `config.rs` accepts for the rate limiter are the assumption on its constants.
* The aggregation of login events: one read-only query; their recording is a step
  of `Sessions`.
* The password policy and its lists of common passwords: validation of an input,
  before any call.
* Argon2, SHA-256, signatures and random tokens, which are assumed to do their work.

What could be added: the composition of `AccessTokens` with `Sessions` (here the
accounts' status and the refresh tokens are left out of it).
