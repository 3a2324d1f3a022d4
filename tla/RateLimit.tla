------------------------------ MODULE RateLimit ------------------------------
(***************************************************************************)
(* One policy of RateLimiters: login, forgot or refresh (whose key has no  *)
(* address: one mailbox).                                                  *)
(*                                                                         *)
(* The limiter (governor, external) keeps for every key the instant at     *)
(* which the requests it admitted are paid off, one cell each; it lives in *)
(* memory.  The instants are ticks of the monotonic clock.                 *)
(***************************************************************************)
EXTENDS Integers

CONSTANTS
  Ips,         \* addresses of peers and in headers
  Trusted,     \* AUTH_TRUSTED_PROXIES
  NoIp,        \* header X-Client-Ip that is absent or no address
  Mailboxes,   \* what the address in a request designates
  Burst,       \* AUTH_RATE_LIMIT_..._MAX
  Window,      \* AUTH_RATE_LIMIT_..._WINDOW_SECS, in ticks
  Second,      \* ticks in a second
  Free,        \* a key the limiter knows nothing of
  MaxNow       \* the last instant (bound)

ASSUME RateLimitConstants ==
  /\ Trusted \subseteq Ips
  /\ NoIp \notin Ips
  /\ Burst \in Nat \ {0} /\ Window \in Nat \ {0} /\ Second \in Nat \ {0}
  /\ MaxNow \in Nat
  /\ Free \notin Int

Max2(m, n) == IF m >= n THEN m ELSE n

\* quota_for: the window divided by the burst, a second if that is nothing.
Cell == IF Window \div Burst = 0 THEN Second ELSE Window \div Burst

\* How far an admission may run ahead: allow_burst.
Tau == Burst * Cell

Address == [mailbox : Mailboxes, caps : BOOLEAN]

\* The part of a key that is the peer's own or the header's, and the mailbox.
Key == Ips \X Mailboxes

VARIABLES
  now,
  paid,       \* when each key's admissions are paid off
  uncleaned,  \* history: the same in a limiter that forgets no key
  start,      \* history: a moment from which admissions are counted
  admitted,   \* history: admissions of each key's peer since then
  told        \* history: when the refused of each key were told to come back

history == <<uncleaned, start, admitted, told>>

vars == <<now, paid, history>>

-----------------------------------------------------------------------------
(* The limiter.                                                            *)

\* A key that is not known starts one cell late.
Due(due, k) == IF due[k] = Free THEN now + Cell ELSE due[k]

\* Seeded bug: allow_burst of one more.
AdmitsOneMore(due, k) == now >= Due(due, k) - (Burst + 1) * Cell

Admits(due, k) == now >= Due(due, k) - Tau

Charge(due, k) == [due EXCEPT ![k] = Max2(Due(due, k), now) + Cell]

\* wait_time_from, in whole seconds, one at least.
Wait(k) == Due(paid, k) - Tau - now

\* Seeded bug: always one second.
RetryAfterOne(k) == 1

RetryAfter(k) == Max2(Wait(k) \div Second, 1)

-----------------------------------------------------------------------------
(* The service.                                                            *)

\* Seeded bug: the header of any peer is believed.
BelieveHeader(peer, header) == IF header # NoIp THEN header ELSE peer

\* resolve: the header of a trusted proxy counts.
Resolve(peer, header) == IF peer \in Trusted /\ header # NoIp THEN header ELSE peer

KeyOf(peer, header, address) == <<Resolve(peer, header), address.mailbox>>

Nothing == [k \in Key |-> Free]

Nobody == [k \in Key |-> 0]

Init ==
  /\ now = 0 /\ start = 0
  /\ paid = Nothing /\ uncleaned = Nothing /\ told = Nothing
  /\ admitted = Nobody

\* enforce lets the request through.  Admissions are counted for the peer that
\* connected, whatever it wrote in the header.
Enforce(peer, header, address) ==
  LET k == KeyOf(peer, header, address)
  IN  /\ Admits(paid, k)
      /\ paid' = Charge(paid, k)
      /\ uncleaned' = Charge(uncleaned, k)
      /\ admitted' = [admitted EXCEPT ![<<peer, address.mailbox>>] = @ + 1]
      /\ told' = [told EXCEPT ![k] = Free]
      /\ UNCHANGED <<now, start>>

\* 429, with Retry-After.
TooManyRequests(peer, header, address) ==
  LET k == KeyOf(peer, header, address)
  IN  /\ ~ Admits(paid, k)
      /\ told' = [told EXCEPT ![k] = now + RetryAfter(k) * Second]
      /\ UNCHANGED <<now, paid, uncleaned, start, admitted>>

\* Seeded bug: the task empties the limiter.
CleanupAll ==
  /\ paid' = Nothing
  /\ UNCHANGED <<now, history>>

\* retain_recent, by the task that wakes up every 60 s: it forgets the keys that
\* are paid off.
Cleanup ==
  /\ paid' = [k \in Key |-> IF paid[k] # Free /\ paid[k] <= now THEN Free ELSE paid[k]]
  /\ UNCHANGED <<now, history>>

\* The process starts again and knows no key.
Restart ==
  /\ paid' = Nothing /\ uncleaned' = Nothing /\ told' = Nothing
  /\ admitted' = Nobody
  /\ start' = now
  /\ UNCHANGED now

Tick ==
  /\ now < MaxNow
  /\ now' = now + 1
  /\ UNCHANGED <<paid, history>>

\* Counting begins at any moment.
Count ==
  /\ start' = now
  /\ admitted' = Nobody
  /\ UNCHANGED <<now, paid, uncleaned, told>>

Next ==
  \/ \E peer \in Ips, header \in Ips \cup {NoIp}, address \in Address :
       Enforce(peer, header, address) \/ TooManyRequests(peer, header, address)
  \/ Cleanup
  \/ Restart
  \/ Tick
  \/ Count

Spec == Init /\ [][Next]_vars

-----------------------------------------------------------------------------
(* Properties.                                                             *)

\* Instants keep their shape; no key owes more than the burst and one cell, the
\* one of the request that was just let through.
RateLimitTypeOK ==
  /\ now \in 0..MaxNow
  /\ start \in 0..now
  /\ paid \in [Key -> {Free} \cup Nat]
  /\ uncleaned \in [Key -> {Free} \cup Nat]
  /\ admitted \in [Key -> Nat]
  /\ told \in [Key -> {Free} \cup Nat]
  /\ \A k \in Key : paid[k] # Free => paid[k] <= now + Tau + Cell

\* A peer that is no trusted proxy gets no more through for one mailbox, in any
\* stretch of time without a restart, than the burst, one more, and what the
\* stretch replenishes, however it writes the address and its headers and whenever
\* keys are forgotten.  Each mailbox it names has a key and a bound of its own.
AdmissionsBounded ==
  \A k \in Key : k[1] \notin Trusted =>
    admitted[k] * Cell <= (now - start) + Tau + Cell

\* Forgetting keys never lets a request through that would have been refused.
CleanupOnlyTightens ==
  \A k \in Key : ~ Admits(uncleaned, k) => ~ Admits(paid, k)

\* Who was refused and comes back a second later than Retry-After says is let
\* through, unless another request of the key was before it: the wait is cut to
\* whole seconds.
RetryAfterNearlySuffices ==
  \A k \in Key : told[k] # Free /\ now >= told[k] + Second => Admits(paid, k)
=============================================================================
