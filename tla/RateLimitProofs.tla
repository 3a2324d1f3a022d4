--------------------------- MODULE RateLimitProofs ---------------------------
(***************************************************************************)
(* For every burst, window, set of addresses and order of requests, ticks, *)
(* cleanups and restarts: what the limiter lets through is bounded, no     *)
(* cleanup adds to it, and Retry-After is right to a second.               *)
(***************************************************************************)
EXTENDS RateLimit, TLAPS

Shape ==
  /\ now \in 0..MaxNow
  /\ start \in 0..now
  /\ paid \in [Key -> {Free} \cup Nat]
  /\ uncleaned \in [Key -> {Free} \cup Nat]
  /\ admitted \in [Key -> Nat]
  /\ told \in [Key -> {Free} \cup Nat]

PaidAhead == \A k \in Key : paid[k] # Free => paid[k] <= now + Tau + Cell

\* What was admitted since start is owed.
Owed ==
  \A k \in Key : k[1] \notin Trusted /\ admitted[k] # 0 =>
    start + admitted[k] * Cell <= IF paid[k] = Free THEN now ELSE paid[k]

UncleanedBehind ==
  \A k \in Key :
    IF paid[k] = Free THEN uncleaned[k] = Free \/ uncleaned[k] <= now
                      ELSE uncleaned[k] # Free /\ uncleaned[k] <= paid[k]

ToldEnough ==
  \A k \in Key : told[k] # Free => paid[k] = Free \/ paid[k] - Tau < told[k] + Second

IInv == Shape /\ PaidAhead /\ Owed /\ UncleanedBehind /\ ToldEnough

-----------------------------------------------------------------------------
\* A cell is some ticks, and the burst at least one cell.
LEMMA CellFacts == Cell \in Nat /\ Cell >= 1 /\ Tau \in Nat /\ Tau >= Cell
<1>1. Burst \in Nat /\ Burst >= 1 /\ Window \in Nat /\ Second \in Nat /\ Second >= 1
  BY RateLimitConstants
<1>2. Window \div Burst \in Int /\ Window \div Burst >= 0
  BY <1>1, SMT
<1>3. Cell \in Nat /\ Cell >= 1
  BY <1>1, <1>2, SMT DEF Cell
<1>4. \A b, c \in Nat : b >= 1 => b * c \in Nat /\ b * c >= c
  BY SMT
<1> QED BY <1>1, <1>3, <1>4 DEF Tau

LEMMA OneMoreCell == \A n, c \in Nat : (n + 1) * c = n * c + c /\ n * c \in Nat
BY SMT

\* What a charge does to the key and to the others.
LEMMA Charged ==
  ASSUME NEW due \in [Key -> {Free} \cup Nat], NEW k \in Key, now \in Nat, Admits(due, k)
  PROVE  /\ Charge(due, k) \in [Key -> {Free} \cup Nat]
         /\ Charge(due, k)[k] \in Nat /\ Charge(due, k)[k] # Free
         /\ Charge(due, k)[k] >= now + Cell
         /\ due[k] = Free => Charge(due, k)[k] = now + Cell + Cell
         /\ due[k] # Free => Charge(due, k)[k] = (IF due[k] >= now THEN due[k] ELSE now) + Cell
         /\ Charge(due, k)[k] <= now + Tau + Cell
         /\ \A j \in Key : j # k => Charge(due, k)[j] = due[j]
<1> USE CellFacts, RateLimitConstants
<1> DEFINE next == Max2(Due(due, k), now) + Cell
<1>1. Due(due, k) \in Nat
  BY SMT DEF Due
<1>2. next \in Nat /\ next >= now + Cell
  BY <1>1, SMT DEF Max2
<1>3. next <= now + Tau + Cell
  BY <1>1, SMT DEF Max2, Admits
<1>4. due[k] = Free => next = now + Cell + Cell
  BY SMT DEF Max2, Due
<1>5. due[k] # Free => next = (IF due[k] >= now THEN due[k] ELSE now) + Cell
  BY SMT DEF Max2, Due
<1>6. next # Free
  BY <1>2, SMT
<1> HIDE DEF next
<1>7. Charge(due, k) = [due EXCEPT ![k] = next]
  BY DEF Charge, next
<1> QED BY <1>2, <1>3, <1>4, <1>5, <1>6, <1>7

\* The key of a request, and of its peer.
LEMMA Keys ==
  ASSUME NEW peer \in Ips, NEW header \in Ips \cup {NoIp}, NEW address \in Address
  PROVE  /\ KeyOf(peer, header, address) \in Key
         /\ <<peer, address.mailbox>> \in Key
         /\ peer \notin Trusted => KeyOf(peer, header, address) = <<peer, address.mailbox>>
<1>1. address.mailbox \in Mailboxes
  BY DEF Address
<1>2. Resolve(peer, header) \in Ips /\ (peer \notin Trusted => Resolve(peer, header) = peer)
  BY DEF Resolve
<1> QED BY <1>1, <1>2 DEF KeyOf, Key

-----------------------------------------------------------------------------
LEMMA InitInv == Init => IInv
<1> SUFFICES ASSUME Init PROVE IInv
  OBVIOUS
<1> USE RateLimitConstants, CellFacts
<1>1. Shape
  BY SMT DEF Init, Shape, Nothing, Nobody
<1>2. \A k \in Key : paid[k] = Free /\ uncleaned[k] = Free /\ told[k] = Free /\ admitted[k] = 0
  BY DEF Init, Nothing, Nobody
<1> QED BY <1>1, <1>2 DEF IInv, PaidAhead, Owed, UncleanedBehind, ToldEnough

LEMMA EnforceInv ==
  ASSUME IInv, NEW peer \in Ips, NEW header \in Ips \cup {NoIp}, NEW address \in Address,
         Enforce(peer, header, address)
  PROVE  IInv'
<1> DEFINE k == KeyOf(peer, header, address)
           p == <<peer, address.mailbox>>
<1> USE RateLimitConstants, CellFacts
<1>1. /\ k \in Key /\ p \in Key
      /\ peer \notin Trusted => k = p
  BY Keys
<1>2. /\ Admits(paid, k)
      /\ paid' = Charge(paid, k) /\ uncleaned' = Charge(uncleaned, k)
      /\ admitted' = [admitted EXCEPT ![p] = @ + 1]
      /\ told' = [told EXCEPT ![k] = Free]
      /\ now' = now /\ start' = start
  BY DEF Enforce
<1>3. p[1] = peer
  OBVIOUS
<1> HIDE DEF k, p
<1>4. /\ now \in Nat /\ start \in Nat /\ start <= now
      /\ paid \in [Key -> {Free} \cup Nat] /\ uncleaned \in [Key -> {Free} \cup Nat]
      /\ admitted \in [Key -> Nat] /\ told \in [Key -> {Free} \cup Nat]
  BY SMT DEF IInv, Shape
<1>5. Admits(uncleaned, k)
  BY <1>1, <1>2, <1>4, SMT DEF Admits, Due, IInv, UncleanedBehind
<1>6. /\ paid' \in [Key -> {Free} \cup Nat]
      /\ paid'[k] \in Nat /\ paid'[k] # Free /\ paid'[k] >= now + Cell
      /\ paid[k] = Free => paid'[k] = now + Cell + Cell
      /\ paid[k] # Free => paid'[k] = (IF paid[k] >= now THEN paid[k] ELSE now) + Cell
      /\ paid'[k] <= now + Tau + Cell
      /\ \A j \in Key : j # k => paid'[j] = paid[j]
  BY <1>1, <1>2, <1>4, Charged
<1>7. /\ uncleaned' \in [Key -> {Free} \cup Nat]
      /\ uncleaned'[k] \in Nat /\ uncleaned'[k] # Free
      /\ uncleaned[k] = Free => uncleaned'[k] = now + Cell + Cell
      /\ uncleaned[k] # Free => uncleaned'[k] = (IF uncleaned[k] >= now THEN uncleaned[k] ELSE now) + Cell
      /\ \A j \in Key : j # k => uncleaned'[j] = uncleaned[j]
  BY <1>1, <1>2, <1>4, <1>5, Charged
<1>8. Shape'
  <2>1. admitted' \in [Key -> Nat] /\ told' \in [Key -> {Free} \cup Nat]
    BY <1>1, <1>2, <1>4, SMT
  <2> QED BY <2>1, <1>2, <1>6, <1>7 DEF Shape, IInv
<1>9. PaidAhead'
  BY <1>2, <1>6 DEF PaidAhead, IInv
<1>10. Owed'
  <2> SUFFICES ASSUME NEW j \in Key, j[1] \notin Trusted, admitted'[j] # 0
               PROVE  start + admitted'[j] * Cell <= IF paid'[j] = Free THEN now ELSE paid'[j]
    BY <1>2 DEF Owed
  <2>1. CASE j = p
    <3>1. j = k /\ admitted'[j] = admitted[j] + 1
      BY <2>1, <1>1, <1>2, <1>3, <1>4
    <3>2. (admitted[j] + 1) * Cell = admitted[j] * Cell + Cell /\ admitted[j] * Cell \in Nat
      BY <1>4, OneMoreCell
    <3>3. CASE admitted[j] = 0
      <4>1. admitted'[j] * Cell = Cell
        BY <3>1, <3>3, SMT
      <4> QED BY <3>1, <4>1, <1>4, <1>6, SMT
    <3>4. CASE admitted[j] # 0
      <4> DEFINE a == admitted[j] * Cell
      <4>1. start + a <= IF paid[j] = Free THEN now ELSE paid[j]
        BY <3>4 DEF IInv, Owed
      <4>2. admitted'[j] * Cell = a + Cell /\ a \in Nat
        BY <3>1, <3>2
      <4> HIDE DEF a
      <4>3. start + a + Cell <= paid'[j]
        BY <3>1, <4>1, <4>2, <1>4, <1>6, SMT
      <4> QED BY <3>1, <4>2, <4>3, <1>4, <1>6, SMT
    <3> QED BY <3>3, <3>4
  <2>2. CASE j # p
    <3>1. admitted'[j] = admitted[j]
      BY <2>2, <1>1, <1>2, <1>4
    <3> DEFINE a == admitted[j] * Cell
    <3>2. start + a <= IF paid[j] = Free THEN now ELSE paid[j]
      BY <3>1 DEF IInv, Owed
    <3>3. a \in Nat /\ admitted'[j] * Cell = a
      BY <3>1, <1>4, OneMoreCell
    <3> HIDE DEF a
    <3>4. start + a <= IF paid'[j] = Free THEN now ELSE paid'[j]
      BY <3>2, <3>3, <1>4, <1>6, SMT
    <3> QED BY <3>3, <3>4
  <2> QED BY <2>1, <2>2
<1>11. UncleanedBehind'
  <2>1. paid'[k] # Free /\ uncleaned'[k] # Free /\ uncleaned'[k] <= paid'[k]
    BY <1>1, <1>4, <1>6, <1>7, SMT DEF IInv, UncleanedBehind
  <2> QED BY <2>1, <1>2, <1>6, <1>7 DEF IInv, UncleanedBehind
<1>12. ToldEnough'
  <2>1. told'[k] = Free /\ \A j \in Key : j # k => told'[j] = told[j]
    BY <1>1, <1>2, <1>4
  <2> QED BY <2>1, <1>6 DEF IInv, ToldEnough
<1> QED BY <1>8, <1>9, <1>10, <1>11, <1>12 DEF IInv

LEMMA TooManyInv ==
  ASSUME IInv, NEW peer \in Ips, NEW header \in Ips \cup {NoIp}, NEW address \in Address,
         TooManyRequests(peer, header, address)
  PROVE  IInv'
<1> DEFINE k == KeyOf(peer, header, address)
           wait == paid[k] - Tau - now
           again == now + RetryAfter(k) * Second
<1> USE RateLimitConstants, CellFacts
<1>1. k \in Key
  BY Keys
<1>2. /\ ~ Admits(paid, k)
      /\ told' = [told EXCEPT ![k] = again]
      /\ UNCHANGED <<now, paid, uncleaned, start, admitted>>
  BY DEF TooManyRequests
<1> HIDE DEF k
<1>3. now \in Nat /\ paid \in [Key -> {Free} \cup Nat] /\ told \in [Key -> {Free} \cup Nat]
  BY SMT DEF IInv, Shape
<1>4. paid[k] # Free /\ paid[k] \in Nat
  BY <1>1, <1>2, <1>3, SMT DEF Admits, Due
<1>5. Wait(k) = wait /\ wait \in Int /\ wait > 0
  BY <1>2, <1>3, <1>4, SMT DEF Wait, Admits, Due
<1>6. again \in Nat /\ paid[k] - Tau < again + Second
  <2> DEFINE q == wait \div Second
             r == Max2(q, 1)
  <2>1. \A n, d \in Nat : d >= 1 => n \div d \in Nat /\ n < (n \div d) * d + d
    BY SMT
  <2>2. q \in Nat /\ wait < q * Second + Second
    BY <2>1, <1>5
  <2>3. r \in Nat /\ r >= q
    BY <2>2, SMT DEF Max2
  <2>4. \A m, n, d \in Nat : m >= n => m * d \in Nat /\ m * d >= n * d /\ n * d \in Nat
    BY SMT
  <2>5. again = now + r * Second
    BY <1>5 DEF RetryAfter
  <2> HIDE DEF q, r
  <2> DEFINE s == r * Second
             t == q * Second
  <2>6. s \in Nat /\ t \in Nat /\ s >= t
    BY <2>2, <2>3, <2>4
  <2> HIDE DEF s, t
  <2>7. wait < t + Second
    BY <2>2 DEF t
  <2>8. again = now + s
    BY <2>5 DEF s
  <2> QED BY <2>6, <2>7, <2>8, <1>3, <1>4, SMT
<1>7. told' \in [Key -> {Free} \cup Nat]
  BY <1>1, <1>2, <1>3, <1>6
<1>8. Shape'
  BY <1>2, <1>7 DEF IInv, Shape
<1>9. ToldEnough'
  <2>1. told'[k] = again /\ \A j \in Key : j # k => told'[j] = told[j]
    BY <1>1, <1>2, <1>3
  <2> HIDE DEF again
  <2> QED BY <2>1, <1>2, <1>6 DEF IInv, ToldEnough
<1> QED BY <1>2, <1>8, <1>9 DEF IInv, PaidAhead, Owed, UncleanedBehind

LEMMA CleanupInv == ASSUME IInv, Cleanup PROVE IInv'
<1> USE RateLimitConstants, CellFacts
<1>1. UNCHANGED <<now, uncleaned, start, admitted, told>>
  BY DEF Cleanup, history
<1>2. now \in Nat /\ paid \in [Key -> {Free} \cup Nat] /\ uncleaned \in [Key -> {Free} \cup Nat]
  BY SMT DEF IInv, Shape
<1>3. /\ paid' \in [Key -> {Free} \cup Nat]
      /\ \A k \in Key : paid'[k] = IF paid[k] # Free /\ paid[k] <= now THEN Free ELSE paid[k]
  BY <1>2 DEF Cleanup
<1>4. Shape' /\ PaidAhead' /\ ToldEnough'
  BY <1>1, <1>3 DEF IInv, Shape, PaidAhead, ToldEnough
<1>5. Owed'
  <2> SUFFICES ASSUME NEW k \in Key, k[1] \notin Trusted, admitted[k] # 0
               PROVE  start + admitted[k] * Cell <= IF paid'[k] = Free THEN now ELSE paid'[k]
    BY <1>1 DEF Owed
  <2> DEFINE a == start + admitted[k] * Cell
  <2>1. a <= IF paid[k] = Free THEN now ELSE paid[k]
    BY DEF IInv, Owed
  <2>2. a \in Nat
    <3>1. admitted[k] \in Nat /\ start \in Nat
      BY <1>2, SMT DEF IInv, Shape
    <3>2. admitted[k] * Cell \in Nat
      BY <3>1, OneMoreCell
    <3> QED BY <3>1, <3>2, SMT
  <2> HIDE DEF a
  <2>3. a <= IF paid'[k] = Free THEN now ELSE paid'[k]
    BY <2>1, <2>2, <1>2, <1>3, SMT
  <2> QED BY <2>3 DEF a
<1>6. UncleanedBehind'
  <2> SUFFICES ASSUME NEW k \in Key
               PROVE  IF paid'[k] = Free THEN uncleaned[k] = Free \/ uncleaned[k] <= now
                      ELSE uncleaned[k] # Free /\ uncleaned[k] <= paid'[k]
    BY <1>1 DEF UncleanedBehind
  <2>1. IF paid[k] = Free THEN uncleaned[k] = Free \/ uncleaned[k] <= now
        ELSE uncleaned[k] # Free /\ uncleaned[k] <= paid[k]
    BY DEF IInv, UncleanedBehind
  <2> QED BY <2>1, <1>2, <1>3, SMT
<1> QED BY <1>4, <1>5, <1>6 DEF IInv

LEMMA RestartInv == ASSUME IInv, Restart PROVE IInv'
<1> USE RateLimitConstants, CellFacts
<1>1. /\ now' = now /\ start' = now /\ admitted' = Nobody
      /\ paid' = Nothing /\ uncleaned' = Nothing /\ told' = Nothing
  BY DEF Restart
<1>2. Shape'
  BY <1>1, SMT DEF IInv, Shape, Nothing, Nobody
<1>3. \A k \in Key : paid'[k] = Free /\ uncleaned'[k] = Free /\ told'[k] = Free /\ admitted'[k] = 0
  BY <1>1 DEF Nothing, Nobody
<1> QED BY <1>2, <1>3 DEF IInv, PaidAhead, Owed, UncleanedBehind, ToldEnough

LEMMA TickInv == ASSUME IInv, Tick PROVE IInv'
<1> USE RateLimitConstants, CellFacts
<1>1. UNCHANGED <<paid, uncleaned, start, admitted, told>> /\ now' = now + 1 /\ now < MaxNow
  BY DEF Tick, history
<1>2. now \in Nat /\ paid \in [Key -> {Free} \cup Nat] /\ uncleaned \in [Key -> {Free} \cup Nat]
  BY SMT DEF IInv, Shape
<1>3. Shape'
  BY <1>1, SMT DEF IInv, Shape
<1>4. PaidAhead'
  BY <1>1, <1>2, SMT DEF IInv, PaidAhead
<1>5. Owed'
  <2> SUFFICES ASSUME NEW k \in Key, k[1] \notin Trusted, admitted[k] # 0
               PROVE  start + admitted[k] * Cell <= IF paid[k] = Free THEN now + 1 ELSE paid[k]
    BY <1>1 DEF Owed
  <2> DEFINE a == start + admitted[k] * Cell
  <2>1. a <= IF paid[k] = Free THEN now ELSE paid[k]
    BY DEF IInv, Owed
  <2>2. a \in Nat
    <3>1. admitted[k] \in Nat /\ start \in Nat
      BY <1>2, SMT DEF IInv, Shape
    <3>2. admitted[k] * Cell \in Nat
      BY <3>1, OneMoreCell
    <3> QED BY <3>1, <3>2, SMT
  <2> HIDE DEF a
  <2>3. a <= IF paid[k] = Free THEN now + 1 ELSE paid[k]
    BY <2>1, <2>2, <1>2, SMT
  <2> QED BY <2>3 DEF a
<1>6. UncleanedBehind'
  BY <1>1, <1>2, SMT DEF IInv, UncleanedBehind
<1>7. ToldEnough'
  BY <1>1 DEF IInv, ToldEnough
<1> QED BY <1>3, <1>4, <1>5, <1>6, <1>7 DEF IInv

LEMMA CountInv == ASSUME IInv, Count PROVE IInv'
<1> USE RateLimitConstants, CellFacts
<1>1. start' = now /\ admitted' = Nobody /\ UNCHANGED <<now, paid, uncleaned, told>>
  BY DEF Count
<1>2. Shape'
  BY <1>1, SMT DEF IInv, Shape, Nobody
<1>3. \A k \in Key : admitted'[k] = 0
  BY <1>1 DEF Nobody
<1> QED BY <1>1, <1>2, <1>3 DEF IInv, PaidAhead, Owed, UncleanedBehind, ToldEnough

-----------------------------------------------------------------------------
THEOREM Inductive == Spec => []IInv
<1>1. IInv /\ [Next]_vars => IInv'
  <2> SUFFICES ASSUME IInv, [Next]_vars PROVE IInv'
    OBVIOUS
  <2>1. ASSUME NEW peer \in Ips, NEW header \in Ips \cup {NoIp}, NEW address \in Address,
               Enforce(peer, header, address) \/ TooManyRequests(peer, header, address)
        PROVE  IInv'
    BY <2>1, EnforceInv, TooManyInv
  <2>2. CASE Cleanup
    BY <2>2, CleanupInv
  <2>3. CASE Restart
    BY <2>3, RestartInv
  <2>4. CASE Tick
    BY <2>4, TickInv
  <2>5. CASE Count
    BY <2>5, CountInv
  <2>6. CASE UNCHANGED vars
    BY <2>6 DEF vars, history, IInv, Shape, PaidAhead, Owed, UncleanedBehind, ToldEnough
  <2> QED BY <2>1, <2>2, <2>3, <2>4, <2>5, <2>6 DEF Next
<1> QED BY InitInv, <1>1, PTL DEF Spec

\* RateLimitTypeOK: instants keep their shape, and no key of quota_for's limiter
\* ever owes more than the burst and one cell.
THEOREM RateLimitTypeCorrect == Spec => []RateLimitTypeOK
<1>1. IInv => RateLimitTypeOK
  BY DEF IInv, Shape, PaidAhead, RateLimitTypeOK
<1> QED BY Inductive, <1>1, PTL

\* AdmissionsBounded: what enforce lets through for one peer and one mailbox, in any
\* stretch of time, for any burst and window of the configuration.
THEOREM LimiterBounds == Spec => []AdmissionsBounded
<1>1. IInv => AdmissionsBounded
  <2> SUFFICES ASSUME IInv, NEW k \in Key, k[1] \notin Trusted
               PROVE  admitted[k] * Cell <= (now - start) + Tau + Cell
    BY DEF AdmissionsBounded
  <2> DEFINE a == admitted[k] * Cell
  <2>1. /\ admitted[k] \in Nat /\ now \in Nat /\ start \in Nat /\ start <= now
        /\ paid[k] = Free \/ paid[k] \in Nat
    BY RateLimitConstants, SMT DEF IInv, Shape
  <2>2. a \in Nat /\ (admitted[k] = 0 => a = 0)
    BY <2>1, OneMoreCell, CellFacts, SMT
  <2>3. admitted[k] # 0 => start + a <= IF paid[k] = Free THEN now ELSE paid[k]
    BY DEF IInv, Owed
  <2>4. paid[k] # Free => paid[k] <= now + Tau + Cell
    BY DEF IInv, PaidAhead
  <2> HIDE DEF a
  <2>5. a <= (now - start) + Tau + Cell
    BY <2>1, <2>2, <2>3, <2>4, CellFacts, SMT
  <2> QED BY <2>5 DEF a
<1> QED BY Inductive, <1>1, PTL

\* CleanupOnlyTightens: retain_recent, whenever it runs, never makes enforce
\* admit what it would have refused.
THEOREM CleanupIsSafe == Spec => []CleanupOnlyTightens
<1>1. IInv => CleanupOnlyTightens
  <2> SUFFICES ASSUME IInv, NEW k \in Key, ~ Admits(uncleaned, k) PROVE ~ Admits(paid, k)
    BY DEF CleanupOnlyTightens
  <2>1. /\ now \in Nat
        /\ paid[k] = Free \/ paid[k] \in Nat
        /\ uncleaned[k] = Free \/ uncleaned[k] \in Nat
    BY RateLimitConstants, SMT DEF IInv, Shape
  <2>2. IF paid[k] = Free THEN uncleaned[k] = Free \/ uncleaned[k] <= now
        ELSE uncleaned[k] # Free /\ uncleaned[k] <= paid[k]
    BY DEF IInv, UncleanedBehind
  <2> QED BY <2>1, <2>2, CellFacts, RateLimitConstants, SMT DEF Admits, Due
<1> QED BY Inductive, <1>1, PTL

\* RetryAfterNearlySuffices: the Retry-After of enforce is short by less than a
\* second.
THEOREM RetryAfterIsRight == Spec => []RetryAfterNearlySuffices
<1>1. IInv => RetryAfterNearlySuffices
  <2> SUFFICES ASSUME IInv, NEW k \in Key, told[k] # Free, now >= told[k] + Second
               PROVE  Admits(paid, k)
    BY DEF RetryAfterNearlySuffices
  <2>1. now \in Nat /\ told[k] \in Nat /\ (paid[k] = Free \/ paid[k] \in Nat)
    BY RateLimitConstants, SMT DEF IInv, Shape
  <2>2. paid[k] = Free \/ paid[k] - Tau < told[k] + Second
    BY DEF IInv, ToldEnough
  <2> QED BY <2>1, <2>2, CellFacts, RateLimitConstants, SMT DEF Admits, Due
<1> QED BY Inductive, <1>1, PTL
=============================================================================
