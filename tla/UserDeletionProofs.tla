-------------------------- MODULE UserDeletionProofs --------------------------
(***************************************************************************)
(* For any number of accounts, calls, restarts and any capacity of the     *)
(* channel: an account is announced under one event only, the bus sees     *)
(* what DeletionEvents promises, and only failures lose an event.          *)
(***************************************************************************)
EXTENDS UserDeletionHistory, TLAPS

Shape ==
  /\ present \subseteq Users
  /\ req \in [Requests -> Call]
  /\ mode \in {"disabled", "connected"}
  /\ left \in 0..TokenTtl
  /\ link \in {"up", "down"}
  /\ channel \in Seq(Requests)
  /\ Len(channel) <= Capacity
  /\ unacked \subseteq Requests
  /\ received \subseteq Requests

\* Only a call that deleted an account has an event, from then on.
EventsOfDeletions == \A q \in Requests : At(q, "new") <=> ~ Published(q)

\* What is on its way was published.
OnlyPublished == \A q \in ToSet(channel) \cup unacked \cup received : Published(q)

IInv == Shape /\ EventsOfDeletions /\ OnlyPublished /\ OneEventPerDeletion

-----------------------------------------------------------------------------
LEMMA AppendFacts ==
  ASSUME NEW S, NEW s \in Seq(S), NEW e \in S
  PROVE  /\ Append(s, e) \in Seq(S)
         /\ Len(Append(s, e)) = Len(s) + 1
         /\ ToSet(Append(s, e)) \subseteq ToSet(s) \cup {e}
<1>1. Append(s, e) \in Seq(S) /\ Len(Append(s, e)) = Len(s) + 1
  OBVIOUS
<1>2. ASSUME NEW i \in DOMAIN Append(s, e)
      PROVE  Append(s, e)[i] = e \/ (i \in DOMAIN s /\ Append(s, e)[i] = s[i])
  OBVIOUS
<1> QED BY <1>1, <1>2 DEF ToSet

LEMMA TailFacts ==
  ASSUME NEW S, NEW s \in Seq(S), s # <<>>
  PROVE  /\ Tail(s) \in Seq(S)
         /\ Len(Tail(s)) <= Len(s)
         /\ Head(s) \in S /\ Head(s) \in ToSet(s)
         /\ ToSet(Tail(s)) \subseteq ToSet(s)
<1>1. Tail(s) \in Seq(S) /\ Len(Tail(s)) <= Len(s) /\ Head(s) \in S
  OBVIOUS
<1>2. 1 \in DOMAIN s /\ Head(s) = s[1]
  OBVIOUS
<1>3. ASSUME NEW i \in DOMAIN Tail(s)
      PROVE  i + 1 \in DOMAIN s /\ Tail(s)[i] = s[i + 1]
  OBVIOUS
<1> QED BY <1>1, <1>2, <1>3 DEF ToSet

LEMMA EmptyFacts == <<>> \in Seq(Requests) /\ Len(<<>>) = 0 /\ ToSet(<<>>) = {}
<1>1. <<>> \in Seq(Requests) /\ Len(<<>>) = 0 /\ DOMAIN <<>> = {}
  OBVIOUS
<1> QED BY <1>1 DEF ToSet

LEMMA InChannel ==
  ASSUME Shape PROVE ToSet(channel) \subseteq Requests
BY DEF Shape, ToSet

\* A call that moves on keeps its account.
LEMMA Continued ==
  ASSUME Shape, EventsOfDeletions, NEW q \in Requests, NEW call \in {"answer", "done"},
         ~ At(q, "new"), Continue(q, call)
  PROVE  /\ req' \in [Requests -> Call]
         /\ \A p \in Requests : req'[p].user = req[p].user
         /\ \A p \in Requests : req'[p].pc = "new" <=> req[p].pc = "new"
<1>1. req[q] \in Call
  BY DEF Shape
<1>2. /\ [req[q] EXCEPT !.pc = call] \in Call
      /\ [req[q] EXCEPT !.pc = call].user = req[q].user
      /\ [req[q] EXCEPT !.pc = call].pc = call
  BY <1>1 DEF Call
<1>3. req' = [req EXCEPT ![q] = [req[q] EXCEPT !.pc = call]]
  BY DEF Continue
<1> HIDE DEF Call
<1>4. req' \in [Requests -> Call]
  BY <1>2, <1>3 DEF Shape
<1>5. \A p \in Requests : req'[p] = IF p = q THEN [req[q] EXCEPT !.pc = call] ELSE req[p]
  BY <1>3 DEF Shape
<1> QED BY <1>2, <1>4, <1>5 DEF At

-----------------------------------------------------------------------------
LEMMA InitInv == Init => IInv
<1> SUFFICES ASSUME Init PROVE IInv
  OBVIOUS
<1>1. NewCall \in Call /\ NewCall.user = NoUser /\ NewCall.pc = "new"
  BY DEF NewCall, Call
<1>2. req \in [Requests -> Call] /\ \A q \in Requests : req[q] = NewCall
  BY <1>1 DEF Init
<1>3. Shape
  BY <1>2, EmptyFacts, DeletionConstants, SMT DEF Init, Shape
<1>4. OnlyPublished
  BY EmptyFacts DEF Init, OnlyPublished
<1> QED BY <1>1, <1>2, <1>3, <1>4 DEF IInv, EventsOfDeletions, OneEventPerDeletion, Published, At

LEMMA DeleteUserInv ==
  ASSUME IInv, NEW q \in Requests, NEW u \in Users, DeleteUser(q, u)
  PROVE  IInv'
<1> DEFINE deleted == [pc |-> "publish", user |-> u]
<1>1. deleted \in Call /\ deleted.user = u /\ deleted.pc = "publish"
  BY DEF Call
<1> HIDE DEF deleted
<1>2. /\ At(q, "new") /\ u \in present /\ present' = present \ {u}
      /\ req' = [req EXCEPT ![q] = deleted]
      /\ UNCHANGED <<mode, left, link, channel, unacked, received>>
  BY DEF DeleteUser, client, deleted
<1>3. req \in [Requests -> Call] /\ present \subseteq Users
  BY DEF IInv, Shape
<1>4. /\ req' \in [Requests -> Call]
      /\ \A p \in Requests : req'[p] = IF p = q THEN deleted ELSE req[p]
  BY <1>1, <1>2, <1>3
<1>5. u # NoUser
  BY DeletionConstants
<1>6. Shape'
  BY <1>2, <1>4 DEF IInv, Shape
<1>7. EventsOfDeletions'
  BY <1>1, <1>4, <1>5 DEF IInv, EventsOfDeletions, At, Published
<1>8. OnlyPublished'
  <2>1. ToSet(channel) \cup unacked \cup received \subseteq Requests
    BY InChannel DEF IInv, Shape
  <2>2. \A p \in Requests : Published(p) => req'[p].user # NoUser
    BY <1>1, <1>4, <1>5 DEF Published
  <2> QED BY <1>2, <2>1, <2>2 DEF IInv, OnlyPublished, Published
<1>9. OneEventPerDeletion'
  BY <1>1, <1>2, <1>4 DEF IInv, OneEventPerDeletion, Published
<1> QED BY <1>6, <1>7, <1>8, <1>9 DEF IInv

\* The steps of a call after its deletion, whatever they do to the channel.
LEMMA CallInv ==
  ASSUME IInv, NEW q \in Requests, NEW call \in {"answer", "done"},
         ~ At(q, "new"), Continue(q, call),
         UNCHANGED <<present, mode, left, link, unacked, received>>,
         \/ UNCHANGED channel
         \/ Len(channel) < Capacity /\ channel' = Append(channel, q)
  PROVE  IInv'
<1>1. /\ req' \in [Requests -> Call]
      /\ \A p \in Requests : req'[p].user = req[p].user
      /\ \A p \in Requests : req'[p].pc = "new" <=> req[p].pc = "new"
  BY Continued DEF IInv
<1>2. /\ channel' \in Seq(Requests) /\ Len(channel') <= Capacity
      /\ ToSet(channel') \subseteq ToSet(channel) \cup {q}
  <2>1. channel \in Seq(Requests) /\ Len(channel) <= Capacity /\ Len(channel) \in Nat
    BY DEF IInv, Shape
  <2>2. CASE channel' = Append(channel, q) /\ Len(channel) < Capacity
    BY <2>1, <2>2, AppendFacts, DeletionConstants, SMT
  <2> QED BY <2>1, <2>2
<1>3. Published(q)
  BY DEF IInv, EventsOfDeletions
<1>4. Shape'
  BY <1>1, <1>2 DEF IInv, Shape
<1>5. EventsOfDeletions'
  BY <1>1 DEF IInv, EventsOfDeletions, At, Published
<1>6. OnlyPublished'
  <2>1. ToSet(channel) \cup unacked \cup received \cup {q} \subseteq Requests
    BY InChannel DEF IInv, Shape
  <2>2. \A p \in Requests : Published(p) => req'[p].user # NoUser
    BY <1>1 DEF Published
  <2> QED BY <1>2, <1>3, <2>1, <2>2 DEF IInv, OnlyPublished, Published
<1>7. OneEventPerDeletion'
  BY <1>1 DEF IInv, OneEventPerDeletion, Published
<1> QED BY <1>4, <1>5, <1>6, <1>7 DEF IInv

LEMMA HandlerInv ==
  ASSUME IInv, NEW q \in Requests,
         PublishNowhere(q) \/ Publish(q) \/ AnswerDeleted(q) \/ Abort(q)
  PROVE  IInv'
<1>1. CASE PublishNowhere(q)
  BY <1>1, CallInv DEF PublishNowhere, At, client
<1>2. CASE Publish(q)
  BY <1>2, CallInv DEF Publish, At
<1>3. CASE AnswerDeleted(q)
  BY <1>3, CallInv DEF AnswerDeleted, At, client
<1>4. CASE Abort(q)
  BY <1>4, CallInv DEF Abort, At, client
<1> QED BY <1>1, <1>2, <1>3, <1>4

\* The client and the broker only move events about.
LEMMA ClientInv ==
  ASSUME IInv, UNCHANGED <<present, req>>,
         mode' \in {"disabled", "connected"}, left' \in 0..TokenTtl, link' \in {"up", "down"},
         channel' \in Seq(Requests), Len(channel') <= Capacity,
         ToSet(channel') \cup unacked' \cup received'
           \subseteq ToSet(channel) \cup unacked \cup received
  PROVE  IInv'
<1>1. ToSet(channel) \cup unacked \cup received \subseteq Requests
  BY InChannel DEF IInv, Shape
<1>2. Shape'
  BY <1>1 DEF IInv, Shape
<1> QED BY <1>2 DEF IInv, EventsOfDeletions, OnlyPublished, OneEventPerDeletion, At, Published

LEMMA NetworkInv ==
  ASSUME IInv,
         Connect \/ Take \/ Disconnect \/ Tick \/ (\E q \in Requests : Receive(q) \/ Acknowledge(q))
  PROVE  IInv'
<1>1. /\ mode \in {"disabled", "connected"} /\ left \in 0..TokenTtl /\ link \in {"up", "down"}
      /\ channel \in Seq(Requests) /\ Len(channel) <= Capacity /\ Len(channel) \in Nat
      /\ TokenTtl \in Nat /\ Capacity \in Nat
  BY DeletionConstants DEF IInv, Shape
<1>2. CASE Connect
  BY <1>1, <1>2, ClientInv DEF Connect
<1>3. CASE Take
  <2>1. /\ UNCHANGED <<present, req, mode, left, link, received>>
        /\ channel # <<>> /\ unacked' = unacked \cup {Head(channel)} /\ channel' = Tail(channel)
    BY <1>3 DEF Take
  <2>2. /\ channel' \in Seq(Requests) /\ Len(channel') <= Len(channel) /\ Len(channel') \in Nat
        /\ Head(channel) \in ToSet(channel) /\ ToSet(channel') \subseteq ToSet(channel)
    BY <1>1, <2>1, TailFacts
  <2>3. Len(channel') <= Capacity
    BY <1>1, <2>2, SMT
  <2> QED BY <1>1, <2>1, <2>2, <2>3, ClientInv
<1>4. CASE Disconnect
  <2>1. /\ UNCHANGED <<present, req, mode, left, received>> /\ link' = "down"
        /\ \/ UNCHANGED <<channel, unacked>>
           \/ unacked' = unacked \cup ToSet(channel) /\ channel' = <<>>
    BY <1>4 DEF Disconnect
  <2>2. channel' \in Seq(Requests) /\ Len(channel') <= Capacity
    <3>1. <<>> \in Seq(Requests) /\ Len(<<>>) <= Capacity
      BY <1>1, EmptyFacts, SMT
    <3> QED BY <1>1, <2>1, <3>1
  <2>3. ToSet(channel') \cup unacked' \cup received'
          \subseteq ToSet(channel) \cup unacked \cup received
    BY <2>1, EmptyFacts
  <2> QED BY <1>1, <2>1, <2>2, <2>3, ClientInv
<1>5. CASE Tick
  <2>1. left' \in 0..TokenTtl
    BY <1>1, <1>5, SMT DEF Tick
  <2> QED BY <1>1, <1>5, <2>1, ClientInv DEF Tick
<1>6. ASSUME NEW q \in Requests, Receive(q) \/ Acknowledge(q) PROVE IInv'
  BY <1>1, <1>6, ClientInv DEF Receive, Acknowledge, client
<1> QED BY <1>2, <1>3, <1>4, <1>5, <1>6

LEMMA RestartInv ==
  ASSUME IInv, Restart
  PROVE  /\ IInv'
         /\ \A q \in Requests : req'[q].user = req[q].user
<1>1. NewCall \in Call /\ NewCall.user = NoUser /\ NewCall.pc = "new"
  BY DEF NewCall, Call
<1>2. ASSUME NEW q \in Requests
      PROVE  /\ [req[q] EXCEPT !.pc = "done"] \in Call
             /\ [req[q] EXCEPT !.pc = "done"].user = req[q].user
             /\ [req[q] EXCEPT !.pc = "done"].pc = "done"
  <2>1. req[q] \in Call
    BY DEF IInv, Shape
  <2> QED BY <2>1 DEF Call
<1>3. \A q \in Requests : req'[q] = IF At(q, "new") THEN NewCall ELSE [req[q] EXCEPT !.pc = "done"]
  BY DEF Restart
<1>4. req' \in [Requests -> Call]
  BY <1>1, <1>2 DEF Restart
<1>5. \A q \in Requests :
        req'[q].user = req[q].user /\ (req'[q].pc = "new" <=> req[q].pc = "new")
  BY <1>1, <1>2, <1>3 DEF IInv, EventsOfDeletions, At, Published
<1>6. Shape'
  BY <1>4, EmptyFacts, DeletionConstants, SMT DEF IInv, Shape, Restart, StartClient, SignRelayToken
<1>7. EventsOfDeletions'
  BY <1>5 DEF IInv, EventsOfDeletions, At, Published
<1>8. OnlyPublished'
  BY <1>5, EmptyFacts DEF IInv, Shape, OnlyPublished, Published, Restart, StartClient, SignRelayToken
<1>9. OneEventPerDeletion'
  BY <1>5 DEF IInv, OneEventPerDeletion, Published, Restart
<1> QED BY <1>5, <1>6, <1>7, <1>8, <1>9 DEF IInv

-----------------------------------------------------------------------------
LEMMA InvNext == IInv /\ [Next]_vars => IInv'
<1> SUFFICES ASSUME IInv, [Next]_vars PROVE IInv'
  OBVIOUS
<1>1. ASSUME NEW q \in Requests, NEW u \in Users, DeleteUser(q, u) PROVE IInv'
  BY <1>1, DeleteUserInv
<1>2. ASSUME NEW q \in Requests,
             PublishNowhere(q) \/ Publish(q) \/ AnswerDeleted(q) \/ Abort(q)
      PROVE  IInv'
  BY <1>2, HandlerInv
<1>3. CASE Connect \/ Take \/ Disconnect \/ Tick \/ (\E q \in Requests : Receive(q) \/ Acknowledge(q))
  BY <1>3, NetworkInv
<1>4. CASE Restart
  BY <1>4, RestartInv
<1>5. CASE UNCHANGED vars
  BY <1>5 DEF vars, client, IInv, Shape, EventsOfDeletions, OnlyPublished,
              OneEventPerDeletion, At, Published
<1> QED BY <1>1, <1>2, <1>3, <1>4, <1>5 DEF Next

THEOREM Inductive == Spec => []IInv
BY InitInv, InvNext, PTL DEF Spec

\* DeletionTypeOK: no event is with the client or at the broker that no call of
\* delete_user published.
THEOREM DeletionTypeCorrect == Spec => []DeletionTypeOK
<1>1. IInv => DeletionTypeOK
  BY DEF IInv, Shape, OnlyPublished, DeletionTypeOK
<1> QED BY Inductive, <1>1, PTL

\* OneEventPerDeletion: however many calls delete_user gets for an account, one
\* of them publishes, after the account is gone.
THEOREM DeletionsPublishOnce == Spec => []OneEventPerDeletion
<1>1. IInv => OneEventPerDeletion
  BY DEF IInv
<1> QED BY Inductive, <1>1, PTL

-----------------------------------------------------------------------------
(* Refinement.                                                             *)

Seen == [u \in Users |-> EventsAbout(u)]

LEMMA SameEvents ==
  ASSUME Shape, received' = received, \A q \in Requests : req'[q].user = req[q].user
  PROVE  Seen' = Seen
<1>1. \A u \in Users : EventsAbout(u)' = EventsAbout(u)
  BY DEF EventsAbout, Shape
<1> QED BY <1>1 DEF Seen

\* The call that deletes an account has no event at the broker yet.
LEMMA DeleteIsDelete ==
  ASSUME IInv, NEW q \in Requests, NEW u \in Users, DeleteUser(q, u)
  PROVE  Abstract!Delete(u)
<1>1. /\ At(q, "new") /\ u \in present /\ present' = present \ {u} /\ received' = received
      /\ \A p \in Requests : p # q => req'[p] = req[p]
  BY DEF DeleteUser, IInv, Shape
<1>2. q \notin received /\ received \subseteq Requests
  BY <1>1 DEF IInv, Shape, EventsOfDeletions, OnlyPublished
<1>3. \A v \in Users : EventsAbout(v)' = EventsAbout(v)
  BY <1>1, <1>2 DEF EventsAbout
<1> QED BY <1>1, <1>3 DEF Abstract!Delete

\* An event that is received again tells nothing new; another is the first
\* about its account, which is gone.
LEMMA ReceiveIsAnnounce ==
  ASSUME IInv, NEW q \in Requests, Receive(q)
  PROVE  \/ Seen' = Seen /\ present' = present
         \/ \E u \in Users : Abstract!Announce(u, q)
<1>1. received' = received \cup {q} /\ q \in unacked /\ UNCHANGED <<present, req>>
  BY DEF Receive
<1>2. PICK u \in Users : u = req[q].user /\ u \notin present
  BY <1>1 DEF IInv, Shape, OnlyPublished, OneEventPerDeletion, Published, Call
<1>3. CASE q \in received
  BY <1>1, <1>3, SameEvents DEF IInv
<1>4. CASE q \notin received
  <2>1. EventsAbout(u) = {}
    BY <1>1, <1>2, <1>4 DEF EventsAbout, IInv, Shape, OnlyPublished, OneEventPerDeletion
  <2>2. EventsAbout(u)' = {q}
    BY <1>1, <1>2, <2>1 DEF EventsAbout
  <2>3. \A v \in Users : v # u => EventsAbout(v)' = EventsAbout(v)
    BY <1>1, <1>2 DEF EventsAbout
  <2>4. Seen' = [Seen EXCEPT ![u] = {q}] /\ Seen[u] = {}
    BY <1>2, <2>1, <2>2, <2>3 DEF Seen
  <2>5. Abstract!Announce(u, q)
    BY <1>1, <1>2, <2>4 DEF Abstract!Announce, Seen
  <2> QED BY <1>2, <2>5
<1> QED BY <1>3, <1>4

LEMMA NextRefines ==
  ASSUME IInv, [Next]_vars
  PROVE  [Abstract!Next]_(Abstract!vars)
<1> DEFINE Stutter == Seen' = Seen /\ present' = present
<1>0. Stutter => UNCHANGED Abstract!vars
  BY DEF Abstract!vars, Seen
<1> HIDE DEF Stutter
<1>1. ASSUME NEW q \in Requests, NEW u \in Users, DeleteUser(q, u)
      PROVE  Abstract!Next
  BY <1>1, DeleteIsDelete DEF Abstract!Next
<1>2. ASSUME NEW q \in Requests,
             PublishNowhere(q) \/ Publish(q) \/ AnswerDeleted(q) \/ Abort(q)
      PROVE  Stutter
  <2>1. received' = received /\ present' = present
    BY <1>2 DEF PublishNowhere, Publish, AnswerDeleted, Abort
  <2>2. ~ At(q, "new") /\ \E call \in {"answer", "done"} : Continue(q, call)
    BY <1>2 DEF PublishNowhere, Publish, AnswerDeleted, Abort, At
  <2> QED BY <2>1, <2>2, Continued, SameEvents DEF IInv, Stutter
<1>3. CASE Connect \/ Take \/ Disconnect \/ Tick \/ (\E q \in Requests : Acknowledge(q))
  <2>1. received' = received /\ present' = present /\ req' = req
    BY <1>3 DEF Connect, Take, Disconnect, Tick, Acknowledge
  <2> QED BY <2>1, <1>0, SameEvents DEF IInv, Stutter
<1>4. ASSUME NEW q \in Requests, Receive(q)
      PROVE  Stutter \/ Abstract!Next
  BY <1>4, ReceiveIsAnnounce DEF Abstract!Next, Stutter
<1>5. CASE Restart
  BY <1>5, <1>0, RestartInv, SameEvents DEF IInv, Restart, Stutter
<1>6. CASE UNCHANGED vars
  BY <1>6, <1>0, SameEvents DEF vars, IInv, Stutter
<1> QED BY <1>0, <1>1, <1>2, <1>3, <1>4, <1>5, <1>6 DEF Next

\* ImplementsDeletionEvents: delete_user, the client and the broker, with every
\* loss, repetition and restart, keep the promise of DeletionEvents.
THEOREM DeletionsImplementEvents == Spec => ImplementsDeletionEvents
<1>1. Init => Abstract!Init
  BY DEF Init, Abstract!Init, EventsAbout
<1> QED BY <1>1, Inductive, NextRefines, PTL
        DEF Spec, ImplementsDeletionEvents, Abstract!Spec
-----------------------------------------------------------------------------
(* Losses.                                                                 *)

Kept == ToSet(channel) \cup unacked \cup received \cup exposed

Answered(q) == At(q, "answer") \/ At(q, "done")

NotLost == \A q \in Requests : Answered(q) => q \in Kept

\* What the client may forget when it connects again was exposed when the
\* connection was lost.
DownExposed == link = "down" => unacked \subseteq exposed

HInv == IInv /\ NotLost /\ DownExposed

LEMMA AppendKeeps ==
  ASSUME NEW S, NEW s \in Seq(S), NEW e \in S
  PROVE  ToSet(s) \cup {e} \subseteq ToSet(Append(s, e))
<1>1. Len(Append(s, e)) = Len(s) + 1 /\ Append(s, e)[Len(s) + 1] = e
  OBVIOUS
<1>2. Len(s) + 1 \in DOMAIN Append(s, e)
  OBVIOUS
<1>3. ASSUME NEW i \in DOMAIN s
      PROVE  i \in DOMAIN Append(s, e) /\ Append(s, e)[i] = s[i]
  OBVIOUS
<1> QED BY <1>1, <1>2, <1>3 DEF ToSet

LEMMA TailKeeps ==
  ASSUME NEW S, NEW s \in Seq(S), s # <<>>
  PROVE  ToSet(s) \subseteq ToSet(Tail(s)) \cup {Head(s)}
<1>1. ASSUME NEW i \in DOMAIN s, i # 1
      PROVE  i - 1 \in DOMAIN Tail(s) /\ Tail(s)[i - 1] = s[i]
  <2>1. i \in 2 .. Len(s) /\ Len(s) \in Nat
    BY <1>1
  <2>2. Len(Tail(s)) = Len(s) - 1 /\ Tail(s) \in Seq(S)
    BY <2>1
  <2>3. i - 1 \in 1 .. Len(Tail(s))
    BY <2>1, <2>2
  <2>4. Tail(s)[i - 1] = s[(i - 1) + 1]
    BY <2>1, <2>3
  <2> QED BY <2>1, <2>2, <2>3, <2>4
<1>2. Head(s) = s[1]
  OBVIOUS
<1> QED BY <1>1, <1>2 DEF ToSet

LEMMA NextCall ==
  ASSUME Shape, NEW q \in Requests, NEW call, Continue(q, call)
  PROVE  \A p \in Requests : req'[p].pc = IF p = q THEN call ELSE req[p].pc
BY DEF Continue, Shape, Call

\* Nothing that was kept is lost, and who is answered in this step has its event
\* kept.
LEMMA KeepAll ==
  ASSUME HInv, Kept \subseteq Kept',
         \A q \in Requests : Answered(q)' => Answered(q) \/ q \in Kept'
  PROVE  NotLost'
BY DEF HInv, NotLost

LEMMA HandlersLoseNothing ==
  ASSUME HInv, NEW q \in Requests,
         \/ \E u \in Users : DeleteUser(q, u)
         \/ PublishNowhere(q) \/ Publish(q) \/ AnswerDeleted(q) \/ Abort(q),
         exposed' = exposed \cup {p \in Requests : Abort(p) \/ PublishNowhere(p)}
  PROVE  NotLost' /\ DownExposed'
<1>s. Shape /\ req \in [Requests -> Call]
  BY DEF HInv, IInv, Shape
<1>1. CASE \E u \in Users : DeleteUser(q, u)
  <2>1. \A p \in Requests : Answered(p)' => Answered(p)
    BY <1>s, <1>1 DEF DeleteUser, Answered, At
  <2>2. UNCHANGED <<link, channel, unacked, received>>
    BY <1>1 DEF DeleteUser, client
  <2> QED BY <2>1, <2>2, KeepAll DEF Kept, HInv, DownExposed
<1>2. CASE PublishNowhere(q) \/ Abort(q)
  <2>1. q \in exposed' /\ UNCHANGED <<link, channel, unacked, received>>
    BY <1>2 DEF PublishNowhere, Abort, client
  <2>2. \A p \in Requests : p # q => req'[p].pc = req[p].pc
    BY <1>s, <1>2, NextCall DEF PublishNowhere, Abort
  <2> QED BY <2>1, <2>2, KeepAll DEF Kept, HInv, DownExposed, Answered, At
<1>3. CASE Publish(q)
  <2>1. channel' = Append(channel, q) /\ UNCHANGED <<link, unacked, received>>
    BY <1>3 DEF Publish
  <2>2. ToSet(channel) \cup {q} \subseteq ToSet(channel')
    BY <1>s, <2>1, AppendKeeps DEF Shape
  <2>3. \A p \in Requests : p # q => req'[p].pc = req[p].pc
    BY <1>s, <1>3, NextCall DEF Publish
  <2>4. Kept \subseteq Kept' /\ q \in Kept'
    BY <2>1, <2>2 DEF Kept
  <2> QED BY <2>1, <2>3, <2>4, KeepAll DEF HInv, DownExposed, Answered, At
<1>4. CASE AnswerDeleted(q)
  <2>1. At(q, "answer") /\ UNCHANGED <<link, channel, unacked, received>>
    BY <1>4 DEF AnswerDeleted, client
  <2>2. \A p \in Requests : p # q => req'[p].pc = req[p].pc
    BY <1>s, <1>4, NextCall DEF AnswerDeleted
  <2> QED BY <2>1, <2>2, KeepAll DEF Kept, HInv, DownExposed, Answered, At
<1> QED BY <1>1, <1>2, <1>3, <1>4

LEMMA ClientLosesNothing ==
  ASSUME HInv, Connect \/ Take \/ Tick \/ (\E q \in Requests : Receive(q) \/ Acknowledge(q)),
         exposed \subseteq exposed'
  PROVE  NotLost' /\ DownExposed'
<1>s. channel \in Seq(Requests)
  BY DEF HInv, IInv, Shape
<1>0. \A q \in Requests : Answered(q)' => Answered(q)
  BY DEF Connect, Take, Tick, Receive, Acknowledge, Answered, At
<1>1. CASE Connect
  <2>1. Kept \subseteq Kept' /\ link' = "up"
    BY <1>1 DEF Connect, Kept, HInv, DownExposed
  <2> QED BY <1>0, <2>1, KeepAll DEF DownExposed
<1>2. CASE Take
  <2>1. /\ channel # <<>> /\ link' = "up" /\ received' = received
        /\ unacked' = unacked \cup {Head(channel)} /\ channel' = Tail(channel)
    BY <1>2 DEF Take
  <2>2. ToSet(channel) \subseteq ToSet(channel') \cup {Head(channel)}
    BY <1>s, <2>1, TailKeeps
  <2>3. Kept \subseteq Kept'
    BY <2>1, <2>2 DEF Kept
  <2> QED BY <1>0, <2>1, <2>3, KeepAll DEF DownExposed
<1>3. CASE Tick
  <2>1. Kept \subseteq Kept'
    BY <1>3 DEF Tick, Kept
  <2> QED BY <1>0, <1>3, <2>1, KeepAll DEF Tick, HInv, DownExposed
<1>4. ASSUME NEW q \in Requests, Receive(q) \/ Acknowledge(q)
      PROVE  NotLost' /\ DownExposed'
  <2>1. Kept \subseteq Kept' /\ link' = "up"
    BY <1>4 DEF Receive, Acknowledge, Kept, client
  <2> QED BY <1>0, <2>1, KeepAll DEF DownExposed
<1> QED BY <1>1, <1>2, <1>3, <1>4

LEMMA FailuresExpose ==
  ASSUME HInv,
         \/ Restart /\ exposed' = exposed \cup Held
         \/ Disconnect /\ exposed' = exposed \cup ToSet(channel) \cup unacked
  PROVE  NotLost' /\ DownExposed'
<1>1. CASE Disconnect /\ exposed' = exposed \cup ToSet(channel) \cup unacked
  <2>1. /\ received' = received /\ req' = req
        /\ unacked' \subseteq ToSet(channel) \cup unacked
    BY <1>1 DEF Disconnect
  <2>2. Kept \subseteq Kept' /\ unacked' \subseteq exposed'
    BY <1>1, <2>1 DEF Kept
  <2> QED BY <2>1, <2>2, KeepAll DEF DownExposed, Answered, At
<1>2. CASE Restart /\ exposed' = exposed \cup Held
  <2>1. received' = received /\ unacked' = {}
    BY <1>2 DEF Restart, StartClient
  <2>2. Kept \subseteq Kept'
    BY <1>2, <2>1 DEF Kept, Held
  <2>3. \A q \in Requests : req[q].pc \in {"new", "publish", "answer", "done"}
    BY DEF HInv, IInv, Shape, Call
  <2>4. \A q \in Requests : At(q, "new") => ~ Answered(q)'
    BY <1>2 DEF Restart, NewCall, Answered, At
  <2>5. \A q \in Requests : At(q, "publish") => q \in Kept'
    BY <1>2 DEF Kept, Held
  <2> QED BY <2>1, <2>2, <2>3, <2>4, <2>5, KeepAll DEF DownExposed, Answered, At
<1> QED BY <1>1, <1>2

LEMMA HNextInv == HInv /\ [HNext]_hvars => HInv'
<1> SUFFICES ASSUME HInv, [HNext]_hvars PROVE HInv'
  OBVIOUS
<1>1. [Next]_vars
  BY DEF HNext, hvars
<1>2. IInv'
  BY <1>1, InvNext DEF HInv
<1>3. CASE HNext
  <2>1. CASE Restart
    <3>1. exposed' = exposed \cup Held
      BY <1>3, <2>1 DEF HNext, Endangered
    <3>2. NotLost' /\ DownExposed'
      BY <2>1, <3>1, FailuresExpose
    <3> QED BY <1>2, <3>2 DEF HInv
  <2>2. CASE ~ Restart /\ Disconnect
    <3>1. exposed' = exposed \cup ToSet(channel) \cup unacked
      BY <1>3, <2>2 DEF HNext, Endangered
    <3>2. NotLost' /\ DownExposed'
      BY <2>2, <3>1, FailuresExpose
    <3> QED BY <1>2, <3>2 DEF HInv
  <2>3. CASE ~ Restart /\ ~ Disconnect
    <3>1. Next /\ exposed' = exposed \cup {q \in Requests : Abort(q) \/ PublishNowhere(q)}
      BY <1>3, <2>3 DEF HNext, Endangered
    <3>2. NotLost' /\ DownExposed'
      BY <2>3, <3>1, HandlersLoseNothing, ClientLosesNothing DEF Next
    <3> QED BY <1>2, <3>2 DEF HInv
  <2> QED BY <2>1, <2>2, <2>3
<1>4. CASE UNCHANGED hvars
  BY <1>2, <1>4 DEF hvars, vars, HInv, NotLost, DownExposed, Kept, Answered, At
<1> QED BY <1>3, <1>4

\* OnlyFailuresLoseEvents: what delete_user handed to the client reaches the
\* broker or is still on its way, unless a connection or the process was lost.
THEOREM LossesAreFailures == HSpec => []OnlyFailuresLoseEvents
<1>1. HInit => HInv
  <2> SUFFICES ASSUME HInit PROVE HInv
    OBVIOUS
  <2>1. \A q \in Requests : ~ Answered(q)
    BY DEF HInit, Init, NewCall, Answered, At
  <2> QED BY <2>1, InitInv DEF HInit, Init, HInv, NotLost, DownExposed
<1>2. HInv => OnlyFailuresLoseEvents
  BY DEF HInv, NotLost, OnlyFailuresLoseEvents, Kept, Answered
<1> QED BY <1>1, <1>2, HNextInv, PTL DEF HSpec
=============================================================================
