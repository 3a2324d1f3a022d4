---------------------------- MODULE UserDeletion ----------------------------
(***************************************************************************)
(* DELETE /users/{id} and the event it publishes on the Relay broker.      *)
(*                                                                         *)
(* The handler deletes the account, then hands the event to the MQTT       *)
(* client, whose bounded channel may make it wait.  A task of the client   *)
(* takes the events from the channel, sends them and waits for their       *)
(* acknowledgement; it reconnects for ever, with the credential that was   *)
(* signed when the process started.                                        *)
(*                                                                         *)
(* The MQTT client (rumqttc) and the broker are external: they are         *)
(* modelled as the code uses them.  What the client does on a lost         *)
(* connection with what it had not been acknowledged is left open.         *)
(***************************************************************************)
EXTENDS Naturals, Sequences, SequencesExt

CONSTANTS
  Users,         \* accounts
  Requests,      \* calls of delete_user, and the ids of their events (bound)
  NoUser,
  Capacity,      \* requests the channel to the client holds (16 in the code)
  TokenTtl,      \* relay.token_ttl_seconds, in ticks
  Modes          \* values of relay.enabled the process may be started with

ASSUME DeletionConstants ==
  /\ NoUser \notin Users
  /\ Capacity \in Nat \ {0}
  /\ TokenTtl \in Nat
  /\ Modes \subseteq {"disabled", "connected"}

VARIABLES
  present,    \* the users collection
  req,        \* what each call does next, and the account it deleted
  mode,       \* RelayPublisher of the running process
  left,       \* ticks before the credential expires
  link,       \* "up" while the broker accepts the client
  channel,    \* events handed to the client
  unacked,    \* events the client sent or is sending again
  received    \* events the broker got

vars == <<present, req, mode, left, link, channel, unacked, received>>

client == <<mode, left, link, channel, unacked>>

-----------------------------------------------------------------------------
Call == [pc : {"new", "publish", "answer", "done"}, user : Users \cup {NoUser}]

NewCall == [pc |-> "new", user |-> NoUser]

At(q, call) == req[q].pc = call

Continue(q, call) == req' = [req EXCEPT ![q].pc = call]

\* The credential of the client, whose exp is now + ttl.
SignRelayToken == left' = TokenTtl

\* from_settings: a fresh client, not connected yet, its credential just signed.
StartClient ==
  /\ mode' \in Modes
  /\ SignRelayToken
  /\ link' = "down"
  /\ channel' = <<>>
  /\ unacked' = {}

Init ==
  /\ present = Users
  /\ req = [q \in Requests |-> NewCall]
  /\ mode \in Modes
  /\ left = TokenTtl
  /\ link = "down"
  /\ channel = <<>>
  /\ unacked = {}
  /\ received = {}

-----------------------------------------------------------------------------
(* The handler.                                                            *)

\* Seeded bug: deleted_count is not looked at.
DeleteAgain(q, u) ==
  /\ At(q, "new")
  /\ present' = present \ {u}
  /\ req' = [req EXCEPT ![q] = [pc |-> "publish", user |-> u]]
  /\ UNCHANGED <<client, received>>

\* delete_one removed the account; for an account that is gone the answer is
\* 404 and nothing changes.
DeleteUser(q, u) ==
  /\ At(q, "new")
  /\ u \in present
  /\ present' = present \ {u}
  /\ req' = [req EXCEPT ![q] = [pc |-> "publish", user |-> u]]
  /\ UNCHANGED <<client, received>>

\* Relay disabled: the event is only logged.
PublishNowhere(q) ==
  /\ At(q, "publish")
  /\ mode = "disabled"
  /\ Continue(q, "answer")
  /\ UNCHANGED <<present, client, received>>

\* Seeded bug: try_publish, which gives up on a full channel, for publish.
TryPublish(q) ==
  /\ At(q, "publish")
  /\ mode = "connected"
  /\ channel' = IF Len(channel) < Capacity THEN Append(channel, q) ELSE channel
  /\ Continue(q, "answer")
  /\ UNCHANGED <<present, mode, left, link, unacked, received>>

\* Seeded bug: publish on a channel without a limit.
PublishAtOnce(q) ==
  /\ At(q, "publish")
  /\ mode = "connected"
  /\ channel' = Append(channel, q)
  /\ Continue(q, "answer")
  /\ UNCHANGED <<present, mode, left, link, unacked, received>>

\* client.publish: waits while the channel is full, whether the client is
\* connected or not.
Publish(q) ==
  /\ At(q, "publish")
  /\ mode = "connected"
  /\ Len(channel) < Capacity
  /\ channel' = Append(channel, q)
  /\ Continue(q, "answer")
  /\ UNCHANGED <<present, mode, left, link, unacked, received>>

\* 204.
AnswerDeleted(q) ==
  /\ At(q, "answer")
  /\ Continue(q, "done")
  /\ UNCHANGED <<present, client, received>>

\* The administrator's client goes away and the handler is dropped.
Abort(q) ==
  /\ At(q, "publish")
  /\ Continue(q, "done")
  /\ UNCHANGED <<present, client, received>>

HandlerStep(q) == PublishNowhere(q) \/ Publish(q) \/ AnswerDeleted(q)

-----------------------------------------------------------------------------
(* The client's task and the broker.                                       *)

\* The broker accepts a credential that has not expired.  The session starts
\* clean: what was not acknowledged is sent again or forgotten.
Connect ==
  /\ mode = "connected"
  /\ link = "down"
  /\ left > 0
  /\ link' = "up"
  /\ unacked' \in {unacked, {}}
  /\ UNCHANGED <<present, req, mode, left, channel, received>>

\* Seeded bug: the event stays in the channel.
Peek ==
  /\ link = "up"
  /\ channel # <<>>
  /\ unacked' = unacked \cup {Head(channel)}
  /\ UNCHANGED <<present, req, mode, left, link, channel, received>>

Take ==
  /\ link = "up"
  /\ channel # <<>>
  /\ unacked' = unacked \cup {Head(channel)}
  /\ channel' = Tail(channel)
  /\ UNCHANGED <<present, req, mode, left, link, received>>

\* Every transmission may arrive, again if the event was sent again.
Receive(q) ==
  /\ link = "up"
  /\ q \in unacked
  /\ received' = received \cup {q}
  /\ UNCHANGED <<present, req, client>>

Acknowledge(q) ==
  /\ link = "up"
  /\ q \in unacked \cap received
  /\ unacked' = unacked \ {q}
  /\ UNCHANGED <<present, req, mode, left, link, channel, received>>

\* The connection is lost; the client may empty its channel into the events to
\* send again.
Disconnect ==
  /\ link = "up"
  /\ link' = "down"
  /\ \/ UNCHANGED <<channel, unacked>>
     \/ /\ unacked' = unacked \cup ToSet(channel)
        /\ channel' = <<>>
  /\ UNCHANGED <<present, req, mode, left, received>>

Tick ==
  /\ left > 0
  /\ left' = left - 1
  /\ UNCHANGED <<present, req, mode, link, channel, unacked, received>>

\* The process is killed, with the handlers in flight, and started again.
Restart ==
  /\ StartClient
  /\ req' = [q \in Requests |->
               IF At(q, "new") THEN NewCall ELSE [req[q] EXCEPT !.pc = "done"]]
  /\ UNCHANGED <<present, received>>

-----------------------------------------------------------------------------
Next ==
  \/ \E q \in Requests :
       \/ \E u \in Users : DeleteUser(q, u)
       \/ PublishNowhere(q)
       \/ Publish(q)
       \/ AnswerDeleted(q)
       \/ Abort(q)
       \/ Receive(q)
       \/ Acknowledge(q)
  \/ Connect
  \/ Take
  \/ Disconnect
  \/ Tick
  \/ Restart

Spec == Init /\ [][Next]_vars

\* tokio runs the handlers and the client's task, which retries every second;
\* the broker answers.  Nothing is assumed of deletions, the network or the clock.
Fairness ==
  /\ \A q \in Requests : WF_vars(HandlerStep(q)) /\ WF_vars(Receive(q))
  /\ WF_vars(Connect) /\ WF_vars(Take)

-----------------------------------------------------------------------------
(* Properties.                                                             *)

Published(q) == req[q].user # NoUser

\* The collections, the calls and the client keep their shape; no event is in
\* the client or at the broker that no deletion published.
DeletionTypeOK ==
  /\ present \subseteq Users
  /\ req \in [Requests -> Call]
  /\ mode \in {"disabled", "connected"}
  /\ left \in 0..TokenTtl
  /\ link \in {"up", "down"}
  /\ channel \in Seq(Requests)
  /\ Len(channel) <= Capacity
  /\ unacked \subseteq Requests
  /\ received \subseteq Requests
  /\ \A q \in ToSet(channel) \cup unacked \cup received : Published(q)

\* An account is announced as deleted under one event id only, and only once it
\* is deleted: consumers that ignore an id they know handle a deletion once.
OneEventPerDeletion ==
  /\ \A q \in Requests : Published(q) => req[q].user \notin present
  /\ \A q, p \in Requests :
       Published(q) /\ req[q].user = req[p].user => q = p

\* The events about u that the broker got.
EventsAbout(u) == {q \in received : req[q].user = u}

Abstract ==
  INSTANCE DeletionEvents WITH
    Events <- Requests,
    accounts <- present,
    announced <- [u \in Users |-> EventsAbout(u)]

\* Whatever is lost, sent twice or restarted, the bus sees what DeletionEvents
\* promises.
ImplementsDeletionEvents == Abstract!Spec

\* Once the broker stays connected every deletion is answered, however full the
\* channel was, and no event stays with the client for ever.
ConnectedDeletionsEnd ==
  \A q \in Requests :
    /\ <>[](link = "up") => (At(q, "publish") ~> At(q, "done"))
    /\ ~<>[](link = "up" /\ q \in ToSet(channel) \cup unacked /\ q \notin received)
=============================================================================
