------------------------- MODULE UserDeletionHistory -------------------------
(***************************************************************************)
(* UserDeletion with the events a failure may have lost, those the client  *)
(* or a handler held when the connection or the process was lost, and      *)
(* whether the running process lost a connection it had.                   *)
(***************************************************************************)
EXTENDS UserDeletion

VARIABLES
  exposed,   \* events that a failure may have lost
  lost       \* the process was connected, and is not since

hvars == <<vars, exposed, lost>>

Held == {q \in Requests : At(q, "publish")} \cup ToSet(channel) \cup unacked

HInit == Init /\ exposed = {} /\ lost = FALSE

Endangered ==
  IF Restart THEN Held
  ELSE IF Disconnect THEN ToSet(channel) \cup unacked
  ELSE {q \in Requests : Abort(q) \/ PublishNowhere(q)}

HNext ==
  /\ Next
  /\ exposed' = exposed \cup Endangered
  /\ lost' = (link' = "down" /\ ~ Restart /\ (lost \/ link = "up"))

HSpec == HInit /\ [][HNext]_hvars

FairHSpec == HSpec /\ Fairness

\* The event of a deletion that was answered is on its way or at the broker,
\* unless the process or the connection was lost while it was underway, or the
\* process publishes nothing.
OnlyFailuresLoseEvents ==
  \A q \in Requests :
    At(q, "done") =>
      \/ q \in ToSet(channel) \cup unacked \cup received
      \/ q \in exposed

\* relay.rs:62: on an error of its loop the client reconnects, so that a
\* connection the process had and lost comes back, or the process restarts.
LoopReconnects == <>[][~Restart]_vars => (lost ~> ~lost)
=============================================================================
