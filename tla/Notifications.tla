---------------------------- MODULE Notifications ----------------------------
(***************************************************************************)
(* What a webhook receiver and an operator may rely on: notifications are  *)
(* sent at least once, what the store says of them is true, and nothing is *)
(* sent after its outcome is stored. No sweep, channel, backoff, worker or *)
(* process appears here; WebhookDelivery refines this.                     *)
(***************************************************************************)
EXTENDS Naturals

CONSTANTS
  Deliveries,   \* the notifications
  MaxRetries    \* failed attempts after which a notification may be given up

VARIABLES
  outcome,  \* "none", "pending", "delivered", "abandoned" or "removed"
  posts,    \* how often it was sent
  accepted  \* whether the receiver has taken it

told == <<outcome, posts, accepted>>

Init ==
  /\ outcome = [d \in Deliveries |-> "none"]
  /\ posts = [d \in Deliveries |-> 0]
  /\ accepted = [d \in Deliveries |-> FALSE]

Becomes(d, o) ==
  /\ outcome' = [outcome EXCEPT ![d] = o]
  /\ UNCHANGED <<posts, accepted>>

Announce(d) == outcome[d] = "none" /\ Becomes(d, "pending")

\* It is sent while its outcome is open; once more, perhaps, when it has just
\* been removed.
Send(d) ==
  /\ outcome[d] \in {"pending", "removed"}
  /\ posts' = [posts EXCEPT ![d] = @ + 1]
  /\ \E taken \in BOOLEAN : accepted' = [accepted EXCEPT ![d] = @ \/ taken]
  /\ UNCHANGED outcome

\* "Delivered" is never said of what the receiver did not take, and nothing is
\* given up before it was tried MaxRetries times.
Deliver(d) == outcome[d] = "pending" /\ accepted[d] /\ Becomes(d, "delivered")
Abandon(d) == outcome[d] = "pending" /\ posts[d] >= MaxRetries /\ Becomes(d, "abandoned")

\* The job is deleted, by a client or by retention.
Remove(d) == outcome[d] \notin {"none", "removed"} /\ Becomes(d, "removed")

Next == \E d \in Deliveries :
          Announce(d) \/ Send(d) \/ Deliver(d) \/ Abandon(d) \/ Remove(d)

Spec == Init /\ [][Next]_told
=============================================================================
