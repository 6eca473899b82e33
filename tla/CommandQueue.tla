---------------------------- MODULE CommandQueue ----------------------------
(***************************************************************************)
(* What the way of a command from the menu to the server promises, without *)
(* slot, threads, handlers and connection.  The user may withdraw a        *)
(* command that has not been handed over, by killing the GUI; one that has *)
(* been is never lost, changed or overtaken, though it may never arrive.   *)
(***************************************************************************)
EXTENDS Naturals, Sequences

CONSTANT Type   \* the types of requests

VARIABLES
  open,      \* the user has not handed over a request to disconnect
  count,     \* how many commands have been given
  offer,     \* the command that waits to be handed over, or nothing
  issued,    \* the requests handed over, in order
  received   \* the requests that have arrived, in order

queueVars == <<open, count, offer, issued, received>>

QueueInit ==
  /\ open = TRUE
  /\ count = 0
  /\ offer = << >>
  /\ issued = << >>
  /\ received = << >>

Give(t) ==
  /\ open /\ offer = << >>
  /\ count' = count + 1
  /\ offer' = <<[type |-> t, n |-> count + 1]>>
  /\ UNCHANGED <<open, issued, received>>

Withdraw ==
  /\ offer # << >>
  /\ offer' = << >>
  /\ UNCHANGED <<open, count, issued, received>>

HandOver ==
  /\ offer # << >>
  /\ issued' = issued \o offer
  /\ offer' = << >>
  /\ open' = (offer[1].type # "MT_DISCONNECT")
  /\ UNCHANGED <<count, received>>

Arrive ==
  /\ Len(received) < Len(issued)
  /\ received' = Append(received, issued[Len(received) + 1])
  /\ UNCHANGED <<open, count, offer, issued>>

QueueNext == (\E t \in Type : Give(t)) \/ Withdraw \/ HandOver \/ Arrive

QueueSpec == QueueInit /\ [][QueueNext]_queueVars
=============================================================================
