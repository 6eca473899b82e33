------------------------------- MODULE Group --------------------------------
(***************************************************************************)
(* What the connection layer of the server promises, without its reads,    *)
(* writes and queues: a group that clients enter once, under the next      *)
(* number, and leave for good, and in which every message goes to all its  *)
(* addressees of the moment and to nobody else.                            *)
(***************************************************************************)
EXTENDS Packet

CONSTANT Conn   \* the clients

VARIABLES
  up,       \* whether the server works
  last,     \* the last number given
  number,   \* the number of each client, 0 if it never entered
  status,   \* where each client is: "outside", "member" or "left"
  inbox     \* the messages each client has been given, in order

groupVars == <<up, last, number, status, inbox>>

member == {c \in Conn : status[c] = "member"}

\* Who is given p, which o has sent: the member it names or, if it is meant for
\* everybody, all members but o.  The exception is a message for everybody that
\* o has sent before it knew its number, which is given to o as well.
Audience(o, p) ==
  IF p.type # "MT_BCAST" THEN {c \in member : number[c] = p.reciverId}
  ELSE IF p.senderId = 0 THEN member
  ELSE member \ {o}

-----------------------------------------------------------------------------
GroupInit ==
  /\ up = TRUE
  /\ last = 0
  /\ number = [c \in Conn |-> 0]
  /\ status = [c \in Conn |-> "outside"]
  /\ inbox = [c \in Conn |-> <<>>]

\* A client's first message tells it its number.
Enter(c) ==
  /\ up
  /\ status[c] = "outside"
  /\ last'   = last + 1
  /\ number' = [number EXCEPT ![c] = last + 1]
  /\ status' = [status EXCEPT ![c] = "member"]
  /\ inbox'  = [inbox EXCEPT ![c] = <<SetId(last + 1)>>]
  /\ UNCHANGED up

\* The server may fail in the step in which somebody leaves ...
Exit(c) ==
  /\ up
  /\ status[c] = "member"
  /\ status' = [status EXCEPT ![c] = "left"]
  /\ up' \in BOOLEAN
  /\ UNCHANGED <<last, number, inbox>>

\* ... or a message of o is given out.  Some member c is given the message.
Multicast(o, c) ==
  LET p == inbox'[c][Len(inbox'[c])] IN
  /\ up
  /\ c \in member
  /\ status[o] # "outside"
  /\ p.type = "MT_BCAST" => p.senderId \in {0, number[o]}
  /\ inbox' = [d \in Conn |-> IF d \in Audience(o, p) THEN Append(inbox[d], p)
                                                      ELSE inbox[d]]
  /\ up' \in BOOLEAN
  /\ UNCHANGED <<last, number, status>>

Stop ==
  /\ up
  /\ up' = FALSE
  /\ UNCHANGED <<last, number, status, inbox>>

Renew ==
  /\ ~up
  /\ up'     = TRUE
  /\ last'   = 0
  /\ number' = [c \in Conn |-> 0]
  /\ status' = [c \in Conn |-> "outside"]
  /\ inbox'  = [c \in Conn |-> <<>>]

GroupNext ==
  \/ \E c \in Conn : Enter(c) \/ Exit(c)
  \/ \E o, c \in Conn : Multicast(o, c)
  \/ Stop
  \/ Renew

GroupSpec == GroupInit /\ [][GroupNext]_groupVars
=============================================================================
