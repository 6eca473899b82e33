------------------------ MODULE SessionServerProofs -------------------------
(***************************************************************************)
(* Proofs that SessionInv is an inductive invariant of SessionSpec, and of *)
(* what follows from it, for every value of the constants.                 *)
(***************************************************************************)
EXTENDS SessionServer, SequenceTheorems, TLAPS

-----------------------------------------------------------------------------
(* The packets.                                                            *)

\* Every packet a client can send is a packet.
LEMMA ClientPacketType ==
  ASSUME TypeOK, NEW c \in Conn, NEW p \in ClientPacket(c)
  PROVE  p \in Packet
<1>1. PICK t \in ClientTypes, r \in PeerId \cup {clientId[c]},
           n \in BodyLengths, g \in GameIdx :
        p = [type |-> t, senderId |-> clientId[c], reciverId |-> r,
             body_length |-> IF t \in Query THEN 0 ELSE n,
             body |-> Payload(t, Name[c], g)]
  BY DEF ClientPacket
<1>2. Payload(t, Name[c], g) \in Body
  BY SessionServerAssumption DEF Payload, Body
<1>3. QED
  BY <1>1, <1>2, SessionServerAssumption DEF Packet, TypeOK

\* The packets the server makes itself are packets.
LEMMA ServerPacketType ==
  /\ \A i \in Nat : SetId(i) \in Packet
  /\ \A p \in Packet : Answer(p) \in Packet
BY DEF SetId, Answer, Packet, MsgType, Body

\* The packet a session reads is one of those its client has sent.
LEMMA IncomingType ==
  ASSUME TypeOK, NEW c \in Conn, Unread(c)
  PROVE  Incoming(c) \in Packet /\ taken[c] + 1 \in 0..Len(sent[c])
<1>1. sent[c] \in Seq(Packet) /\ taken[c] \in Nat
  BY DEF TypeOK
<1>2. taken[c] + 1 \in 1..Len(sent[c])
  BY <1>1 DEF Unread
<1>3. QED
  BY <1>1, <1>2 DEF Incoming

-----------------------------------------------------------------------------
(* What the operations handlers are made of do to the map and the queues.  *)

\* Appending a packet to a queue gives a queue that is not empty.
LEMMA AppendPacket ==
  ASSUME NEW q \in Seq(Packet), NEW p \in Packet
  PROVE  Append(q, p) \in Seq(Packet) /\ Append(q, p) # <<>>
BY AppendProperties

\* Queues stay queues, a pending write has something to write, and a session
\* that gets the packet, or was served before, is served.
LEMMA DeliverQueues ==
  ASSUME TypeOK, Pending, NEW S \in SUBSET Conn, NEW p \in Packet, Deliver(S, p)
  PROVE  /\ msgQueue' \in [Conn -> Seq(Packet)]
         /\ writing' \in [Conn -> BOOLEAN]
         /\ \A c \in Conn : writing'[c] => msgQueue'[c] # <<>>
         /\ \A c \in Conn \ S : msgQueue'[c] = msgQueue[c]
         /\ \A c \in Conn : (writing[c] <=> msgQueue[c] # <<>>)
                              => (writing'[c] <=> msgQueue'[c] # <<>>)
<1>1. \A c \in Conn : /\ Append(msgQueue[c], p) \in Seq(Packet)
                      /\ Append(msgQueue[c], p) # <<>>
  <2>1. \A c \in Conn : msgQueue[c] \in Seq(Packet)
    BY DEF TypeOK
  <2>2. QED
    BY <2>1, AppendPacket
<1>2. \A c \in Conn : /\ c \in S => msgQueue'[c] = Append(msgQueue[c], p)
                      /\ c \notin S => msgQueue'[c] = msgQueue[c]
  BY DEF Deliver
<1>3. \A c \in Conn : writing'[c] <=> writing[c] \/ (c \in S /\ msgQueue[c] = <<>>)
  BY DEF Deliver
<1>4. msgQueue' \in [Conn -> Seq(Packet)]
  BY <1>1 DEF Deliver, TypeOK
<1>5. writing' \in [Conn -> BOOLEAN]
  BY DEF Deliver, TypeOK
<1>6. QED
  BY <1>1, <1>2, <1>3, <1>4, <1>5 DEF Pending

\* Leave takes the session out of the map and touches no other.
LEMMA LeaveMap ==
  ASSUME TypeOK, MapConsistent, NEW c \in Conn, Leave(c)
  PROVE  /\ DOMAIN sessions' \subseteq DOMAIN sessions
         /\ sessions' \in [DOMAIN sessions' -> Conn]
         /\ \A i \in DOMAIN sessions' : sessions'[i] = sessions[i]
         /\ Members' \subseteq Members \ {c}
<1>1. /\ DOMAIN sessions' = DOMAIN sessions \ {id[c]}
      /\ \A i \in DOMAIN sessions' : sessions'[i] = sessions[i]
      /\ sessions' = [i \in DOMAIN sessions' |-> sessions'[i]]
  BY DEF Leave
<1>2. \A i \in DOMAIN sessions' : sessions'[i] # c
  BY <1>1 DEF MapConsistent
<1>3. QED
  BY <1>1, <1>2, SMTT(30) DEF Members, TypeOK

\* Leave and Ucast throw nothing but their own exceptions.
LEMMA OutcomeType ==
  ASSUME NEW c \in Conn, NEW r, NEW out \in Outcome
  PROVE  /\ LeaveOutcome(c, out) \in {"running", "quit"} \cup Exception
         /\ UcastOutcome(r, out) \in {"running", "quit"} \cup Exception
         /\ out \in {"running", "quit"} \cup Exception
BY DEF LeaveOutcome, UcastOutcome, Exception, Outcome

-----------------------------------------------------------------------------
(* SessionInv is preserved by every action.                                *)

\* What is left to show of an action that does not change the map ...
LEMMA SameMap ==
  ASSUME SessionInv, TypeOK',
         UNCHANGED <<lastId, sessions, id>>,
         Started' = Started,
         \A d \in Conn \ Started : msgQueue'[d] = msgQueue[d],
         Running' => \A d \in Members : /\ phase'[d] \in {"header", "body"}
                                        /\ writing'[d] <=> msgQueue'[d] # <<>>
  PROVE  Seated' /\ MapConsistent' /\ MembersAreServed'
<1> USE DEF SessionInv
<1>1. Members' = Members
  BY DEF Members
<1>2. Seated'
  BY <1>1 DEF Seated
<1>3. MapConsistent'
  BY <1>1 DEF MapConsistent
<1>4. MembersAreServed'
  BY <1>1 DEF MembersAreServed
<1>5. QED
  BY <1>2, <1>3, <1>4

\* ... and of one in which session c leaves it.
LEMMA LeftMap ==
  ASSUME SessionInv, Running, TypeOK', NEW c \in Conn, Leave(c),
         UNCHANGED <<lastId, id, msgQueue>>,
         Started' = Started,
         \A d \in Conn \ {c} : phase'[d] = phase[d] /\ writing'[d] = writing[d]
  PROVE  Seated' /\ MapConsistent' /\ MembersAreServed'
<1> USE DEF SessionInv
<1>1. /\ DOMAIN sessions' \subseteq DOMAIN sessions
      /\ \A i \in DOMAIN sessions' : sessions'[i] = sessions[i]
      /\ Members' \subseteq Members \ {c}
  BY LeaveMap
<1>2. Members' \subseteq Conn
  BY DEF Members, TypeOK
<1>3. Seated'
  BY <1>1 DEF Seated
<1>4. MapConsistent'
  BY <1>1, <1>2 DEF MapConsistent
<1>5. MembersAreServed'
  BY <1>1, <1>2 DEF MembersAreServed
<1>6. QED
  BY <1>3, <1>4, <1>5

LEMMA HandleAcceptInv ==
  ASSUME SessionInv, NEW c \in Conn, HandleAccept(c)
  PROVE  SessionInv'
<1> USE DEF SessionInv
<1>1. /\ phase[c] = "idle" /\ conn[c] \in {"open", "closed"} /\ Running
      /\ phase' = [phase EXCEPT ![c] = "header"]
      /\ UNCHANGED <<server, starts, acceptor, conn, sent, taken, wire, clientId>>
  BY DEF HandleAccept, Backlog, WaitFor, clientVars
<1>2. /\ lastId' = lastId + 1
      /\ id' = [id EXCEPT ![c] = lastId + 1]
      /\ sessions' = [i \in DOMAIN sessions \cup {lastId + 1} |->
                        IF i = lastId + 1 THEN c ELSE sessions[i]]
  BY DEF HandleAccept, Join
<1>3. SetId(lastId') \in Packet /\ Deliver({c}, SetId(lastId'))
  <2>1. lastId' \in Nat
    BY <1>2 DEF TypeOK
  <2>2. SetId(lastId') \in Packet
    BY <2>1, ServerPacketType
  <2>3. Deliver({c}, SetId(lastId'))
    BY DEF HandleAccept
  <2>4. QED
    BY <2>2, <2>3
<1>4. /\ msgQueue' \in [Conn -> Seq(Packet)]
      /\ writing' \in [Conn -> BOOLEAN]
      /\ \A d \in Conn : writing'[d] => msgQueue'[d] # <<>>
      /\ \A d \in Conn \ {c} : msgQueue'[d] = msgQueue[d]
      /\ \A d \in Conn : (writing[d] <=> msgQueue[d] # <<>>)
                              => (writing'[d] <=> msgQueue'[d] # <<>>)
  <2>1. TypeOK /\ Pending /\ {c} \in SUBSET Conn
    OBVIOUS
  <2>2. QED
    BY <1>3, <2>1, DeliverQueues
<1>5. Started' = Started \cup {c} /\ c \notin Started
  BY <1>1 DEF Started, TypeOK
<1>6. Members' = Members \cup {c} /\ c \notin Members
  <2>1. lastId + 1 \notin DOMAIN sessions
    BY DEF TypeOK
  <2>2. /\ DOMAIN sessions' = DOMAIN sessions \cup {lastId + 1}
        /\ sessions'[lastId + 1] = c
        /\ \A i \in DOMAIN sessions : sessions'[i] = sessions[i]
    BY <1>2, <2>1
  <2>3. QED
    BY <1>5, <2>2 DEF Members, Seated
<1>7. TypeOK'
  <2>1. /\ lastId' \in Nat
        /\ DOMAIN sessions' \subseteq 1..lastId'
        /\ sessions' \in [DOMAIN sessions' -> Conn]
        /\ id' \in [Conn -> Nat]
    BY <1>2 DEF TypeOK
  <2>2. QED
    BY <1>1, <1>4, <2>1 DEF TypeOK
<1>8. Pending'
  BY <1>1, <1>4 DEF Pending, Unread, TypeOK
<1>9. Seated'
  BY <1>1, <1>2, <1>4, <1>5, <1>6, SMTT(30) DEF Seated, TypeOK
<1>10. MapConsistent'
  <2>1. \A i \in DOMAIN sessions' : id'[sessions'[i]] = i
    BY <1>2, <1>5, <1>6 DEF MapConsistent, TypeOK, Members
  <2>2. \A d, e \in Started' : id'[d] = id'[e] => d = e
    BY <1>2, <1>5, SMTT(30) DEF MapConsistent, Seated, TypeOK, Started
  <2>3. \A d \in Members' : phase'[d] \in {"header", "body"}
    <3>1. \A d \in Members : phase[d] \in {"header", "body"}
      BY <1>1 DEF MapConsistent
    <3>2. \A d \in Members : d \in Conn /\ d # c
      BY <1>5 DEF Seated, Started
    <3>3. phase'[c] = "header" /\ \A d \in Conn \ {c} : phase'[d] = phase[d]
      BY <1>1 DEF TypeOK
    <3>4. QED
      BY <1>6, <3>1, <3>2, <3>3
  <2>4. QED
    BY <2>1, <2>2, <2>3 DEF MapConsistent
<1>11. MembersAreServed'
  <2>1. \A d \in Members : writing[d] <=> msgQueue[d] # <<>>
    BY <1>1 DEF MembersAreServed
  <2>2. writing[c] <=> msgQueue[c] # <<>>
    BY <1>5 DEF Pending, Seated
  <2>3. Members' \subseteq Conn
    BY <1>7 DEF Members, TypeOK
  <2>4. QED
    BY <1>4, <1>6, <2>1, <2>2, <2>3 DEF MembersAreServed
<1>12. QED
  BY <1>7, <1>8, <1>9, <1>10, <1>11

LEMMA HandleReadHeaderInv ==
  ASSUME SessionInv, NEW c \in Conn, HandleReadHeader(c)
  PROVE  SessionInv'
<1> USE DEF SessionInv
<1>1. /\ Running /\ phase[c] = "header" /\ Unread(c)
      /\ phase' = [phase EXCEPT ![c] = "body"]
      /\ UNCHANGED <<server, starts, acceptor, lastId, sessions, id, msgQueue,
                     writing, conn, sent, taken, wire, clientId>>
  BY DEF HandleReadHeader, WaitFor, clientVars
<1>2. TypeOK'
  BY <1>1 DEF TypeOK
<1>3. Pending'
  BY <1>1 DEF Pending, Unread, TypeOK
<1>4. Started' = Started
  BY <1>1 DEF Started, TypeOK
<1>5. \A d \in Members : phase'[d] \in {"header", "body"}
  BY <1>1 DEF MapConsistent, Seated, Started, TypeOK
<1>6. \A d \in Members : writing'[d] <=> msgQueue'[d] # <<>>
  BY <1>1 DEF MembersAreServed
<1>7. QED
  BY <1>1, <1>2, <1>3, <1>4, <1>5, <1>6, SameMap

\* A read loop that ends with Leave.
LEMMA DropSessionInv ==
  ASSUME SessionInv, NEW c \in Conn, Running, phase[c] # "idle", DropSession(c)
  PROVE  SessionInv'
<1> USE DEF SessionInv
<1>1. /\ Leave(c)
      /\ server' = LeaveOutcome(c, "running")
      /\ phase' = [phase EXCEPT ![c] = "done"]
      /\ UNCHANGED <<starts, acceptor, lastId, id, msgQueue, writing, conn,
                     sent, taken, wire, clientId>>
  BY DEF DropSession, WaitFor, clientVars
<1>2. TypeOK'
  <2>1. server' \in {"running", "quit"} \cup Exception
    BY <1>1, OutcomeType DEF Outcome
  <2>2. DOMAIN sessions' \subseteq 1..lastId' /\ sessions' \in [DOMAIN sessions' -> Conn]
    BY <1>1, LeaveMap DEF TypeOK
  <2>3. QED
    BY <1>1, <2>1, <2>2 DEF TypeOK
<1>3. Pending'
  BY <1>1 DEF Pending, Unread, TypeOK
<1>4. Started' = Started
  BY <1>1 DEF Started, TypeOK
<1>5. \A d \in Conn \ {c} : phase'[d] = phase[d] /\ writing'[d] = writing[d]
  BY <1>1 DEF TypeOK
<1>6. QED
  BY <1>1, <1>2, <1>3, <1>4, <1>5, LeftMap

LEMMA HandleWriteInv ==
  ASSUME SessionInv, NEW c \in Conn, HandleWrite(c)
  PROVE  SessionInv'
<1> USE DEF SessionInv
<1>1. /\ Running /\ writing[c]
      /\ wire' = [wire EXCEPT ![c] = Append(@, Head(msgQueue[c]))]
      /\ msgQueue' = [msgQueue EXCEPT ![c] = Tail(@)]
      /\ writing' = [writing EXCEPT ![c] = msgQueue'[c] # <<>>]
      /\ UNCHANGED <<server, starts, acceptor, lastId, sessions, id, phase, conn,
                     sent, taken, clientId>>
  BY DEF HandleWrite
<1>2. msgQueue[c] \in Seq(Packet) /\ wire[c] \in Seq(Packet) /\ msgQueue[c] # <<>>
  BY <1>1 DEF Pending, TypeOK
<1>3. Head(msgQueue[c]) \in Packet /\ Tail(msgQueue[c]) \in Seq(Packet)
  BY <1>2, HeadTailProperties
<1>4. Append(wire[c], Head(msgQueue[c])) \in Seq(Packet)
  BY <1>2, <1>3, AppendPacket
<1>5. TypeOK'
  BY <1>1, <1>3, <1>4 DEF TypeOK
<1>6. /\ writing'[c] <=> msgQueue'[c] # <<>>
      /\ \A d \in Conn \ {c} : writing'[d] = writing[d] /\ msgQueue'[d] = msgQueue[d]
  BY <1>1 DEF TypeOK
<1>7. Pending'
  BY <1>1, <1>6 DEF Pending, Unread
<1>8. Started' = Started /\ c \in Started
  BY <1>1, <1>2 DEF Started, Seated
<1>9. \A d \in Members : /\ phase'[d] \in {"header", "body"}
                         /\ writing'[d] <=> msgQueue'[d] # <<>>
  BY <1>1, <1>6 DEF MapConsistent, MembersAreServed, Seated, Started
<1>10. QED
  BY <1>1, <1>5, <1>6, <1>7, <1>8, <1>9, SameMap

LEMMA HandleWriteFailsInv ==
  ASSUME SessionInv, NEW c \in Conn, HandleWriteFails(c)
  PROVE  SessionInv'
<1> USE DEF SessionInv
<1>1. /\ Running /\ Leave(c)
      /\ server' = LeaveOutcome(c, "running")
      /\ writing' = [writing EXCEPT ![c] = FALSE]
      /\ UNCHANGED <<starts, acceptor, lastId, id, phase, msgQueue, conn,
                     sent, taken, wire, clientId>>
  BY DEF HandleWriteFails, clientVars
<1>2. TypeOK'
  <2>1. server' \in {"running", "quit"} \cup Exception
    BY <1>1, OutcomeType DEF Outcome
  <2>2. DOMAIN sessions' \subseteq 1..lastId' /\ sessions' \in [DOMAIN sessions' -> Conn]
    BY <1>1, LeaveMap DEF TypeOK
  <2>3. QED
    BY <1>1, <2>1, <2>2 DEF TypeOK
<1>3. Pending'
  BY <1>1 DEF Pending, Unread, TypeOK
<1>4. Started' = Started
  BY <1>1 DEF Started
<1>5. \A d \in Conn \ {c} : phase'[d] = phase[d] /\ writing'[d] = writing[d]
  BY <1>1 DEF TypeOK
<1>6. QED
  BY <1>1, <1>2, <1>3, <1>4, <1>5, LeftMap

\* What the cases of HandleReadBody have in common.
LEMMA BodyHandledEffect ==
  ASSUME SessionInv, NEW c \in Conn, Running, phase[c] = "body", BodyHandled(c),
         server' \in {"running", "quit"} \cup Exception
  PROVE  /\ UNCHANGED <<starts, acceptor, lastId, id, conn, sent, wire, clientId>>
         /\ taken' \in [Conn -> Nat]
         /\ \A d \in Conn : taken'[d] <= Len(sent[d])
         /\ phase' \in [Conn -> {"idle", "header", "body", "done"}]
         /\ \A d \in Conn \ {c} : phase'[d] = phase[d] /\ taken'[d] = taken[d]
         /\ phase'[c] = IF server' = "running" THEN "header" ELSE "done"
         /\ Started' = Started
<1> USE DEF SessionInv
<1>1. /\ UNCHANGED <<starts, acceptor, lastId, id, conn, sent, wire, clientId>>
      /\ taken' = [taken EXCEPT ![c] = @ + 1]
      /\ phase' = [phase EXCEPT ![c] = IF server' = "running" THEN "header" ELSE "done"]
  BY DEF BodyHandled, WaitFor
<1>2. Unread(c) /\ sent[c] \in Seq(Packet)
  BY DEF Pending, TypeOK
<1>3. Len(sent[c]) \in Nat /\ taken[c] \in Nat
  BY <1>2 DEF TypeOK
<1>4. taken[c] + 1 <= Len(sent[c])
  BY <1>2, <1>3 DEF Unread
<1>5. /\ taken' \in [Conn -> Nat]
      /\ \A d \in Conn : taken'[d] <= Len(sent[d])
  BY <1>1, <1>4 DEF TypeOK
<1>6. /\ phase' \in [Conn -> {"idle", "header", "body", "done"}]
      /\ \A d \in Conn \ {c} : phase'[d] = phase[d] /\ taken'[d] = taken[d]
      /\ phase'[c] = IF server' = "running" THEN "header" ELSE "done"
  BY <1>1 DEF TypeOK
<1>7. Started' = Started
  BY <1>6 DEF Started
<1>8. QED
  BY <1>1, <1>5, <1>6, <1>7

\* A case that gives packet p to the sessions of a set S of members.
LEMMA RecvDeliverInv ==
  ASSUME SessionInv, NEW c \in Conn, Running, phase[c] = "body", BodyHandled(c),
         server' \in {"running", "quit"} \cup Exception, UNCHANGED sessions,
         NEW S \in SUBSET Members, NEW p \in Packet, Deliver(S, p)
  PROVE  SessionInv'
<1> USE DEF SessionInv
<1>1. S \in SUBSET Conn
  BY DEF Seated, Started
<1>2. /\ msgQueue' \in [Conn -> Seq(Packet)]
      /\ writing' \in [Conn -> BOOLEAN]
      /\ \A d \in Conn : writing'[d] => msgQueue'[d] # <<>>
      /\ \A d \in Conn \ S : msgQueue'[d] = msgQueue[d]
      /\ \A d \in Conn : (writing[d] <=> msgQueue[d] # <<>>)
                              => (writing'[d] <=> msgQueue'[d] # <<>>)
  BY <1>1, DeliverQueues
<1>3. /\ UNCHANGED <<starts, acceptor, lastId, id, conn, sent, wire, clientId>>
      /\ taken' \in [Conn -> Nat]
      /\ \A d \in Conn : taken'[d] <= Len(sent[d])
      /\ phase' \in [Conn -> {"idle", "header", "body", "done"}]
      /\ \A d \in Conn \ {c} : phase'[d] = phase[d] /\ taken'[d] = taken[d]
      /\ phase'[c] = IF server' = "running" THEN "header" ELSE "done"
      /\ Started' = Started
  BY BodyHandledEffect
<1>4. TypeOK'
  BY <1>2, <1>3 DEF TypeOK
<1>5. Pending'
  BY <1>2, <1>3 DEF Pending, Unread
<1>6. \A d \in Conn \ Started : msgQueue'[d] = msgQueue[d]
  BY <1>2 DEF Seated
<1>7. Running' => \A d \in Members : /\ phase'[d] \in {"header", "body"}
                                     /\ writing'[d] <=> msgQueue'[d] # <<>>
  BY <1>2, <1>3 DEF MapConsistent, MembersAreServed, Seated, Started, Running
<1>8. QED
  BY <1>3, <1>4, <1>5, <1>6, <1>7, SameMap

LEMMA RecvBcastInv ==
  ASSUME SessionInv, NEW c \in Conn, NEW out \in Outcome, RecvBcast(c, out)
  PROVE  SessionInv'
<1> DEFINE S == {d \in Members : id[d] # Incoming(c).senderId}
<1>1. Running /\ phase[c] = "body" /\ BodyHandled(c) /\ server' = out
      /\ UNCHANGED sessions
  BY DEF RecvBcast, BodyArrives
<1>2. Deliver(S, Incoming(c))
  BY DEF RecvBcast, Bcast
<1>3. Incoming(c) \in Packet
  BY <1>1, IncomingType DEF SessionInv, Pending
<1>4. S \in SUBSET Members
  OBVIOUS
<1>5. server' \in {"running", "quit"} \cup Exception
  BY <1>1, OutcomeType
<1>6. QED
  BY <1>1, <1>2, <1>3, <1>4, <1>5, RecvDeliverInv

\* Ucast gives its packet to a member, if to anybody.
LEMMA UcastMembers ==
  ASSUME NEW p, NEW r, Ucast(p, r)
  PROVE  \E S \in SUBSET Members : Deliver(S, p)
<1>1. {sessions[i] : i \in DOMAIN sessions \cap {r}} \subseteq Members
  BY DEF Members
<1>2. QED
  BY <1>1 DEF Ucast

LEMMA RecvUcastInv ==
  ASSUME SessionInv, NEW c \in Conn, NEW out \in Outcome, RecvUcast(c, out)
  PROVE  SessionInv'
<1> DEFINE r == Incoming(c).reciverId
<1>1. /\ Running /\ phase[c] = "body" /\ BodyHandled(c) /\ UNCHANGED sessions
      /\ server' = UcastOutcome(r, out)
      /\ Ucast(Incoming(c), r)
  BY DEF RecvUcast, BodyArrives
<1>2. Incoming(c) \in Packet
  BY <1>1, IncomingType DEF SessionInv, Pending
<1>3. server' \in {"running", "quit"} \cup Exception
  BY <1>1, OutcomeType
<1>4. PICK S \in SUBSET Members : Deliver(S, Incoming(c))
  BY <1>1, UcastMembers
<1>5. QED
  BY <1>1, <1>2, <1>3, <1>4, RecvDeliverInv

LEMMA RecvQueryInv ==
  ASSUME SessionInv, NEW c \in Conn, RecvQuery(c, Query)
  PROVE  SessionInv'
<1> DEFINE p == Incoming(c)
<1>1. /\ Running /\ phase[c] = "body" /\ BodyHandled(c) /\ UNCHANGED sessions
      /\ server' = UcastOutcome(p.senderId, "running")
      /\ Ucast(Answer(p), p.senderId)
  BY DEF RecvQuery, BodyArrives
<1>2. p \in Packet
  BY <1>1, IncomingType DEF SessionInv, Pending
<1>3. Answer(p) \in Packet
  BY <1>2, ServerPacketType
<1>4. server' \in {"running", "quit"} \cup Exception
  BY <1>1, OutcomeType DEF Outcome
<1>5. PICK S \in SUBSET Members : Deliver(S, Answer(p))
  BY <1>1, UcastMembers
<1>6. QED
  BY <1>1, <1>3, <1>4, <1>5, RecvDeliverInv

LEMMA RecvOtherInv ==
  ASSUME SessionInv, NEW c \in Conn, NEW out \in Outcome, RecvOther(c, MsgType, out)
  PROVE  SessionInv'
<1> USE DEF SessionInv
<1>1. /\ Running /\ phase[c] = "body" /\ BodyHandled(c) /\ server' = out
      /\ UNCHANGED <<sessions, msgQueue, writing>>
  BY DEF RecvOther, BodyArrives
<1>2. server' \in {"running", "quit"} \cup Exception
  BY <1>1, OutcomeType
<1>3. /\ UNCHANGED <<starts, acceptor, lastId, id, conn, sent, wire, clientId>>
      /\ taken' \in [Conn -> Nat]
      /\ \A d \in Conn : taken'[d] <= Len(sent[d])
      /\ phase' \in [Conn -> {"idle", "header", "body", "done"}]
      /\ \A d \in Conn \ {c} : phase'[d] = phase[d] /\ taken'[d] = taken[d]
      /\ phase'[c] = IF server' = "running" THEN "header" ELSE "done"
      /\ Started' = Started
  BY <1>1, <1>2, BodyHandledEffect
<1>4. TypeOK'
  BY <1>1, <1>2, <1>3 DEF TypeOK
<1>5. Pending'
  BY <1>1, <1>3 DEF Pending, Unread
<1>6. Running' => \A d \in Members : /\ phase'[d] \in {"header", "body"}
                                     /\ writing'[d] <=> msgQueue'[d] # <<>>
  BY <1>1, <1>3 DEF MapConsistent, MembersAreServed, Seated, Started, Running
<1>7. QED
  BY <1>1, <1>3, <1>4, <1>5, <1>6, SameMap

LEMMA RecvDisconnectInv ==
  ASSUME SessionInv, NEW c \in Conn, NEW out \in Outcome, RecvDisconnect(c, out)
  PROVE  SessionInv'
<1> USE DEF SessionInv
<1>1. /\ Running /\ phase[c] = "body" /\ BodyHandled(c)
      /\ Leave(c) /\ server' = LeaveOutcome(c, out)
      /\ UNCHANGED <<msgQueue, writing>>
  BY DEF RecvDisconnect, BodyArrives
<1>2. server' \in {"running", "quit"} \cup Exception
  BY <1>1, OutcomeType
<1>3. /\ UNCHANGED <<starts, acceptor, lastId, id, conn, sent, wire, clientId>>
      /\ taken' \in [Conn -> Nat]
      /\ \A d \in Conn : taken'[d] <= Len(sent[d])
      /\ phase' \in [Conn -> {"idle", "header", "body", "done"}]
      /\ \A d \in Conn \ {c} : phase'[d] = phase[d] /\ taken'[d] = taken[d]
      /\ phase'[c] = IF server' = "running" THEN "header" ELSE "done"
      /\ Started' = Started
  BY <1>1, <1>2, BodyHandledEffect
<1>4. TypeOK'
  <2>1. DOMAIN sessions' \subseteq 1..lastId' /\ sessions' \in [DOMAIN sessions' -> Conn]
    BY <1>1, <1>3, LeaveMap DEF TypeOK
  <2>2. QED
    BY <1>1, <1>2, <1>3, <2>1 DEF TypeOK
<1>5. Pending'
  BY <1>1, <1>3 DEF Pending, Unread
<1>6. QED
  BY <1>1, <1>3, <1>4, <1>5, LeftMap

\* An action of a client changes what is sent or known, and never a session.
LEMMA ClientInv ==
  ASSUME SessionInv, NEW c \in Conn, Client(c)
  PROVE  SessionInv'
<1> USE DEF SessionInv
<1>1. UNCHANGED <<server, starts, acceptor, lastId, sessions, id, phase, msgQueue,
                  writing, taken, wire>>
  BY DEF Client, Connect, LearnId, ClientSend, ClientClose, sessionVars
<1>2. /\ conn' \in [Conn -> {"unused", "open", "closed"}]
      /\ clientId' \in [Conn -> Nat]
      /\ sent' \in [Conn -> Seq(Packet)]
      /\ \A d \in Conn : Len(sent[d]) <= Len(sent'[d])
  <2>0. \A d \in Conn : sent[d] \in Seq(Packet) /\ Len(sent[d]) \in Nat
    BY DEF TypeOK
  <2>1. CASE Connect(c) \/ ClientClose(c)
    <3>1. UNCHANGED <<clientId, sent>>
      BY <2>1 DEF Connect, ClientClose
    <3>2. \/ conn' = [conn EXCEPT ![c] = "open"]
          \/ conn' = [conn EXCEPT ![c] = "closed"]
      BY <2>1 DEF Connect, ClientClose
    <3>3. conn' \in [Conn -> {"unused", "open", "closed"}]
      BY <3>2 DEF TypeOK
    <3>4. QED
      BY <2>0, <3>1, <3>3 DEF TypeOK
  <2>2. CASE LearnId(c)
    <3>1. PICK k \in DOMAIN wire[c] :
            clientId' = [clientId EXCEPT ![c] = wire[c][k].reciverId]
      BY <2>2 DEF LearnId
    <3>2. wire[c][k] \in Packet
      BY <3>1 DEF TypeOK
    <3>3. wire[c][k].reciverId \in Nat
      BY <3>2 DEF Packet
    <3>4. UNCHANGED <<conn, sent>>
      BY <2>2 DEF LearnId
    <3>5. QED
      BY <2>0, <3>1, <3>3, <3>4 DEF TypeOK
  <2>3. ASSUME NEW p \in ClientPacket(c), ClientSend(c, p)
        PROVE  /\ conn' \in [Conn -> {"unused", "open", "closed"}]
               /\ clientId' \in [Conn -> Nat]
               /\ sent' \in [Conn -> Seq(Packet)]
               /\ \A d \in Conn : Len(sent[d]) <= Len(sent'[d])
    <3>1. p \in Packet
      BY ClientPacketType
    <3>2. Append(sent[c], p) \in Seq(Packet) /\ Len(Append(sent[c], p)) = Len(sent[c]) + 1
      BY <2>0, <3>1, AppendProperties
    <3>3. sent' = [sent EXCEPT ![c] = Append(@, p)] /\ UNCHANGED <<conn, clientId>>
      BY <2>3 DEF ClientSend
    <3>4. QED
      BY <2>0, <3>2, <3>3 DEF TypeOK
  <2>4. QED
    BY <2>1, <2>2, <2>3 DEF Client
<1>3. \A d \in Conn : /\ taken[d] \in Nat
                      /\ Len(sent[d]) \in Nat /\ Len(sent'[d]) \in Nat
  BY <1>2, SMTT(30) DEF TypeOK
<1>4. \A d \in Conn : /\ taken[d] <= Len(sent'[d])
                      /\ Unread(d) => taken[d] < Len(sent'[d])
  BY <1>2, <1>3, SMTT(30) DEF TypeOK, Unread
<1>5. TypeOK'
  BY <1>1, <1>2, <1>4 DEF TypeOK
<1>6. Pending'
  BY <1>1, <1>4 DEF Pending, Unread
<1>7. Started' = Started
  BY <1>1 DEF Started
<1>8. Running' => \A d \in Members : /\ phase'[d] \in {"header", "body"}
                                     /\ writing'[d] <=> msgQueue'[d] # <<>>
  BY <1>1 DEF MapConsistent, MembersAreServed, Running
<1>9. QED
  BY <1>1, <1>5, <1>6, <1>7, <1>8, SameMap

\* An accept that fails, the quit command, an exception of another thread.
LEMMA EnvironmentInv ==
  ASSUME SessionInv, HandleAcceptFails \/ Quit \/ OtherThreadThrows
  PROVE  SessionInv'
<1> USE DEF SessionInv
<1>1. UNCHANGED <<starts, lastId, sessions, id, phase, msgQueue, writing, conn,
                  sent, taken, wire, clientId>>
  BY DEF HandleAcceptFails, Quit, OtherThreadThrows, sessionVars, clientVars
<1>2. server' \in {"running", "quit"} \cup Exception /\ acceptor' \in BOOLEAN
  BY DEF HandleAcceptFails, Quit, OtherThreadThrows, sessionVars, Exception, TypeOK
<1>3. Running
  BY DEF HandleAcceptFails, Quit, OtherThreadThrows
<1>4. TypeOK'
  BY <1>1, <1>2 DEF TypeOK
<1>5. Pending'
  BY <1>1 DEF Pending, Unread
<1>6. Started' = Started
  BY <1>1 DEF Started
<1>7. \A d \in Members : /\ phase'[d] \in {"header", "body"}
                         /\ writing'[d] <=> msgQueue'[d] # <<>>
  BY <1>1, <1>3 DEF MapConsistent, MembersAreServed
<1>8. QED
  BY <1>1, <1>4, <1>5, <1>6, <1>7, SameMap

\* A process in which no session has started satisfies the invariant.
LEMMA FreshInv ==
  ASSUME TypeOK, sessions = <<>>,
         phase = [c \in Conn |-> "idle"],
         msgQueue = [c \in Conn |-> <<>>],
         writing = [c \in Conn |-> FALSE]
  PROVE  SessionInv
<1>1. Started = {}
  BY DEF Started
<1>2. DOMAIN sessions = {} /\ Members = {}
  BY DEF Members
<1>3. QED
  BY <1>1, <1>2 DEF SessionInv, Pending, Seated, MapConsistent, MembersAreServed

LEMMA InitInv == SessionInit => SessionInv
<1> SUFFICES ASSUME SessionInit PROVE SessionInv
  OBVIOUS
<1>1. TypeOK
  BY SessionServerAssumption DEF SessionInit, TypeOK
<1>2. QED
  BY <1>1, FreshInv DEF SessionInit

LEMMA RestartInv ==
  ASSUME SessionInv, Restart
  PROVE  SessionInv'
<1>1. TypeOK'
  <2>1. /\ server' = "running" /\ starts' \in 1..MaxStarts
        /\ acceptor' \in BOOLEAN /\ lastId' \in Nat
    BY SessionServerAssumption DEF SessionInv, TypeOK, Restart
  <2>2. DOMAIN sessions' \subseteq 1..lastId' /\ sessions' \in [DOMAIN sessions' -> Conn]
    BY DEF Restart
  <2>3. /\ id' \in [Conn -> Nat]
        /\ phase' \in [Conn -> {"idle", "header", "body", "done"}]
        /\ writing' \in [Conn -> BOOLEAN]
        /\ clientId' \in [Conn -> Nat]
        /\ conn' \in [Conn -> {"unused", "open", "closed"}]
    BY DEF Restart
  <2>4. /\ msgQueue' \in [Conn -> Seq(Packet)]
        /\ sent' \in [Conn -> Seq(Packet)]
        /\ wire' \in [Conn -> Seq(Packet)]
        /\ taken' \in [Conn -> Nat]
        /\ \A c \in Conn : taken'[c] <= Len(sent'[c])
    BY DEF Restart
  <2>5. QED
    BY <2>1, <2>2, <2>3, <2>4 DEF TypeOK
<1>2. Started' = {} /\ Members' = {} /\ DOMAIN sessions' = {}
  BY DEF Restart, Started, Members
<1>3. Pending'
  BY DEF Restart, Pending
<1>4. QED
  BY <1>1, <1>2, <1>3
  DEF SessionInv, Seated, MapConsistent, MembersAreServed, Restart

-----------------------------------------------------------------------------
(* The theorems.                                                           *)

\* SessionInv is inductive: no handler, client, other thread or restart takes
\* a state in which it holds to one in which it does not.
THEOREM SessionInvInductive ==
  /\ SessionInit => SessionInv
  /\ SessionInv /\ [SessionNext]_vars => SessionInv'
<1>1. ASSUME SessionInv, SessionNext
      PROVE  SessionInv'
  <2>1. ASSUME NEW c \in Conn, HandleReadBody(c)
        PROVE  SessionInv'
    <3>1. CASE HandleReadBodyFails(c)
      <4>1. Running /\ phase[c] # "idle" /\ DropSession(c)
        BY <3>1 DEF HandleReadBodyFails
      <4>2. QED
        BY <1>1, <4>1, DropSessionInv
    <3>2. QED
      BY <1>1, <2>1, <3>1, RecvBcastInv, RecvUcastInv, RecvDisconnectInv,
         RecvOtherInv, RecvQueryInv
      DEF HandleReadBody
  <2>2. ASSUME NEW c \in Conn, HandleReadHeaderFails(c)
        PROVE  SessionInv'
    <3>1. Running /\ phase[c] # "idle" /\ DropSession(c)
      BY <2>2 DEF HandleReadHeaderFails
    <3>2. QED
      BY <1>1, <3>1, DropSessionInv
  <2>3. QED
    BY <1>1, <2>1, <2>2, HandleAcceptInv, HandleReadHeaderInv, HandleWriteInv,
       HandleWriteFailsInv, ClientInv, EnvironmentInv, RestartInv
    DEF SessionNext
<1>2. ASSUME SessionInv, UNCHANGED vars
      PROVE  SessionInv'
  BY <1>2
  DEF vars, sessionVars, clientVars, SessionInv, TypeOK, Pending, Seated,
      MapConsistent, MembersAreServed, Started, Members, Running, Unread
<1>3. QED
  BY <1>1, <1>2, InitInv

\* Every reachable state satisfies SessionInv.
THEOREM SessionInvInvariant == SessionSpec => []SessionInv
<1>1. SessionInit => SessionInv
  BY SessionInvInductive
<1>2. SessionInv /\ [SessionNext]_vars => SessionInv'
  BY SessionInvInductive
<1>3. QED
  BY <1>1, <1>2, PTL DEF SessionSpec

\* Type correctness of the connection layer.
THEOREM TypeCorrect == SessionSpec => []TypeOK
<1>1. SessionInv => TypeOK
  BY DEF SessionInv
<1>2. QED
  BY <1>1, SessionInvInvariant, PTL

\* The map of sessions is consistent, with any number of clients and packets.
THEOREM MapStaysConsistent == SessionSpec => []MapConsistent
<1>1. SessionInv => MapConsistent
  BY DEF SessionInv
<1>2. QED
  BY <1>1, SessionInvInvariant, PTL

\* No session in the map ever stops writing while it has packets to send.
THEOREM MembersStayServed == SessionSpec => []MembersAreServed
<1>1. SessionInv => MembersAreServed
  BY DEF SessionInv
<1>2. QED
  BY <1>1, SessionInvInvariant, PTL
=============================================================================
