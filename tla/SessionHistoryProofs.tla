------------------------ MODULE SessionHistoryProofs ------------------------
(***************************************************************************)
(* What clients have been given, over the whole life of the server: proofs *)
(* that IdAnnounced, OnlyAddressee, RelayInOrder and FailuresExplained are *)
(* invariants of the connection layer, for every value of the constants.   *)
(*                                                                         *)
(* Each action is first reduced to what it does to the map, the packets    *)
(* read and Outbox (the kinds of steps below); the invariants are then     *)
(* proved of the kinds.                                                    *)
(***************************************************************************)
EXTENDS SessionServerProofs

-----------------------------------------------------------------------------
(* The kinds of steps.                                                     *)

Relay == {"MT_BCAST", "MT_UCAST"}

\* The members a packet is for.
Addressees(p) ==
  IF p.type = "MT_BCAST" THEN {d \in Members : id[d] # p.senderId}
                         ELSE {d \in Members : id[d] = p.reciverId}

\* The sessions in S, and no others, are given p.
Given(S, p) ==
  \A d \in Conn : Outbox(d)' = IF d \in S THEN Append(Outbox(d), p) ELSE Outbox(d)

NothingGiven == \A d \in Conn : Outbox(d)' = Outbox(d)

\* The session of c is accepted.
Enters(c) ==
  /\ Running /\ Running'
  /\ c \in Conn \ Started
  /\ lastId'  = lastId + 1
  /\ id'      = [id EXCEPT ![c] = lastId + 1]
  /\ Started' = Started \cup {c}
  /\ Members' = Members \cup {c}
  /\ Given({c}, SetId(lastId + 1))
  /\ UNCHANGED <<sent, taken, clientId>>

\* The next packet of c is read, and p given to the members it is for.
Serves(c, p) ==
  /\ Running
  /\ c \in Started /\ Unread(c)
  /\ p \in Packet
  /\ \/ p = Incoming(c) /\ p.type \in Relay
     \/ p = Answer(Incoming(c)) /\ p.type \in Query
  /\ taken'   = [taken EXCEPT ![c] = @ + 1]
  /\ Started' = Started
  /\ Members' = Members
  /\ Given(Addressees(p), p)
  /\ UNCHANGED <<lastId, id, sent, clientId>>

\* The next packet of c is read and nothing is given for it.
Consumes(c) ==
  /\ Running
  /\ c \in Started /\ Unread(c)
  /\ Incoming(c).type \notin Relay
  /\ taken'   = [taken EXCEPT ![c] = @ + 1]
  /\ Started' = Started
  /\ Members' \in {Members, Members \ {c}}
  /\ NothingGiven
  /\ UNCHANGED <<lastId, id, sent, clientId>>

\* Client c sends p, or reads the id it is given.
Sends(c, p) ==
  /\ p \in Packet /\ p.senderId = clientId[c]
  /\ sent' = [sent EXCEPT ![c] = Append(@, p)]
  /\ UNCHANGED clientId

Learns(c) ==
  /\ \E k \in DOMAIN Outbox(c) :
        /\ Outbox(c)[k].type = "MT_SET_ID"
        /\ clientId' = [clientId EXCEPT ![c] = Outbox(c)[k].reciverId]
  /\ UNCHANGED sent

\* Nothing is accepted, read or given; c may leave, and clients may act.
Rests(c) ==
  /\ Running
  /\ c \in Conn
  /\ Started' = Started
  /\ Members' \in {Members, Members \ {c}}
  /\ NothingGiven
  /\ UNCHANGED <<lastId, id, taken>>
  /\ \/ UNCHANGED <<sent, clientId>>
     \/ Learns(c)
     \/ \E p \in Packet : Sends(c, p)

\* The process ends, or a step changes nothing that is looked at here.
Still ==
  /\ Running' => Running
  /\ UNCHANGED <<lastId, id, sent, taken, clientId>>
  /\ Started' = Started
  /\ Members' = Members
  /\ NothingGiven

-----------------------------------------------------------------------------
(* What the operations do to Outbox and the members.                       *)

\* What a client has been given is a sequence of packets.
LEMMA OutboxType ==
  ASSUME TypeOK
  PROVE  \A d \in Conn : Outbox(d) \in Seq(Packet)
BY ConcatProperties DEF TypeOK, Outbox

\* An element appended to the second of two sequences is appended to both.
LEMMA ConcatAppend ==
  ASSUME NEW s \in Seq(Packet), NEW t \in Seq(Packet), NEW p \in Packet
  PROVE  s \o Append(t, p) = Append(s \o t, p)
<1>1. <<p>> \in Seq(Packet) /\ s \o t \in Seq(Packet)
  BY ConcatProperties
<1>2. Append(t, p) = t \o <<p>> /\ Append(s \o t, p) = (s \o t) \o <<p>>
  BY <1>1, AppendIsConcat
<1>3. QED
  BY <1>1, <1>2, ConcatAssociative

\* The head of the second of two sequences may as well end the first.
LEMMA ConcatHead ==
  ASSUME NEW s \in Seq(Packet), NEW t \in Seq(Packet), t # <<>>
  PROVE  Append(s, Head(t)) \o Tail(t) = s \o t
<1>1. /\ Head(t) \in Packet /\ Tail(t) \in Seq(Packet)
      /\ <<Head(t)>> \in Seq(Packet)
  BY HeadTailProperties
<1>2. Append(s, Head(t)) = s \o <<Head(t)>>
  BY <1>1, AppendIsConcat
<1>3. Append(s, Head(t)) \o Tail(t) = s \o (<<Head(t)>> \o Tail(t))
  BY <1>1, <1>2, ConcatAssociative
<1>4. <<Head(t)>> \o Tail(t) = t
  <2>1. Len(<<Head(t)>>) = 1 /\ <<Head(t)>>[1] = Head(t) /\ Head(t) = t[1]
    OBVIOUS
  <2>2. Len(t) \in Nat \ {0} /\ Len(Tail(t)) = Len(t) - 1
    BY EmptySeq, HeadTailProperties
  <2>3. /\ <<Head(t)>> \o Tail(t) \in Seq(Packet)
        /\ Len(<<Head(t)>> \o Tail(t)) = Len(t)
        /\ \A i \in 1..Len(t) :
             (<<Head(t)>> \o Tail(t))[i] = IF i <= 1 THEN <<Head(t)>>[i] ELSE Tail(t)[i - 1]
    BY <1>1, <2>1, <2>2, ConcatProperties
  <2>4. \A i \in 1..Len(t) : (<<Head(t)>> \o Tail(t))[i] = t[i]
    <3>1. \A i \in 1..Len(Tail(t)) : Tail(t)[i] = t[i + 1]
      BY HeadTailProperties
    <3>2. QED
      BY <2>1, <2>2, <2>3, <3>1
  <2>5. QED
    BY <2>3, <2>4, SeqEqual
<1>5. QED
  BY <1>3, <1>4

\* A packet that joins a queue is the last one the client is given.
LEMMA DeliverGiven ==
  ASSUME TypeOK, NEW S \in SUBSET Conn, NEW p \in Packet, Deliver(S, p),
         UNCHANGED wire
  PROVE  Given(S, p)
<1> SUFFICES ASSUME NEW d \in Conn
             PROVE  Outbox(d)' = IF d \in S THEN Append(Outbox(d), p) ELSE Outbox(d)
  BY DEF Given
<1>1. wire[d] \in Seq(Packet) /\ msgQueue[d] \in Seq(Packet)
  BY DEF TypeOK
<1>2. wire[d] \o Append(msgQueue[d], p) = Append(wire[d] \o msgQueue[d], p)
  BY <1>1, ConcatAppend
<1>3. msgQueue'[d] = IF d \in S THEN Append(msgQueue[d], p) ELSE msgQueue[d]
  BY DEF Deliver
<1>4. QED
  BY <1>2, <1>3 DEF Outbox

\* A packet that is written moves from the queue to the wire.
LEMMA HandleWriteGiven ==
  ASSUME TypeOK, Pending, NEW c \in Conn, HandleWrite(c)
  PROVE  NothingGiven
<1>1. wire[c] \in Seq(Packet) /\ msgQueue[c] \in Seq(Packet) /\ msgQueue[c] # <<>>
  BY DEF TypeOK, Pending, HandleWrite
<1>2. Append(wire[c], Head(msgQueue[c])) \o Tail(msgQueue[c]) = wire[c] \o msgQueue[c]
  BY <1>1, ConcatHead
<1>3. /\ wire' = [wire EXCEPT ![c] = Append(@, Head(msgQueue[c]))]
      /\ msgQueue' = [msgQueue EXCEPT ![c] = Tail(@)]
  BY DEF HandleWrite
<1>4. QED
  BY <1>2, <1>3 DEF TypeOK, Outbox, NothingGiven

\* The map has, under the id of a session that has started, this session.
LEMMA MemberIds ==
  ASSUME SessionInv
  PROVE  /\ \A c \in Started : c \in Members <=> id[c] \in DOMAIN sessions
         /\ \A r : {sessions[i] : i \in DOMAIN sessions \cap {r}}
                     = {d \in Members : id[d] = r}
<1> USE DEF SessionInv, MapConsistent, Seated, Members
<1>1. \A i \in DOMAIN sessions : sessions[i] \in Started /\ id[sessions[i]] = i
  OBVIOUS
<1>2. QED
  BY <1>1

\* Leave takes the session out of the members.
LEMMA LeaveMembers ==
  ASSUME SessionInv, NEW c \in Started, Leave(c)
  PROVE  Members' = Members \ {c}
<1>1. /\ DOMAIN sessions' = DOMAIN sessions \ {id[c]}
      /\ \A i \in DOMAIN sessions' : sessions'[i] = sessions[i]
  BY DEF Leave
<1>2. /\ \A i \in DOMAIN sessions : id[sessions[i]] = i
      /\ \A d \in Members : d \in Started
      /\ \A d, e \in Started : id[d] = id[e] => d = e
  BY DEF SessionInv, MapConsistent, Seated
<1>3. QED
  BY <1>1, <1>2 DEF Members

-----------------------------------------------------------------------------
(* Every action is a step of one of the kinds.                             *)

\* Accepting a session starts it, joins it and gives it its id.
LEMMA HandleAcceptEnters ==
  ASSUME SessionInv, NEW c \in Conn, HandleAccept(c)
  PROVE  Enters(c)
<1> USE DEF SessionInv
<1>1. /\ Running /\ phase[c] = "idle"
      /\ phase' = [phase EXCEPT ![c] = "header"]
      /\ UNCHANGED <<server, conn, sent, taken, wire, clientId>>
  BY DEF HandleAccept, Backlog, WaitFor, clientVars
<1>2. /\ lastId' = lastId + 1
      /\ id' = [id EXCEPT ![c] = lastId + 1]
      /\ sessions' = [i \in DOMAIN sessions \cup {lastId + 1} |->
                        IF i = lastId + 1 THEN c ELSE sessions[i]]
  BY DEF HandleAccept, Join
<1>3. Started' = Started \cup {c} /\ c \in Conn \ Started /\ Running'
  BY <1>1 DEF Started, TypeOK, Running
<1>4. Members' = Members \cup {c}
  <2>1. lastId + 1 \notin DOMAIN sessions
    BY DEF TypeOK
  <2>2. /\ DOMAIN sessions' = DOMAIN sessions \cup {lastId + 1}
        /\ sessions'[lastId + 1] = c
        /\ \A i \in DOMAIN sessions : sessions'[i] = sessions[i]
    BY <1>2, <2>1
  <2>3. QED
    BY <2>2 DEF Members
<1>5. Given({c}, SetId(lastId + 1))
  <2>1. lastId + 1 \in Nat
    BY DEF TypeOK
  <2>2. SetId(lastId + 1) \in Packet
    BY <2>1, ServerPacketType
  <2>3. Deliver({c}, SetId(lastId + 1))
    BY <1>2 DEF HandleAccept
  <2>4. QED
    BY <1>1, <2>2, <2>3, DeliverGiven
<1>6. QED
  BY <1>1, <1>2, <1>3, <1>4, <1>5 DEF Enters

\* The cases of HandleReadBody that give a packet to somebody ...
LEMMA ReadBodyServes ==
  ASSUME SessionInv, NEW c \in Conn, NEW out,
         \/ RecvBcast(c, out)
         \/ RecvUcast(c, out)
         \/ RecvQuery(c, Query)
  PROVE  \E p \in Packet : Serves(c, p)
<1> USE DEF SessionInv
<1>1. /\ Running /\ phase[c] = "body" /\ BodyHandled(c) /\ UNCHANGED sessions
      /\ server' \in {out, UcastOutcome(Incoming(c).reciverId, out),
                      UcastOutcome(Incoming(c).senderId, "running")}
  BY DEF RecvBcast, RecvUcast, RecvQuery, BodyArrives
<1>2. c \in Started /\ Unread(c) /\ Incoming(c) \in Packet
  BY <1>1, IncomingType DEF Started, Pending
<1>3. /\ taken' = [taken EXCEPT ![c] = @ + 1]
      /\ UNCHANGED <<lastId, id, sent, clientId, wire>>
      /\ phase'[c] \in {"header", "done"}
      /\ \A d \in Conn \ {c} : phase'[d] = phase[d]
  BY <1>1 DEF BodyHandled, WaitFor, TypeOK
<1>4. Started' = Started /\ Members' = Members
  BY <1>1, <1>2, <1>3 DEF Started, Members
<1>5. \E p \in Packet :
         /\ \/ p = Incoming(c) /\ p.type \in Relay
            \/ p = Answer(Incoming(c)) /\ p.type \in Query
         /\ Deliver(Addressees(p), p)
  <2>1. CASE RecvBcast(c, out)
    <3>1. Incoming(c).type = "MT_BCAST"
      BY <2>1 DEF RecvBcast, BodyArrives
    <3>2. Deliver(Addressees(Incoming(c)), Incoming(c))
      BY <2>1, <3>1 DEF RecvBcast, Bcast, Addressees
    <3>3. QED
      BY <1>2, <3>1, <3>2 DEF Relay
  <2>2. CASE RecvUcast(c, out)
    <3>1. Incoming(c).type = "MT_UCAST"
      BY <2>2 DEF RecvUcast, BodyArrives
    <3>2. Addressees(Incoming(c))
             = {sessions[i] : i \in DOMAIN sessions \cap {Incoming(c).reciverId}}
      BY <3>1, MemberIds DEF Addressees
    <3>3. Deliver(Addressees(Incoming(c)), Incoming(c))
      BY <2>2, <3>2 DEF RecvUcast, Ucast
    <3>4. QED
      BY <1>2, <3>1, <3>3 DEF Relay
  <2>3. CASE RecvQuery(c, Query)
    <3> DEFINE p == Answer(Incoming(c))
    <3>1. Incoming(c).type \in Query
      BY <2>3 DEF RecvQuery, BodyArrives
    <3>2. /\ p \in Packet /\ p.type \in Query /\ p.type # "MT_BCAST"
          /\ p.reciverId = Incoming(c).senderId
      BY <1>2, <3>1, ServerPacketType DEF Answer, Query
    <3>3. Addressees(p) = {sessions[i] : i \in DOMAIN sessions \cap {Incoming(c).senderId}}
      BY <3>2, MemberIds DEF Addressees
    <3>4. Deliver(Addressees(p), p)
      BY <2>3, <3>3 DEF RecvQuery, Ucast
    <3>5. QED
      BY <3>2, <3>4
  <2>4. QED
    BY <2>1, <2>2, <2>3
<1>6. PICK p \in Packet :
         /\ \/ p = Incoming(c) /\ p.type \in Relay
            \/ p = Answer(Incoming(c)) /\ p.type \in Query
         /\ Deliver(Addressees(p), p)
  BY <1>5
<1>7. Addressees(p) \in SUBSET Conn
  BY DEF Addressees, Seated, Started
<1>8. Given(Addressees(p), p)
  BY <1>3, <1>6, <1>7, DeliverGiven
<1>9. QED
  BY <1>1, <1>2, <1>3, <1>4, <1>6, <1>8 DEF Serves

\* ... and those that do not.
LEMMA ReadBodyConsumes ==
  ASSUME SessionInv, NEW c \in Conn, NEW out,
         RecvDisconnect(c, out) \/ RecvOther(c, MsgType, out)
  PROVE  Consumes(c)
<1> USE DEF SessionInv
<1>1. /\ Running /\ phase[c] = "body" /\ BodyHandled(c)
      /\ UNCHANGED <<msgQueue, writing>>
      /\ Incoming(c).type \notin Relay
      /\ Leave(c) \/ UNCHANGED sessions
  BY DEF RecvDisconnect, RecvOther, BodyArrives, Relay
<1>2. c \in Started /\ Unread(c)
  BY <1>1 DEF Started, Pending
<1>3. /\ taken' = [taken EXCEPT ![c] = @ + 1]
      /\ UNCHANGED <<lastId, id, sent, clientId, wire>>
      /\ phase'[c] \in {"header", "done"}
      /\ \A d \in Conn \ {c} : phase'[d] = phase[d]
  BY <1>1 DEF BodyHandled, WaitFor, TypeOK
<1>4. Started' = Started
  BY <1>2, <1>3 DEF Started
<1>5. Members' \in {Members, Members \ {c}}
  <2>1. CASE Leave(c)
    BY <1>2, <2>1, LeaveMembers
  <2>2. CASE UNCHANGED sessions
    BY <2>2 DEF Members
  <2>3. QED
    BY <1>1, <2>1, <2>2
<1>6. NothingGiven
  BY <1>1, <1>3 DEF NothingGiven, Outbox
<1>7. QED
  BY <1>1, <1>2, <1>3, <1>4, <1>5, <1>6 DEF Consumes

\* A session that leaves because its connection failed.
LEMMA FailureRests ==
  ASSUME SessionInv, NEW c \in Conn,
         \/ HandleReadHeaderFails(c)
         \/ HandleReadBodyFails(c)
         \/ HandleWriteFails(c)
  PROVE  Rests(c)
<1> USE DEF SessionInv
<1>1. /\ Running /\ Leave(c)
      /\ UNCHANGED <<lastId, id, msgQueue, conn, sent, taken, wire, clientId>>
  BY DEF HandleReadHeaderFails, HandleReadBodyFails, HandleWriteFails,
         DropSession, clientVars
<1>2. c \in Started
  BY DEF HandleReadHeaderFails, HandleReadBodyFails, HandleWriteFails, Started,
         Pending, Seated
<1>3. \/ phase' = phase
      \/ phase' = [phase EXCEPT ![c] = "done"]
  BY DEF HandleReadHeaderFails, HandleReadBodyFails, HandleWriteFails,
         DropSession, WaitFor
<1>4. Started' = Started
  BY <1>2, <1>3 DEF Started, TypeOK
<1>5. Members' = Members \ {c}
  BY <1>1, <1>2, LeaveMembers
<1>6. NothingGiven
  BY <1>1 DEF NothingGiven, Outbox
<1>7. QED
  BY <1>1, <1>4, <1>5, <1>6 DEF Rests

\* What a client does changes its own side only.
LEMMA ClientRests ==
  ASSUME SessionInv, NEW c \in Conn, Client(c)
  PROVE  Rests(c)
<1> USE DEF SessionInv
<1>1. /\ Running
      /\ UNCHANGED <<lastId, id, sessions, phase, msgQueue, wire, taken>>
  BY DEF Client, Connect, LearnId, ClientSend, ClientClose, sessionVars
<1>2. Started' = Started /\ Members' = Members /\ NothingGiven
  BY <1>1 DEF Started, Members, NothingGiven, Outbox
<1>3. CASE Connect(c) \/ ClientClose(c)
  BY <1>1, <1>2, <1>3 DEF Rests, Connect, ClientClose
<1>4. CASE LearnId(c)
  <2>1. PICK k \in DOMAIN wire[c] :
          /\ wire[c][k].type = "MT_SET_ID"
          /\ clientId' = [clientId EXCEPT ![c] = wire[c][k].reciverId]
    BY <1>4 DEF LearnId
  <2>2. wire[c] \in Seq(Packet) /\ msgQueue[c] \in Seq(Packet)
    BY DEF TypeOK
  <2>3. k \in DOMAIN Outbox(c) /\ Outbox(c)[k] = wire[c][k]
    <3>1. k \in 1..Len(wire[c]) /\ Len(wire[c]) \in Nat /\ Len(msgQueue[c]) \in Nat
      BY <2>1, <2>2, LenProperties
    <3>2. /\ Outbox(c) \in Seq(Packet)
          /\ Len(Outbox(c)) = Len(wire[c]) + Len(msgQueue[c])
          /\ \A i \in 1..Len(wire[c]) + Len(msgQueue[c]) :
               Outbox(c)[i] = IF i <= Len(wire[c]) THEN wire[c][i]
                              ELSE msgQueue[c][i - Len(wire[c])]
      BY <2>2, ConcatProperties DEF Outbox
    <3>3. /\ k \in 1..Len(wire[c]) + Len(msgQueue[c])
          /\ k <= Len(wire[c])
      <4>1. \A m, n \in Nat : \A i \in 1..m : i \in 1..m + n /\ i <= m
        OBVIOUS
      <4>2. QED
        BY <3>1, <4>1
    <3>4. k \in DOMAIN Outbox(c)
      BY <3>2, <3>3, LenProperties
    <3>5. QED
      BY <3>2, <3>3, <3>4
  <2>4. Learns(c)
    BY <1>4, <2>1, <2>3 DEF Learns, LearnId
  <2>5. QED
    BY <1>1, <1>2, <2>4 DEF Rests
<1>5. ASSUME NEW p \in ClientPacket(c), ClientSend(c, p)
      PROVE  Rests(c)
  <2>1. p \in Packet /\ p.senderId = clientId[c]
    BY ClientPacketType DEF ClientPacket
  <2>2. Sends(c, p)
    BY <1>5, <2>1 DEF ClientSend, Sends
  <2>3. QED
    BY <1>1, <1>2, <2>1, <2>2 DEF Rests
<1>6. QED
  BY <1>3, <1>4, <1>5 DEF Client

\* Steps that none of the properties below sees.
LEMMA OtherStepsStill ==
  ASSUME SessionInv,
         \/ \E c \in Conn : HandleReadHeader(c) \/ HandleWrite(c)
         \/ HandleAcceptFails \/ Quit \/ OtherThreadThrows
         \/ UNCHANGED vars
  PROVE  Still
<1> USE DEF SessionInv
<1>1. ASSUME NEW c \in Conn, HandleReadHeader(c)
      PROVE  Still
  <2>1. /\ Running /\ phase[c] = "header"
        /\ phase' = [phase EXCEPT ![c] = "body"]
        /\ UNCHANGED <<server, lastId, sessions, id, msgQueue, sent, taken,
                       wire, clientId>>
    BY <1>1 DEF HandleReadHeader, WaitFor, clientVars
  <2>2. Started' = Started
    BY <2>1 DEF Started, TypeOK
  <2>3. QED
    BY <2>1, <2>2 DEF Still, NothingGiven, Outbox, Members
<1>2. ASSUME NEW c \in Conn, HandleWrite(c)
      PROVE  Still
  <2>1. NothingGiven
    BY <1>2, HandleWriteGiven
  <2>2. QED
    BY <1>2, <2>1 DEF HandleWrite, Still, Started, Members
<1>3. CASE HandleAcceptFails \/ Quit \/ OtherThreadThrows \/ UNCHANGED vars
  <2>1. /\ UNCHANGED <<lastId, sessions, id, phase, msgQueue, sent, taken,
                       wire, clientId>>
        /\ Running' => Running
    BY <1>3 DEF HandleAcceptFails, Quit, OtherThreadThrows, vars, sessionVars,
                clientVars, Running
  <2>2. QED
    BY <2>1 DEF Still, NothingGiven, Outbox, Members, Started
<1>4. QED
  BY <1>1, <1>2, <1>3

\* The steps of the connection layer are steps of these kinds.
LEMMA StepKinds ==
  ASSUME SessionInv, [SessionNext]_vars
  PROVE  \/ \E c \in Conn : Enters(c)
         \/ \E c \in Conn, p \in Packet : Serves(c, p)
         \/ \E c \in Conn : Consumes(c) \/ Rests(c)
         \/ Still
         \/ Restart
<1>1. ASSUME NEW c \in Conn, HandleReadBody(c)
      PROVE  \/ \E p \in Packet : Serves(c, p)
             \/ Consumes(c)
             \/ Rests(c)
  <2>1. CASE HandleReadBodyFails(c)
    BY <2>1, FailureRests
  <2>2. CASE RecvQuery(c, Query)
    BY <2>2, ReadBodyServes
  <2>3. ASSUME NEW out \in Outcome,
               \/ RecvBcast(c, out) \/ RecvUcast(c, out)
               \/ RecvDisconnect(c, out) \/ RecvOther(c, MsgType, out)
        PROVE  Consumes(c) \/ \E p \in Packet : Serves(c, p)
    BY <2>3, ReadBodyServes, ReadBodyConsumes
  <2>4. QED
    BY <1>1, <2>1, <2>2, <2>3 DEF HandleReadBody
<1>2. QED
  BY <1>1, HandleAcceptEnters, FailureRests, ClientRests, OtherStepsStill
  DEF SessionNext

-----------------------------------------------------------------------------
(* Ids: IdAnnounced and what keeps it.                                     *)

\* A session that has not started knows and has given nothing ...
Fresh ==
  \A c \in Conn \ Started : id[c] = 0 /\ taken[c] = 0 /\ Outbox(c) = <<>>

\* ... what a client has sent carries its own id, or 0 ...
SendersKnown ==
  \A c \in Conn : \A k \in DOMAIN sent[c] : sent[c][k].senderId \in {0, id[c]}

\* ... and what is relayed carries an id that has been given.
RelayedKnown ==
  \A c \in Conn : \A k \in DOMAIN Outbox(c) :
    Outbox(c)[k].type \in Relay => Outbox(c)[k].senderId <= lastId

\* The inductive invariant behind IdAnnounced.
IdInv == IdAnnounced /\ Fresh /\ SendersKnown /\ RelayedKnown

\* What has been given stays; a packet just given is the last.
LEMMA GivenOutbox ==
  ASSUME TypeOK, NEW S, NEW p \in Packet, Given(S, p), NEW d \in Conn
  PROVE  /\ d \notin S => Outbox(d)' = Outbox(d)
         /\ \E n \in Nat :
              /\ DOMAIN Outbox(d) = 1..n
              /\ n = 0 <=> Outbox(d) = <<>>
              /\ d \in S => /\ DOMAIN Outbox(d)' = 1..n + 1
                            /\ Outbox(d)' # <<>>
                            /\ Outbox(d)'[n + 1] = p
                            /\ \A k \in 1..n : Outbox(d)'[k] = Outbox(d)[k]
<1>1. Outbox(d) \in Seq(Packet)
  BY OutboxType
<1>2. Outbox(d)' = IF d \in S THEN Append(Outbox(d), p) ELSE Outbox(d)
  BY DEF Given
<1> DEFINE n == Len(Outbox(d))
<1>3. n \in Nat /\ DOMAIN Outbox(d) = 1..n /\ (n = 0 <=> Outbox(d) = <<>>)
  BY <1>1, LenProperties, EmptySeq
<1>4. /\ Append(Outbox(d), p) \in Seq(Packet)
      /\ Append(Outbox(d), p) # <<>>
      /\ Len(Append(Outbox(d), p)) = n + 1
      /\ \A k \in 1..n : Append(Outbox(d), p)[k] = Outbox(d)[k]
      /\ Append(Outbox(d), p)[n + 1] = p
  BY <1>1, AppendProperties
<1>5. DOMAIN Append(Outbox(d), p) = 1..n + 1
  BY <1>4, LenProperties
<1>6. QED
  BY <1>2, <1>3, <1>4, <1>5

\* The new id is above all others, and is told first.
LEMMA EntersIdInv ==
  ASSUME SessionInv, IdInv, NEW c \in Conn, Enters(c)
  PROVE  IdInv'
<1> USE DEF IdInv
<1> DEFINE p == SetId(lastId + 1)
<1>1. /\ c \notin Started /\ Started' = Started \cup {c}
      /\ lastId' = lastId + 1 /\ lastId \in Nat
      /\ id'[c] = lastId + 1 /\ \A d \in Conn \ {c} : id'[d] = id[d]
      /\ Given({c}, p)
      /\ UNCHANGED <<sent, taken, clientId>>
  BY DEF Enters, SessionInv, TypeOK
<1>2. p \in Packet
  BY <1>1, ServerPacketType
<1>3. \A d \in Conn \ {c} : Outbox(d)' = Outbox(d)
  BY <1>1 DEF Given
<1>4. Outbox(c)' = <<p>> /\ DOMAIN Outbox(c)' = {1} /\ Outbox(c)'[1] = p
  <2>1. Outbox(c) = <<>> /\ Outbox(c)' = Append(Outbox(c), p)
    BY <1>1 DEF Fresh, Given
  <2>2. QED
    BY <2>1
<1>5. id[c] = 0 /\ clientId[c] = 0
  BY <1>1 DEF Fresh, IdAnnounced
<1>6. p.type = "MT_SET_ID" /\ p.type \notin Relay
  BY DEF SetId, Relay
<1>7. IdAnnounced'
  <2>1. \A d \in Conn \ {c} :
          /\ d \in Started' => Outbox(d)' # <<>> /\ Outbox(d)'[1] = SetId(id'[d])
          /\ \A k \in DOMAIN Outbox(d)' : Outbox(d)'[k].type = "MT_SET_ID" => k = 1
          /\ clientId'[d] \in {0, id'[d]}
    BY <1>1, <1>3 DEF IdAnnounced
  <2>2. /\ Outbox(c)' # <<>> /\ Outbox(c)'[1] = SetId(id'[c])
        /\ \A k \in DOMAIN Outbox(c)' : k = 1
        /\ clientId'[c] \in {0, id'[c]}
    BY <1>1, <1>4, <1>5
  <2>3. QED
    BY <2>1, <2>2 DEF IdAnnounced
<1>8. Fresh'
  BY <1>1, <1>3 DEF Fresh
<1>9. SendersKnown'
  BY <1>1, <1>5 DEF SendersKnown
<1>10. RelayedKnown'
  <2>1. \A d \in Conn \ {c} : \A k \in DOMAIN Outbox(d)' :
          Outbox(d)'[k].type \in Relay => Outbox(d)'[k].senderId <= lastId'
    <3>1. \A d \in Conn : \A k \in DOMAIN Outbox(d) : Outbox(d)[k] \in Packet
      BY OutboxType DEF SessionInv
    <3>2. \A d \in Conn : \A k \in DOMAIN Outbox(d) : Outbox(d)[k].senderId \in Nat
      BY <3>1 DEF Packet
    <3>3. QED
      BY <1>1, <1>3, <3>2 DEF RelayedKnown
  <2>2. \A k \in DOMAIN Outbox(c)' : Outbox(c)'[k].type \notin Relay
    BY <1>4, <1>6
  <2>3. QED
    BY <2>1, <2>2 DEF RelayedKnown
<1>11. QED
  BY <1>7, <1>8, <1>9, <1>10

\* What is given carries an id that is known.
LEMMA ServesIdInv ==
  ASSUME SessionInv, IdInv, NEW c \in Conn, NEW p \in Packet, Serves(c, p)
  PROVE  IdInv'
<1> USE DEF IdInv
<1>1. /\ Started' = Started /\ c \in Started
      /\ taken' = [taken EXCEPT ![c] = @ + 1]
      /\ Given(Addressees(p), p)
      /\ UNCHANGED <<lastId, id, sent, clientId>>
  BY DEF Serves
<1>2. p.type \in Relay => p = Incoming(c)
  BY DEF Serves, Relay, Query
<1>3. p.type # "MT_SET_ID"
  BY DEF Serves, Relay, Query
<1>4. Addressees(p) \subseteq Started
  BY DEF Addressees, SessionInv, Seated
<1>5. p.type \in Relay => p.senderId <= lastId
  <2>1. taken[c] + 1 \in DOMAIN sent[c] /\ Incoming(c) = sent[c][taken[c] + 1]
    <3>1. sent[c] \in Seq(Packet) /\ taken[c] \in Nat /\ Unread(c)
      BY DEF SessionInv, TypeOK, Serves
    <3>2. taken[c] + 1 \in 1..Len(sent[c])
      BY <3>1, LenProperties DEF Unread
    <3>3. QED
      BY <3>1, <3>2, LenProperties DEF Incoming
  <2>2. Incoming(c).senderId \in {0, id[c]}
    BY <2>1 DEF SendersKnown
  <2>3. id[c] \in 1..lastId /\ lastId \in Nat
    BY <1>1 DEF SessionInv, Seated, TypeOK
  <2>4. QED
    BY <1>2, <2>2, <2>3
<1>6. ASSUME NEW d \in Conn
      PROVE  /\ d \in Started => Outbox(d)' # <<>> /\ Outbox(d)'[1] = Outbox(d)[1]
             /\ d \notin Started => Outbox(d)' = Outbox(d)
             /\ \A k \in DOMAIN Outbox(d)' :
                  \/ k \in DOMAIN Outbox(d) /\ Outbox(d)'[k] = Outbox(d)[k]
                  \/ Outbox(d)'[k] = p
  <2>1. PICK n \in Nat :
          /\ DOMAIN Outbox(d) = 1..n
          /\ n = 0 <=> Outbox(d) = <<>>
          /\ d \in Addressees(p) =>
               /\ DOMAIN Outbox(d)' = 1..n + 1
               /\ Outbox(d)' # <<>>
               /\ Outbox(d)'[n + 1] = p
               /\ \A k \in 1..n : Outbox(d)'[k] = Outbox(d)[k]
    BY <1>1, GivenOutbox DEF SessionInv
  <2>2. d \notin Addressees(p) => Outbox(d)' = Outbox(d)
    BY <1>1 DEF Given
  <2>3. d \in Started => n # 0
    BY <2>1 DEF IdAnnounced
  <2>4. QED
    BY <1>4, <2>1, <2>2, <2>3 DEF IdAnnounced
<1>7. IdAnnounced'
  BY <1>1, <1>3, <1>6 DEF IdAnnounced
<1>8. Fresh'
  BY <1>1, <1>6 DEF Fresh
<1>9. SendersKnown'
  BY <1>1 DEF SendersKnown
<1>10. RelayedKnown'
  BY <1>1, <1>5, <1>6 DEF RelayedKnown
<1>11. QED
  BY <1>7, <1>8, <1>9, <1>10

\* A client sends under the id it was told, or 0.
LEMMA RestsIdInv ==
  ASSUME SessionInv, IdInv, NEW c \in Conn, Rests(c)
  PROVE  IdInv'
<1> USE DEF IdInv
<1>1. /\ Started' = Started /\ UNCHANGED <<lastId, id, taken>>
      /\ \A d \in Conn : Outbox(d)' = Outbox(d)
  BY DEF Rests, NothingGiven
<1>2. Fresh' /\ RelayedKnown'
  BY <1>1 DEF Fresh, RelayedKnown
<1>3. CASE UNCHANGED <<sent, clientId>>
  BY <1>1, <1>2, <1>3 DEF IdAnnounced, SendersKnown
<1>4. CASE Learns(c)
  <2>1. PICK k \in DOMAIN Outbox(c) :
          /\ Outbox(c)[k].type = "MT_SET_ID"
          /\ clientId' = [clientId EXCEPT ![c] = Outbox(c)[k].reciverId]
    BY <1>4 DEF Learns
  <2>2. c \in Started
    BY <2>1 DEF Fresh
  <2>3. Outbox(c)[k].reciverId = id[c]
    <3>1. Outbox(c)[k] = SetId(id[c])
      BY <2>1, <2>2 DEF IdAnnounced
    <3>2. SetId(id[c]).reciverId = id[c]
      BY DEF SetId
    <3>3. QED
      BY <3>1, <3>2
  <2>4. clientId' = [clientId EXCEPT ![c] = id[c]] /\ UNCHANGED sent
    BY <1>4, <2>1, <2>3 DEF Learns
  <2>5. \A d \in Conn : clientId'[d] \in {0, id[d]}
    BY <2>4 DEF IdAnnounced, SessionInv, TypeOK
  <2>6. IdAnnounced' /\ SendersKnown'
    BY <1>1, <2>4, <2>5 DEF IdAnnounced, SendersKnown
  <2>7. QED
    BY <1>2, <2>6
<1>5. ASSUME NEW p \in Packet, Sends(c, p)
      PROVE  IdInv'
  <2>1. /\ p.senderId \in {0, id[c]}
        /\ sent' = [sent EXCEPT ![c] = Append(@, p)]
        /\ UNCHANGED clientId
    BY <1>5 DEF Sends, IdAnnounced
  <2>2. \A k \in DOMAIN sent'[c] : sent'[c][k].senderId \in {0, id[c]}
    <3>1. sent[c] \in Seq(Packet) /\ sent'[c] = Append(sent[c], p)
      BY <2>1 DEF SessionInv, TypeOK
    <3>2. /\ Len(sent[c]) \in Nat /\ DOMAIN sent[c] = 1..Len(sent[c])
          /\ DOMAIN sent'[c] = 1..Len(sent[c]) + 1
          /\ \A k \in 1..Len(sent[c]) : sent'[c][k] = sent[c][k]
          /\ sent'[c][Len(sent[c]) + 1] = p
      BY <3>1, AppendProperties, LenProperties
    <3>3. QED
      BY <2>1, <3>2 DEF SendersKnown
  <2>3. \A d \in Conn \ {c} : sent'[d] = sent[d]
    BY <2>1 DEF SessionInv, TypeOK
  <2>4. SendersKnown'
    BY <1>1, <2>2, <2>3 DEF SendersKnown
  <2>5. IdAnnounced'
    BY <1>1, <2>1 DEF IdAnnounced
  <2>6. QED
    BY <1>2, <2>4, <2>5
<1>6. QED
  BY <1>3, <1>4, <1>5 DEF Rests

\* Hence every step keeps the ids right.
LEMMA IdInvStep ==
  ASSUME SessionInv, IdInv, [SessionNext]_vars
  PROVE  IdInv'
<1>1. ASSUME NEW c \in Conn, Consumes(c)
      PROVE  IdInv'
  BY <1>1, SMTT(30) DEF Consumes, NothingGiven, IdInv, IdAnnounced, Fresh, SendersKnown,
              RelayedKnown, SessionInv, TypeOK
<1>2. CASE Still
  BY <1>2 DEF Still, NothingGiven, IdInv, IdAnnounced, Fresh, SendersKnown,
              RelayedKnown
<1>3. CASE Restart
  <2>1. Started' = {}
    BY <1>3 DEF Restart, Started
  <2>2. \A c \in Conn : /\ id'[c] = 0 /\ taken'[c] = 0 /\ clientId'[c] = 0
                        /\ sent'[c] = <<>> /\ Outbox(c)' = <<>>
    BY <1>3 DEF Restart, Outbox
  <2>3. QED
    BY <2>1, <2>2 DEF IdInv, IdAnnounced, Fresh, SendersKnown, RelayedKnown
<1>4. QED
  BY <1>1, <1>2, <1>3, StepKinds, EntersIdInv, ServesIdInv, RestsIdInv

LEMMA IdInvInit == SessionInit => IdInv
<1> SUFFICES ASSUME SessionInit PROVE IdInv
  OBVIOUS
<1>1. Started = {}
  BY DEF SessionInit, Started
<1>2. \A c \in Conn : /\ id[c] = 0 /\ taken[c] = 0 /\ clientId[c] = 0
                      /\ sent[c] = <<>> /\ Outbox(c) = <<>>
  BY DEF SessionInit, Outbox
<1>3. QED
  BY <1>1, <1>2 DEF IdInv, IdAnnounced, Fresh, SendersKnown, RelayedKnown

LEMMA IdInvInvariant == SessionSpec => []IdInv
<1>1. SessionInv /\ IdInv /\ [SessionNext]_vars => IdInv'
  BY IdInvStep
<1>2. QED
  BY <1>1, IdInvInit, SessionInvInvariant, PTL DEF SessionSpec

\* Every client is told its id first, once and rightly.
THEOREM IdsAnnounced == SessionSpec => []IdAnnounced
<1>1. IdInv => IdAnnounced
  BY DEF IdInv
<1>2. QED
  BY <1>1, IdInvInvariant, PTL

-----------------------------------------------------------------------------
(* OnlyAddressee.                                                          *)

\* What the server has read stays read while the process runs.
LEMMA ReadGrows ==
  ASSUME SessionInv, [SessionNext]_vars, ~Restart, NEW c \in Conn
  PROVE  /\ 1..taken[c] \subseteq 1..taken'[c]
         /\ \A k \in 1..taken[c] : sent'[c][k] = sent[c][k]
<1>1. taken[c] \in Nat /\ sent[c] \in Seq(Packet) /\ taken[c] <= Len(sent[c])
  BY DEF SessionInv, TypeOK
<1> DEFINE Reads == taken' = taken \/ \E d \in Conn : taken' = [taken EXCEPT ![d] = @ + 1]
           Posts == sent' = sent \/ \E d \in Conn, p \in Packet :
                                      sent' = [sent EXCEPT ![d] = Append(@, p)]
<1>0. Reads /\ Posts
  <2>1. ASSUME NEW d \in Conn, Enters(d)
        PROVE  Reads /\ Posts
    BY <2>1 DEF Enters
  <2>2. ASSUME NEW d \in Conn, NEW p \in Packet, Serves(d, p)
        PROVE  Reads /\ Posts
    BY <2>2 DEF Serves
  <2>3. ASSUME NEW d \in Conn, Consumes(d)
        PROVE  Reads /\ Posts
    BY <2>3 DEF Consumes
  <2>4. ASSUME NEW d \in Conn, Rests(d)
        PROVE  Reads /\ Posts
    BY <2>4 DEF Rests, Learns, Sends
  <2>5. CASE Still
    BY <2>5 DEF Still
  <2>6. QED
    BY <2>1, <2>2, <2>3, <2>4, <2>5, StepKinds
<1>2. taken'[c] \in Nat /\ taken'[c] >= taken[c]
  <2>1. taken'[c] \in {taken[c], taken[c] + 1}
    BY <1>0 DEF SessionInv, TypeOK
  <2>2. QED
    BY <1>1, <2>1
<1>3. \A k \in 1..taken[c] : sent'[c][k] = sent[c][k]
  <2>1. sent \in [Conn -> Seq(Packet)]
    BY DEF SessionInv, TypeOK
  <2>2. ASSUME NEW d \in Conn, NEW p \in Packet, sent' = [sent EXCEPT ![d] = Append(@, p)]
        PROVE  \A k \in 1..taken[c] : sent'[c][k] = sent[c][k]
    <3>1. CASE d = c
      <4>1. sent'[c] = Append(sent[c], p)
        BY <2>1, <2>2, <3>1
      <4>2. \A k \in 1..Len(sent[c]) : sent'[c][k] = sent[c][k]
        BY <1>1, <4>1, AppendProperties
      <4>3. QED
        BY <1>1, <4>2, LenProperties
    <3>2. CASE d # c
      BY <2>1, <2>2, <3>2
    <3>3. QED
      BY <3>1, <3>2
  <2>3. CASE sent' = sent
    BY <2>3
  <2>4. QED
    BY <1>0, <2>2, <2>3
<1>4. 1..taken[c] \subseteq 1..taken'[c]
  BY <1>1, <1>2
<1>5. QED
  BY <1>3, <1>4

LEMMA ReadStaysRead ==
  ASSUME SessionInv, [SessionNext]_vars, ~Restart, NEW c \in Conn, NEW p, ReadFrom(c, p)
  PROVE  ReadFrom(c, p)'
BY ReadGrows DEF ReadFrom

\* A packet that is relayed has just been read, and carries its sender's id, or 0.
LEMMA ServesReads ==
  ASSUME SessionInv, IdInv, NEW c \in Conn, NEW p \in Packet, Serves(c, p),
         p.type = "MT_BCAST"
  PROVE  ReadFrom(c, p)' /\ p.senderId \in {0, id[c]}
<1>1. /\ p = Incoming(c) /\ Unread(c)
      /\ taken' = [taken EXCEPT ![c] = @ + 1] /\ sent' = sent
  BY DEF Serves, Query
<1>2. /\ taken[c] \in Nat /\ taken'[c] = taken[c] + 1
      /\ sent[c] \in Seq(Packet) /\ taken[c] + 1 \in 1..Len(sent[c])
  BY <1>1 DEF SessionInv, TypeOK, Unread
<1>3. taken[c] + 1 \in DOMAIN sent[c] /\ taken[c] + 1 \in 1..taken'[c]
  BY <1>2, LenProperties
<1>4. p = sent[c][taken[c] + 1]
  BY <1>1 DEF Incoming
<1>5. ReadFrom(c, p)'
  BY <1>1, <1>3, <1>4 DEF ReadFrom
<1>6. QED
  BY <1>3, <1>4, <1>5 DEF IdInv, SendersKnown

\* A packet that is given to a session is one for it.
LEMMA OnlyAddresseeStep ==
  ASSUME SessionInv, IdInv, OnlyAddressee, [SessionNext]_vars
  PROVE  OnlyAddressee'
<1>0. ~Restart => \A d \in Conn : \A p : ReadFrom(d, p) => ReadFrom(d, p)'
  BY ReadStaysRead
<1>1. ASSUME NothingGiven, UNCHANGED id, ~Restart
      PROVE  OnlyAddressee'
  <2>1. \A d \in Conn : Outbox(d)' = Outbox(d) /\ id'[d] = id[d]
    BY <1>1 DEF NothingGiven
  <2>2. QED
    BY <1>0, <1>1, <2>1 DEF OnlyAddressee
<1>2. ASSUME NEW c \in Conn, Enters(c), ~Restart
      PROVE  OnlyAddressee'
  <2> DEFINE p == SetId(lastId + 1)
  <2>1. /\ id'[c] = lastId + 1 /\ \A d \in Conn \ {c} : id'[d] = id[d]
        /\ \A d \in Conn \ {c} : Outbox(d)' = Outbox(d)
        /\ Outbox(c)' = Append(Outbox(c), p) /\ c \notin Started
    BY <1>2 DEF Enters, Given, SessionInv, TypeOK
  <2>2. Outbox(c)' = <<p>>
    <3>1. Outbox(c) = <<>>
      BY <2>1 DEF IdInv, Fresh
    <3>2. Append(<<>>, p) = <<p>>
      OBVIOUS
    <3>3. QED
      BY <2>1, <3>1, <3>2
  <2>3. p.type # "MT_BCAST" /\ p.reciverId = id'[c]
    BY <2>1 DEF SetId
  <2>4. QED
    BY <1>0, <1>2, <2>1, <2>2, <2>3 DEF OnlyAddressee
<1>3. ASSUME NEW c \in Conn, NEW p \in Packet, Serves(c, p), ~Restart
      PROVE  OnlyAddressee'
  <2>1. Given(Addressees(p), p) /\ UNCHANGED id
    BY <1>3 DEF Serves
  <2>2. \A d \in Addressees(p) :
          IF p.type = "MT_BCAST" THEN ReadFrom(c, p)' /\ (c # d \/ p.senderId = 0)
                                 ELSE p.reciverId = id[d]
    <3>1. \A d \in Addressees(p) :
            IF p.type = "MT_BCAST" THEN id[d] # p.senderId ELSE p.reciverId = id[d]
      BY DEF Addressees
    <3>2. p.type = "MT_BCAST" => ReadFrom(c, p)' /\ p.senderId \in {0, id[c]}
      BY <1>3, ServesReads
    <3>3. QED
      BY <3>1, <3>2
  <2>3. ASSUME NEW d \in Conn, NEW k \in DOMAIN Outbox(d)'
        PROVE  \/ k \in DOMAIN Outbox(d) /\ Outbox(d)'[k] = Outbox(d)[k]
               \/ d \in Addressees(p) /\ Outbox(d)'[k] = p
    BY <2>1, <2>3, GivenOutbox DEF SessionInv
  <2>4. \A d \in Conn : id'[d] = id[d]
    BY <2>1
  <2>5. QED
    BY <1>0, <1>3, <2>2, <2>3, <2>4 DEF OnlyAddressee
<1>4. CASE Restart
  <2>1. \A c \in Conn : Outbox(c)' = <<>>
    BY <1>4 DEF Restart, Outbox
  <2>2. QED
    BY <2>1 DEF OnlyAddressee
<1>5. QED
  BY <1>1, <1>2, <1>3, <1>4, StepKinds DEF Consumes, Rests, Still

\* No client is ever given a packet that is not meant for it.
THEOREM OnlyAddresseesReached == SessionSpec => []OnlyAddressee
<1>1. SessionInit => OnlyAddressee
  BY DEF SessionInit, OnlyAddressee, Outbox
<1>2. SessionInv /\ IdInv /\ OnlyAddressee /\ [SessionNext]_vars => OnlyAddressee'
  BY OnlyAddresseeStep
<1>3. QED
  BY <1>1, <1>2, SessionInvInvariant, IdInvInvariant, PTL DEF SessionSpec

-----------------------------------------------------------------------------
(* FailuresExplained.                                                      *)

\* A session that is out of the map while its read loop goes on has left
\* because its client has gone or said so.
DeparturesExplained ==
  Running =>
    \A c \in Started \ Members : phase[c] \in {"header", "body"} => Departing(c)

FailureInv == DeparturesExplained /\ FailuresExplained

\* What explains a failure is not forgotten while the process runs.
LEMMA Remembered ==
  ASSUME SessionInv, [SessionNext]_vars, ~Restart, NEW c \in Conn
  PROVE  /\ \A types : HasRead(c, types) => HasRead(c, types)'
         /\ Departing(c) => Departing(c)'
         /\ (\E k \in 1..taken[c] : sent[c][k].type \in Query /\ sent[c][k].senderId = 0)
              => (\E k \in 1..taken[c] : /\ sent[c][k].type \in Query
                                         /\ sent[c][k].senderId = 0)'
<1>1. /\ 1..taken[c] \subseteq 1..taken'[c]
      /\ \A k \in 1..taken[c] : sent'[c][k] = sent[c][k]
  BY ReadGrows
<1>2. conn[c] = "closed" => conn'[c] = "closed"
  <2>1. ASSUME NEW d \in Conn, Client(d)
        PROVE  conn[c] = "closed" => conn'[c] = "closed"
    <3>1. \/ conn' = conn
          \/ conn' = [conn EXCEPT ![d] = "closed"]
          \/ conn[d] = "unused" /\ conn' = [conn EXCEPT ![d] = "open"]
      BY <2>1 DEF Client, Connect, LearnId, ClientSend, ClientClose
    <3>2. conn \in [Conn -> {"unused", "open", "closed"}]
      BY DEF SessionInv, TypeOK
    <3>3. QED
      BY <3>1, <3>2
  <2>2. ASSUME NEW d \in Conn, HandleReadBody(d)
        PROVE  conn' = conn
    BY <2>2 DEF HandleReadBody, HandleReadBodyFails, DropSession, RecvBcast, RecvUcast,
                RecvDisconnect, RecvOther, RecvQuery, BodyHandled, clientVars
  <2>3. ASSUME NEW d \in Conn,
               \/ HandleAccept(d) \/ HandleReadHeader(d) \/ HandleReadHeaderFails(d)
               \/ HandleWrite(d) \/ HandleWriteFails(d)
        PROVE  conn' = conn
    BY <2>3 DEF HandleAccept, HandleReadHeader, HandleReadHeaderFails, DropSession,
                HandleWrite, HandleWriteFails, clientVars
  <2>4. ASSUME HandleAcceptFails \/ Quit \/ OtherThreadThrows \/ UNCHANGED vars
        PROVE  conn' = conn
    BY <2>4 DEF HandleAcceptFails, Quit, OtherThreadThrows, vars, clientVars
  <2>5. QED
    BY <2>1, <2>2, <2>3, <2>4 DEF SessionNext
<1>3. \A types : HasRead(c, types) => HasRead(c, types)'
  BY <1>1 DEF HasRead
<1>4. QED
  BY <1>1, <1>2, <1>3 DEF Departing

\* The packet whose body has arrived is among those the server has read.
LEMMA ReadNow ==
  ASSUME SessionInv, NEW c \in Conn, Running, phase[c] = "body", BodyHandled(c)
  PROVE  /\ c \in Started
         /\ taken[c] + 1 \in DOMAIN sent[c] /\ taken[c] + 1 \in 1..taken'[c]
         /\ sent'[c][taken[c] + 1] = Incoming(c)
         /\ \A types : Incoming(c).type \in types => HasRead(c, types)'
<1>1. /\ sent[c] \in Seq(Packet) /\ taken[c] \in Nat /\ Unread(c) /\ c \in Started
      /\ taken'[c] = taken[c] + 1 /\ sent' = sent
  BY DEF SessionInv, TypeOK, Pending, Started, BodyHandled
<1>2. taken[c] + 1 \in 1..Len(sent[c]) /\ taken[c] + 1 \in 1..taken'[c]
  BY <1>1, LenProperties DEF Unread
<1>3. taken[c] + 1 \in DOMAIN sent[c] /\ sent'[c][taken[c] + 1] = Incoming(c)
  BY <1>1, <1>2, LenProperties DEF Incoming
<1>4. QED
  BY <1>1, <1>2, <1>3 DEF HasRead

\* A session leaves while its read loop goes on only if its client has closed
\* the connection or the packet just read says so.
LEMMA LeavesReading ==
  ASSUME SessionInv, SessionNext, ~Restart, Running', NEW d \in Started' \ Members',
         phase'[d] \in {"header", "body"}
  PROVE  \/ d \in Started \ Members /\ phase[d] \in {"header", "body"}
         \/ Departing(d)'
<1> USE DEF SessionInv
<1>1. ASSUME NEW c \in Conn, HandleAccept(c)
      PROVE  d \in Started \ Members /\ phase[d] \in {"header", "body"}
  <2>1. Enters(c)
    BY <1>1, HandleAcceptEnters
  <2>2. phase' = [phase EXCEPT ![c] = "header"]
    BY <1>1 DEF HandleAccept, WaitFor
  <2>3. QED
    BY <2>1, <2>2 DEF Enters, TypeOK, Started
<1>2. ASSUME NEW c \in Conn, HandleReadHeader(c)
      PROVE  d \in Started \ Members /\ phase[d] \in {"header", "body"}
  BY <1>2 DEF HandleReadHeader, WaitFor, TypeOK, Started, Members
<1>3. ASSUME NEW c \in Conn, HandleReadHeaderFails(c) \/ HandleReadBodyFails(c)
      PROVE  d \in Started \ Members /\ phase[d] \in {"header", "body"}
  <2>1. Leave(c) /\ phase' = [phase EXCEPT ![c] = "done"] /\ c \in Started
    BY <1>3 DEF HandleReadHeaderFails, HandleReadBodyFails, DropSession, WaitFor,
                Started
  <2>2. Members' = Members \ {c}
    BY <2>1, LeaveMembers
  <2>3. QED
    BY <2>1, <2>2 DEF Started, TypeOK
<1>4. ASSUME NEW c \in Conn, HandleWriteFails(c)
      PROVE  \/ d \in Started \ Members /\ phase[d] \in {"header", "body"}
             \/ Departing(d)'
  <2>1. Leave(c) /\ c \in Started /\ conn'[c] = "closed" /\ UNCHANGED phase
    BY <1>4 DEF HandleWriteFails, Started, Pending, Seated, clientVars
  <2>2. Members' = Members \ {c}
    BY <2>1, LeaveMembers
  <2>3. QED
    BY <2>1, <2>2 DEF Started, Departing
<1>5. ASSUME NEW c \in Conn, NEW out,
             \/ RecvBcast(c, out) \/ RecvUcast(c, out) \/ RecvQuery(c, Query)
             \/ RecvOther(c, MsgType, out) \/ RecvDisconnect(c, out)
      PROVE  \/ d \in Started \ Members /\ phase[d] \in {"header", "body"}
             \/ Departing(d)'
  <2>1. /\ Running /\ phase[c] = "body" /\ BodyHandled(c)
        /\ \/ UNCHANGED sessions
           \/ Leave(c) /\ Incoming(c).type = "MT_DISCONNECT"
    BY <1>5 DEF RecvBcast, RecvUcast, RecvQuery, RecvOther, RecvDisconnect,
                BodyArrives
  <2>2. phase' = [phase EXCEPT ![c] = "header"] /\ c \in Started
    BY <2>1 DEF BodyHandled, WaitFor, Running, Started
  <2>3. phase[d] \in {"header", "body"} /\ d \in Started
    BY <2>1, <2>2 DEF Started, TypeOK
  <2>4. CASE UNCHANGED sessions
    BY <2>3, <2>4 DEF Members
  <2>5. CASE Leave(c) /\ Incoming(c).type = "MT_DISCONNECT"
    <3>1. Members' = Members \ {c}
      BY <2>2, <2>5, LeaveMembers
    <3>2. Departing(c)'
      BY <2>1, <2>5, ReadNow DEF Departing
    <3>3. QED
      BY <2>3, <3>1, <3>2
  <2>6. QED
    BY <2>1, <2>4, <2>5
<1>6. ASSUME NEW c \in Conn, HandleWrite(c) \/ Client(c)
      PROVE  d \in Started \ Members /\ phase[d] \in {"header", "body"}
  BY <1>6 DEF HandleWrite, Client, Connect, LearnId, ClientSend, ClientClose,
              sessionVars, Started, Members
<1>7. CASE HandleAcceptFails \/ Quit \/ OtherThreadThrows
  BY <1>7 DEF HandleAcceptFails, Quit, OtherThreadThrows, sessionVars, Started,
              Members
<1>8. QED
  BY <1>1, <1>2, <1>3, <1>4, <1>5, <1>6, <1>7 DEF SessionNext, HandleReadBody

\* Whatever ends the process by Leave's or Ucast's exception is explained.
LEMMA FailureCause ==
  ASSUME SessionInv, IdInv, FailureInv, SessionNext, ~Restart
  PROVE  FailuresExplained'
<1> USE DEF SessionInv
<1>1. Running
  BY DEF SessionNext, HandleAccept, HandleReadHeader, HandleReadHeaderFails,
         HandleReadBody, HandleReadBodyFails, RecvBcast, RecvUcast,
         RecvDisconnect, RecvOther, RecvQuery, BodyArrives, HandleWrite,
         HandleWriteFails, Client, Connect, LearnId, ClientSend, ClientClose,
         HandleAcceptFails, Quit, OtherThreadThrows
<1>2. \A c \in Started \ Members : phase[c] \in {"header", "body"} => Departing(c)'
  BY <1>1, Remembered DEF FailureInv, DeparturesExplained, Started
<1>3. \A out \in Outcome \cup {"quit"} :
        out \notin {"UnexistingSession", "NoSuchSession"}
  BY SessionServerAssumption DEF Outcome
<1>4. \A c \in Started : \A out : \/ LeaveOutcome(c, out) = out
                                  \/ /\ LeaveOutcome(c, out) = "UnexistingSession"
                                     /\ c \notin Members
  BY MemberIds DEF LeaveOutcome
<1>5. ASSUME NEW c \in Conn,
             \/ HandleReadHeaderFails(c)
             \/ HandleReadBodyFails(c)
             \/ HandleWriteFails(c)
      PROVE  FailuresExplained'
  <2>1. server' = LeaveOutcome(c, "running") /\ c \in Started
    BY <1>5 DEF HandleReadHeaderFails, HandleReadBodyFails, HandleWriteFails,
                DropSession, Started, Pending, Seated
  <2>2. conn[c] = "closed" \/ phase[c] = "header"
    BY <1>5 DEF HandleReadHeaderFails, HandleReadBodyFails, HandleWriteFails
  <2>3. conn[c] = "closed" => Departing(c)'
    BY Remembered DEF Departing
  <2>4. c \notin Members => Departing(c)'
    BY <1>2, <2>1, <2>2, <2>3
  <2>5. QED
    BY <1>4, <2>1, <2>4 DEF FailuresExplained
<1>6. ASSUME NEW c \in Conn, NEW out \in Outcome,
             \/ RecvBcast(c, out) \/ RecvUcast(c, out)
             \/ RecvOther(c, MsgType, out) \/ RecvDisconnect(c, out)
      PROVE  FailuresExplained'
  <2>1. /\ phase[c] = "body" /\ BodyHandled(c)
        /\ \/ server' = out
           \/ server' = "NoSuchSession" /\ Incoming(c).type = "MT_UCAST"
           \/ server' = "UnexistingSession" /\ Incoming(c).type = "MT_DISCONNECT"
    BY <1>6 DEF RecvBcast, RecvUcast, RecvOther, RecvDisconnect, BodyArrives,
                LeaveOutcome, UcastOutcome
  <2>2. \A types : Incoming(c).type \in types => HasRead(c, types)'
    BY <1>1, <2>1, ReadNow
  <2>3. QED
    BY <1>3, <2>1, <2>2 DEF FailuresExplained, Departing
<1>7. ASSUME NEW c \in Conn, RecvQuery(c, Query), server' # "running"
      PROVE  FailuresExplained'
  <2>1. /\ phase[c] = "body" /\ BodyHandled(c) /\ Incoming(c).type \in Query
        /\ server' = "NoSuchSession" /\ Incoming(c).senderId \notin DOMAIN sessions
    BY <1>7 DEF RecvQuery, BodyArrives, UcastOutcome
  <2>2. /\ c \in Started
        /\ taken[c] + 1 \in DOMAIN sent[c] /\ taken[c] + 1 \in 1..taken'[c]
        /\ sent'[c][taken[c] + 1] = Incoming(c)
        /\ sent' = sent
    BY <1>1, <2>1, ReadNow DEF BodyHandled
  <2>3. Incoming(c).senderId \in {0, id[c]}
    BY <2>2 DEF IdInv, SendersKnown
  <2>4. CASE Incoming(c).senderId = 0
    BY <2>1, <2>2, <2>4 DEF FailuresExplained
  <2>5. CASE Incoming(c).senderId = id[c]
    <3>1. c \notin Members
      BY <2>1, <2>2, <2>5, MemberIds
    <3>2. Departing(c)'
      BY <1>2, <2>1, <2>2, <3>1
    <3>3. QED
      BY <2>1, <3>2 DEF FailuresExplained
  <2>6. QED
    BY <2>3, <2>4, <2>5
<1>8. CASE server' \in Outcome \cup {"quit"}
  BY <1>3, <1>8 DEF FailuresExplained
<1>9. ASSUME NEW c \in Conn,
             HandleAccept(c) \/ HandleReadHeader(c) \/ HandleWrite(c) \/ Client(c)
      PROVE  server' = "running"
  BY <1>1, <1>9 DEF HandleAccept, HandleReadHeader, HandleWrite, Client, Connect,
                    LearnId, ClientSend, ClientClose, Running
<1>10. CASE HandleAcceptFails \/ Quit \/ OtherThreadThrows
  BY <1>1, <1>8, <1>10 DEF HandleAcceptFails, Quit, OtherThreadThrows, Running,
                           Outcome
<1>11. "running" \in Outcome
  BY DEF Outcome
<1>12. QED
  BY <1>5, <1>6, <1>7, <1>8, <1>9, <1>10, <1>11 DEF SessionNext, HandleReadBody

\* Every step keeps failures explained.
LEMMA FailureInvStep ==
  ASSUME SessionInv, IdInv, FailureInv, [SessionNext]_vars
  PROVE  FailureInv'
<1>1. CASE Restart
  BY <1>1 DEF Restart, Started, FailureInv, DeparturesExplained, FailuresExplained
<1>2. CASE UNCHANGED vars
  BY <1>2 DEF vars, sessionVars, clientVars, FailureInv, DeparturesExplained,
              FailuresExplained, Departing, HasRead, Started, Members, Running
<1>3. CASE SessionNext /\ ~Restart
  <2>1. DeparturesExplained'
    <3> SUFFICES ASSUME Running', NEW d \in Started' \ Members',
                        phase'[d] \in {"header", "body"}
                 PROVE  Departing(d)'
      BY DEF DeparturesExplained
    <3>1. CASE d \in Started \ Members /\ phase[d] \in {"header", "body"}
      <4>1. Running
        BY <1>3, StepKinds DEF Enters, Serves, Consumes, Rests, Still
      <4>2. Departing(d) /\ d \in Conn
        BY <3>1, <4>1 DEF FailureInv, DeparturesExplained, Started
      <4>3. QED
        BY <1>3, <4>2, Remembered
    <3>2. QED
      BY <1>3, <3>1, LeavesReading
  <2>2. FailuresExplained'
    BY <1>3, FailureCause
  <2>3. QED
    BY <2>1, <2>2 DEF FailureInv
<1>4. QED
  BY <1>1, <1>2, <1>3

\* Clients that stay connected and keep to the protocol cannot end the server.
THEOREM FailuresAreExplained == SessionSpec => []FailuresExplained
<1>1. SessionInit => FailureInv
  BY DEF SessionInit, FailureInv, DeparturesExplained, FailuresExplained, Started
<1>2. SessionInv /\ IdInv /\ FailureInv /\ [SessionNext]_vars => FailureInv'
  BY FailureInvStep
<1>3. FailureInv => FailuresExplained
  BY DEF FailureInv
<1>4. QED
  BY <1>1, <1>2, <1>3, SessionInvInvariant, IdInvInvariant, PTL DEF SessionSpec

-----------------------------------------------------------------------------
(* RelayInOrder.                                                           *)

\* f finds, for each packet relayed from c to d, the one it is in what c has
\* sent: in order, without gaps, and, while d is a member, up to the last one
\* the server has read.
Finds(c, d, f) ==
  /\ f \in [Relayed(c, d) -> Addressed(c, d)]
  /\ \A k \in Relayed(c, d) : Outbox(d)[k] = sent[c][f[k]]
  /\ \A k, l \in Relayed(c, d) : k < l => f[k] < f[l]
  /\ \A k, l \in Relayed(c, d) : \A i \in Addressed(c, d) :
       f[k] <= i /\ i <= f[l] => \E m \in Relayed(c, d) : f[m] = i
  /\ d \in Members =>
       \A k \in Relayed(c, d) : \A i \in Addressed(c, d) :
         f[k] <= i => \E m \in Relayed(c, d) : f[m] = i

\* The inductive invariant behind RelayInOrder, which is the same with the f
\* chosen among all.
RelayInv == \A c, d \in Started : c # d => \E f : Finds(c, d, f)

\* The places in Relayed and Addressed are numbers.
LEMMA Places ==
  ASSUME SessionInv, NEW c \in Conn, NEW d \in Conn
  PROVE  /\ Relayed(c, d) \subseteq Nat /\ Relayed(c, d) \subseteq DOMAIN Outbox(d)
         /\ Addressed(c, d) \subseteq Nat /\ Addressed(c, d) \subseteq 1..taken[c]
<1>1. Outbox(d) \in Seq(Packet)
  BY OutboxType DEF SessionInv
<1>2. DOMAIN Outbox(d) \subseteq Nat
  BY <1>1, LenProperties
<1>3. taken[c] \in Nat
  BY DEF SessionInv, TypeOK
<1>4. QED
  BY <1>2, <1>3 DEF Relayed, Addressed

\* If nothing new is relayed to d, and nothing new is addressed to it unless it
\* has left, f still finds everything.
LEMMA NothingRelayed ==
  ASSUME SessionInv, NEW c \in Conn, NEW d \in Conn, NEW f, Finds(c, d, f),
         Relayed(c, d)' = Relayed(c, d),
         \A k \in Relayed(c, d) : Outbox(d)'[k] = Outbox(d)[k],
         \A i \in Addressed(c, d) : sent'[c][i] = sent[c][i],
         d \in Members' => d \in Members,
         \/ Addressed(c, d)' = Addressed(c, d)
         \/ /\ Addressed(c, d)' = Addressed(c, d) \cup {taken[c] + 1}
            /\ d \notin Members
  PROVE  Finds(c, d, f)'
<1>1. /\ f \in [Relayed(c, d) -> Addressed(c, d)]
      /\ \A k \in Relayed(c, d) : Outbox(d)[k] = sent[c][f[k]]
      /\ \A k, l \in Relayed(c, d) : k < l => f[k] < f[l]
      /\ \A k, l \in Relayed(c, d) : \A i \in Addressed(c, d) :
           f[k] <= i /\ i <= f[l] => \E m \in Relayed(c, d) : f[m] = i
      /\ d \in Members =>
           \A k \in Relayed(c, d) : \A i \in Addressed(c, d) :
             f[k] <= i => \E m \in Relayed(c, d) : f[m] = i
  BY DEF Finds
<1>2. taken[c] \in Nat /\ \A k \in Relayed(c, d) : f[k] \in 1..taken[c]
  BY <1>1, Places DEF SessionInv, TypeOK
<1>3. \A k \in Relayed(c, d) : ~(taken[c] + 1 <= f[k])
  BY <1>2
<1>4. f \in [Relayed(c, d)' -> Addressed(c, d)']
  BY <1>1
<1>5. \A k \in Relayed(c, d)' : Outbox(d)'[k] = sent'[c][f[k]]
  BY <1>1
<1>6. \A k, l \in Relayed(c, d)' : \A i \in Addressed(c, d)' :
        f[k] <= i /\ i <= f[l] => \E m \in Relayed(c, d)' : f[m] = i
  BY <1>1, <1>3
<1>7. d \in Members' =>
        \A k \in Relayed(c, d)' : \A i \in Addressed(c, d)' :
          f[k] <= i => \E m \in Relayed(c, d)' : f[m] = i
  BY <1>1
<1>8. QED
  BY <1>1, <1>4, <1>5, <1>6, <1>7 DEF Finds

\* Where nothing has been relayed, there is nothing to find.
LEMMA NoneRelayed ==
  ASSUME NEW c, NEW d, Relayed(c, d)' = {}
  PROVE  \E f : Finds(c, d, f)'
<1> DEFINE f == [k \in {} |-> 0]
<1>1. f \in [{} -> Addressed(c, d)']
  OBVIOUS
<1>2. Finds(c, d, f)'
  BY <1>1 DEF Finds
<1>3. QED
  BY <1>2

\* A packet that has just been relayed to d is the last one c has sent.
LEMMA LastRelayed ==
  ASSUME SessionInv, NEW c \in Conn, NEW d \in Members, NEW f, Finds(c, d, f),
         NEW n \in Nat,
         \A k \in Relayed(c, d) : k <= n,
         Relayed(c, d)' = Relayed(c, d) \cup {n + 1},
         Addressed(c, d)' = Addressed(c, d) \cup {taken[c] + 1},
         \A k \in Relayed(c, d) : Outbox(d)'[k] = Outbox(d)[k],
         \A i \in Addressed(c, d) : sent'[c][i] = sent[c][i],
         Outbox(d)'[n + 1] = sent'[c][taken[c] + 1]
  PROVE  \E g : Finds(c, d, g)'
<1> DEFINE R == Relayed(c, d)
<1>t. PICK t : t = taken[c] + 1
  OBVIOUS
<1>g. PICK g : g = [k \in R \cup {n + 1} |-> IF k = n + 1 THEN t ELSE f[k]]
  OBVIOUS
<1>1. d \in Conn
  BY DEF SessionInv, Seated, Started
<1>2. /\ f \in [R -> Addressed(c, d)]
      /\ \A k \in R : Outbox(d)[k] = sent[c][f[k]]
      /\ \A k, l \in R : k < l => f[k] < f[l]
      /\ \A k, l \in R : \A i \in Addressed(c, d) :
           f[k] <= i /\ i <= f[l] => \E m \in R : f[m] = i
      /\ \A k \in R : \A i \in Addressed(c, d) :
           f[k] <= i => \E m \in R : f[m] = i
  BY DEF Finds
<1>3. /\ taken[c] \in Nat
      /\ R \subseteq Nat
      /\ \A k \in R : f[k] \in Addressed(c, d)
      /\ \A i \in Addressed(c, d) : i \in Nat /\ i < t
  <2>1. taken[c] \in Nat
    BY DEF SessionInv, TypeOK
  <2>2. R \subseteq Nat /\ Addressed(c, d) \subseteq 1..taken[c]
    BY <1>1, Places
  <2>3. \A i \in 1..taken[c] : i \in Nat /\ i < taken[c] + 1
    BY <2>1
  <2>4. QED
    BY <1>t, <1>2, <2>1, <2>2, <2>3
<1>4. \A k \in R : k # n + 1 /\ g[k] = f[k] /\ g[k] \in Nat /\ g[k] < t
  BY <1>g, <1>3
<1>5. g[n + 1] = t
  BY <1>g
<1>6. g \in [R \cup {n + 1} -> Addressed(c, d) \cup {t}]
  BY <1>g, <1>3
<1>7. \A k \in R \cup {n + 1} : Outbox(d)'[k] = sent'[c][g[k]]
  BY <1>t, <1>2, <1>3, <1>4, <1>5
<1>8. \A k, l \in R \cup {n + 1} : k < l => g[k] < g[l]
  <2>1. \A k \in R : ~(n + 1 < k)
    BY <1>3
  <2>2. QED
    BY <1>2, <1>4, <1>5, <2>1
<1>9. \A k \in R \cup {n + 1} : \A i \in Addressed(c, d) \cup {t} :
        g[k] <= i => \E m \in R \cup {n + 1} : g[m] = i
  <2> TAKE k \in R \cup {n + 1}
  <2> TAKE i \in Addressed(c, d) \cup {t}
  <2>1. CASE i = t
    BY <1>5, <2>1
  <2>2. CASE i \in Addressed(c, d) /\ k \in R
    BY <1>2, <1>4, <2>2
  <2>3. CASE i \in Addressed(c, d) /\ k = n + 1
    BY <1>t, <1>3, <1>5, <2>3
  <2>4. QED
    BY <2>1, <2>2, <2>3
<1>10. Finds(c, d, g)'
  <2>1. g \in [Relayed(c, d)' -> Addressed(c, d)']
    BY <1>t, <1>6
  <2>2. \A k \in Relayed(c, d)' : Outbox(d)'[k] = sent'[c][g[k]]
    BY <1>7
  <2>3. \A k, l \in Relayed(c, d)' : k < l => g[k] < g[l]
    BY <1>8
  <2>4. \A k \in Relayed(c, d)' : \A i \in Addressed(c, d)' :
          g[k] <= i => \E m \in Relayed(c, d)' : g[m] = i
    BY <1>t, <1>9
  <2>5. QED
    BY <2>1, <2>2, <2>3, <2>4 DEF Finds
<1>11. QED
  BY <1>10

\* How the places in Relayed change ...
LEMMA RelayedStep ==
  ASSUME SessionInv, NEW S, NEW p \in Packet, Given(S, p), UNCHANGED id,
         NEW c \in Conn, NEW d \in Conn
  PROVE  /\ \A k \in Relayed(c, d) : Outbox(d)'[k] = Outbox(d)[k]
         /\ \/ d \notin S \/ p.type \notin Relay \/ p.senderId # id[c]
            => Relayed(c, d)' = Relayed(c, d)
         /\ d \in S /\ p.type \in Relay /\ p.senderId = id[c]
              => \E n \in Nat : /\ \A k \in Relayed(c, d) : k <= n
                                /\ Relayed(c, d)' = Relayed(c, d) \cup {n + 1}
                                /\ Outbox(d)'[n + 1] = p
<1>1. PICK n \in Nat :
         /\ DOMAIN Outbox(d) = 1..n
         /\ d \in S => /\ DOMAIN Outbox(d)' = 1..n + 1
                       /\ Outbox(d)'[n + 1] = p
                       /\ \A k \in 1..n : Outbox(d)'[k] = Outbox(d)[k]
  BY GivenOutbox DEF SessionInv
<1>2. d \notin S => Outbox(d)' = Outbox(d)
  BY DEF Given
<1>3. /\ Relayed(c, d) = {k \in 1..n : /\ Outbox(d)[k].type \in Relay
                                       /\ Outbox(d)[k].senderId = id[c]}
      /\ Relayed(c, d)' = {k \in DOMAIN Outbox(d)' : /\ Outbox(d)'[k].type \in Relay
                                                     /\ Outbox(d)'[k].senderId = id[c]}
  BY <1>1 DEF Relayed, Relay
<1>4. 1..n + 1 = 1..n \cup {n + 1} /\ \A k \in 1..n : k <= n
  OBVIOUS
<1>5. CASE d \notin S
  BY <1>1, <1>2, <1>3, <1>5
<1>6. CASE d \in S
  BY <1>1, <1>3, <1>4, <1>6
<1>7. QED
  BY <1>5, <1>6

\* ... and those in Addressed.
LEMMA AddressedStep ==
  ASSUME SessionInv, NEW c \in Conn, NEW d \in Conn, Unread(c),
         taken'[c] = taken[c] + 1, UNCHANGED <<id, sent>>
  PROVE  /\ Incoming(c).type \notin Relay \/ Incoming(c).senderId # id[c]
              => Addressed(c, d)' = Addressed(c, d)
         /\ Incoming(c).type = "MT_UCAST" /\ Incoming(c).reciverId # id[d]
              => Addressed(c, d)' = Addressed(c, d)
         /\ (/\ Incoming(c).senderId = id[c]
             /\ \/ Incoming(c).type = "MT_BCAST"
                \/ Incoming(c).type = "MT_UCAST" /\ Incoming(c).reciverId = id[d])
              => Addressed(c, d)' = Addressed(c, d) \cup {taken[c] + 1}
<1>1. taken[c] \in Nat
  BY DEF SessionInv, TypeOK
<1>2. 1..taken'[c] = 1..taken[c] \cup {taken[c] + 1} /\ taken[c] + 1 \notin 1..taken[c]
  BY <1>1
<1>3. Incoming(c) = sent[c][taken[c] + 1]
  BY DEF Incoming
<1> DEFINE For(i) == /\ sent[c][i].senderId = id[c]
                    /\ \/ sent[c][i].type = "MT_BCAST"
                       \/ /\ sent[c][i].type = "MT_UCAST"
                          /\ sent[c][i].reciverId = id[d]
<1>4. /\ Addressed(c, d) = {i \in 1..taken[c] : For(i)}
      /\ Addressed(c, d)' = {i \in 1..taken'[c] : For(i)}
  BY DEF Addressed
<1>5. /\ ~For(taken[c] + 1) => Addressed(c, d)' = Addressed(c, d)
      /\ For(taken[c] + 1) => Addressed(c, d)' = Addressed(c, d) \cup {taken[c] + 1}
  <2> HIDE DEF For
  <2>1. QED
    BY <1>2, <1>4
<1>6. QED
  BY <1>3, <1>5 DEF Relay

\* Nothing changes for c and d.
LEMMA PairKept ==
  ASSUME SessionInv, NEW c \in Conn, NEW d \in Conn, NEW f, Finds(c, d, f),
         Outbox(d)' = Outbox(d),
         id'[c] = id[c], id'[d] = id[d],
         taken'[c] = taken[c],
         \A i \in 1..taken[c] : sent'[c][i] = sent[c][i],
         d \in Members' => d \in Members
  PROVE  Finds(c, d, f)'
<1>1. Relayed(c, d)' = Relayed(c, d)
  BY DEF Relayed
<1>2. Addressed(c, d)' = Addressed(c, d)
  BY DEF Addressed
<1>3. \A i \in Addressed(c, d) : sent'[c][i] = sent[c][i]
  BY Places
<1>4. QED
  BY <1>1, <1>2, <1>3, NothingRelayed

\* Nothing has been relayed to a new session, and nothing from it.
LEMMA EntersRelayInv ==
  ASSUME SessionInv, IdInv, RelayInv, NEW e \in Conn, Enters(e)
  PROVE  RelayInv'
<1> SUFFICES ASSUME NEW c \in Started', NEW d \in Started', c # d
             PROVE  \E f : Finds(c, d, f)'
  BY DEF RelayInv
<1>1. /\ e \in Conn \ Started /\ Started' = Started \cup {e}
      /\ Members' = Members \cup {e}
      /\ lastId \in Nat /\ id'[e] = lastId + 1
      /\ \A x \in Conn \ {e} : id'[x] = id[x] /\ Outbox(x)' = Outbox(x)
      /\ Outbox(e)' = Append(Outbox(e), SetId(lastId + 1))
      /\ UNCHANGED <<sent, taken>>
      /\ c \in Conn /\ d \in Conn
  BY DEF Enters, Given, SessionInv, TypeOK, Started
<1>2. CASE c # e /\ d # e
  <2>1. PICK f : Finds(c, d, f)
    BY <1>1, <1>2 DEF RelayInv
  <2>2. Finds(c, d, f)'
    BY <1>1, <1>2, <2>1, PairKept
  <2>3. QED
    BY <2>2
<1>3. CASE d = e
  <2>1. Outbox(e) = <<>>
    BY <1>1 DEF IdInv, Fresh
  <2>2. Outbox(e)' = <<SetId(lastId + 1)>>
    BY <1>1, <2>1
  <2>3. \A k \in DOMAIN Outbox(e)' : Outbox(e)'[k] = SetId(lastId + 1)
    BY <2>2
  <2>4. SetId(lastId + 1).type \notin Relay
    BY DEF SetId, Relay
  <2>5. Relayed(c, e)' = {}
    BY <2>3, <2>4 DEF Relayed, Relay
  <2>6. QED
    BY <1>3, <2>5, NoneRelayed
<1>4. CASE c = e
  <2>1. Outbox(d)' = Outbox(d) /\ Outbox(d) \in Seq(Packet)
    BY <1>1, <1>4, OutboxType DEF SessionInv
  <2>2. \A k \in DOMAIN Outbox(d) : Outbox(d)[k].senderId \in Nat
    <3>1. \A k \in DOMAIN Outbox(d) : Outbox(d)[k] \in Packet
      BY <2>1
    <3>2. QED
      BY <3>1 DEF Packet
  <2>3. \A k \in DOMAIN Outbox(d) :
          Outbox(d)[k].type \in Relay => Outbox(d)[k].senderId # lastId + 1
    BY <1>1, <2>2 DEF IdInv, RelayedKnown
  <2>4. Relayed(e, d)' = {}
    BY <1>1, <2>1, <2>3 DEF Relayed, Relay
  <2>5. QED
    BY <1>4, <2>4, NoneRelayed
<1>5. QED
  BY <1>2, <1>3, <1>4

\* The packet just read is the last one addressed and the last one relayed.
LEMMA ServesRelayInv ==
  ASSUME SessionInv, IdInv, RelayInv, NEW e \in Conn, NEW p \in Packet, Serves(e, p)
  PROVE  RelayInv'
<1> SUFFICES ASSUME NEW c \in Started', NEW d \in Started', c # d
             PROVE  \E f : Finds(c, d, f)'
  BY DEF RelayInv
<1>1. /\ Started' = Started /\ Members' = Members
      /\ c \in Started /\ d \in Started /\ e \in Started /\ Unread(e)
      /\ c \in Conn /\ d \in Conn
      /\ taken' = [taken EXCEPT ![e] = @ + 1]
      /\ Given(Addressees(p), p) /\ UNCHANGED <<id, sent>>
      /\ \/ p = Incoming(e) /\ p.type \in Relay
         \/ p = Answer(Incoming(e)) /\ p.type \in Query
  BY DEF Serves, Started
<1>2. PICK f : Finds(c, d, f)
  BY <1>1 DEF RelayInv
<1>3. /\ id[c] # id[d] /\ id[c] # 0
      /\ c # e => id[c] # id[e]
  BY <1>1 DEF SessionInv, MapConsistent, Seated
<1>4. \A i \in Addressed(c, d) : sent'[c][i] = sent[c][i]
  BY <1>1
<1>5. c # e => taken'[c] = taken[c] /\ Addressed(c, d)' = Addressed(c, d)
  BY <1>1 DEF Addressed, SessionInv, TypeOK
<1>6. c = e => taken'[c] = taken[c] + 1
  BY <1>1 DEF SessionInv, TypeOK
<1>7. CASE p.type \notin Relay
  <2>1. Incoming(e).type \notin Relay
    BY <1>1, <1>7 DEF Answer, Query, Relay
  <2>2. Addressed(c, d)' = Addressed(c, d)
    BY <1>1, <1>5, <1>6, <2>1, AddressedStep
  <2>3. /\ Relayed(c, d)' = Relayed(c, d)
        /\ \A k \in Relayed(c, d) : Outbox(d)'[k] = Outbox(d)[k]
    BY <1>1, <1>7, RelayedStep
  <2>4. QED
    BY <1>1, <1>2, <1>4, <2>2, <2>3, NothingRelayed
<1>8. CASE p = Incoming(e) /\ p.type \in Relay /\ (c # e \/ p.senderId # id[c])
  <2>1. p.senderId \in {0, id[e]}
    <3>1. taken[e] + 1 \in DOMAIN sent[e]
      BY <1>1, IncomingType, LenProperties, SMTT(30) DEF SessionInv, TypeOK, Unread
    <3>2. QED
      BY <1>8, <3>1 DEF IdInv, SendersKnown, Incoming
  <2>2. p.senderId # id[c]
    BY <1>3, <1>8, <2>1
  <2>3. Addressed(c, d)' = Addressed(c, d)
    BY <1>1, <1>5, <1>6, <1>8, <2>2, AddressedStep
  <2>4. /\ Relayed(c, d)' = Relayed(c, d)
        /\ \A k \in Relayed(c, d) : Outbox(d)'[k] = Outbox(d)[k]
    BY <1>1, <2>2, RelayedStep
  <2>5. QED
    BY <1>1, <1>2, <1>4, <2>3, <2>4, NothingRelayed
<1>9. CASE p = Incoming(c) /\ c = e /\ p.senderId = id[c] /\ p.type \in Relay
  <2>1. CASE d \in Addressees(p)
    <3>1. Addressed(c, d)' = Addressed(c, d) \cup {taken[c] + 1}
      <4>1. \/ p.type = "MT_BCAST"
            \/ p.type = "MT_UCAST" /\ p.reciverId = id[d]
        BY <1>9, <2>1 DEF Addressees, Relay
      <4>2. QED
        BY <1>1, <1>6, <1>9, <4>1, AddressedStep
    <3>2. PICK n \in Nat : /\ \A k \in Relayed(c, d) : k <= n
                           /\ Relayed(c, d)' = Relayed(c, d) \cup {n + 1}
                           /\ Outbox(d)'[n + 1] = p
      BY <1>1, <1>9, <2>1, RelayedStep
    <3>3. \A k \in Relayed(c, d) : Outbox(d)'[k] = Outbox(d)[k]
      BY <1>1, RelayedStep
    <3>4. d \in Members /\ Outbox(d)'[n + 1] = sent'[c][taken[c] + 1]
      BY <1>1, <1>9, <2>1, <3>2 DEF Addressees, Incoming
    <3>5. QED
      BY <1>1, <1>2, <1>4, <3>1, <3>2, <3>3, <3>4, LastRelayed
  <2>2. CASE d \notin Addressees(p)
    <3>1. /\ Relayed(c, d)' = Relayed(c, d)
          /\ \A k \in Relayed(c, d) : Outbox(d)'[k] = Outbox(d)[k]
      BY <1>1, <2>2, RelayedStep
    <3>2. \/ d \notin Members
          \/ p.type = "MT_UCAST" /\ p.reciverId # id[d]
      BY <1>3, <1>9, <2>2 DEF Addressees, Relay
    <3>3. \/ Addressed(c, d)' = Addressed(c, d)
          \/ /\ Addressed(c, d)' = Addressed(c, d) \cup {taken[c] + 1}
             /\ d \notin Members
      BY <1>1, <1>6, <1>9, <3>2, AddressedStep DEF Relay
    <3>4. QED
      BY <1>1, <1>2, <1>4, <3>1, <3>3, NothingRelayed
  <2>3. QED
    BY <2>1, <2>2
<1>10. QED
  BY <1>1, <1>7, <1>8, <1>9 DEF Query, Relay

\* Hence every step keeps the correspondence.
LEMMA RelayInvStep ==
  ASSUME SessionInv, IdInv, RelayInv, [SessionNext]_vars
  PROVE  RelayInv'
<1>1. ASSUME Started' = Started,
             \A d \in Members' : d \in Members,
             NothingGiven, UNCHANGED <<id, taken>>,
             \A c \in Conn : \A i \in 1..taken[c] : sent'[c][i] = sent[c][i]
      PROVE  RelayInv'
  <2> SUFFICES ASSUME NEW c \in Started, NEW d \in Started, c # d
               PROVE  \E f : Finds(c, d, f)'
    BY <1>1 DEF RelayInv
  <2>1. PICK f : Finds(c, d, f)
    BY DEF RelayInv
  <2>2. c \in Conn /\ d \in Conn /\ Outbox(d)' = Outbox(d)
    BY <1>1 DEF Started, NothingGiven
  <2>3. Finds(c, d, f)'
    BY <1>1, <2>1, <2>2, PairKept
  <2>4. QED
    BY <2>3
<1>2. ASSUME NEW e \in Conn, Consumes(e)
      PROVE  RelayInv'
  <2> SUFFICES ASSUME NEW c \in Started, NEW d \in Started, c # d
               PROVE  \E f : Finds(c, d, f)'
    BY <1>2 DEF RelayInv, Consumes
  <2>1. PICK f : Finds(c, d, f)
    BY DEF RelayInv
  <2>2. /\ c \in Conn /\ d \in Conn /\ Outbox(d)' = Outbox(d)
        /\ UNCHANGED <<id, sent>>
        /\ d \in Members' => d \in Members
        /\ taken'[c] = IF c = e THEN taken[c] + 1 ELSE taken[c]
        /\ Unread(e) /\ Incoming(e).type \notin Relay
    BY <1>2 DEF Consumes, NothingGiven, Started, SessionInv, TypeOK
  <2>3. CASE c # e
    <3>1. Finds(c, d, f)'
      BY <2>1, <2>2, <2>3, PairKept
    <3>2. QED
      BY <3>1
  <2>4. CASE c = e
    <3>1. Addressed(c, d)' = Addressed(c, d)
      BY <2>2, <2>4, AddressedStep
    <3>2. Relayed(c, d)' = Relayed(c, d)
      BY <2>2 DEF Relayed
    <3>3. Finds(c, d, f)'
      BY <2>1, <2>2, <3>1, <3>2, NothingRelayed
    <3>4. QED
      BY <3>3
  <2>5. QED
    BY <2>3, <2>4
<1>3. ASSUME NEW e \in Conn, Rests(e)
      PROVE  RelayInv'
  <2>1. ASSUME NEW c \in Conn, NEW i \in 1..taken[c]
        PROVE  sent'[c][i] = sent[c][i]
    <3>1. sent[c] \in Seq(Packet) /\ i \in 1..Len(sent[c])
      BY DEF SessionInv, TypeOK
    <3>2. \/ sent'[c] = sent[c]
          \/ \E p \in Packet : sent'[c] = Append(sent[c], p)
      BY <1>3 DEF Rests, Learns, Sends, SessionInv, TypeOK
    <3>3. QED
      BY <3>1, <3>2, AppendProperties
  <2>2. /\ Started' = Started /\ NothingGiven /\ UNCHANGED <<id, taken>>
        /\ \A d \in Members' : d \in Members
    BY <1>3 DEF Rests
  <2>3. QED
    BY <1>1, <2>1, <2>2
<1>4. CASE Still
  BY <1>1, <1>4 DEF Still
<1>5. CASE Restart
  BY <1>5 DEF Restart, Started, RelayInv
<1>6. QED
  BY <1>2, <1>3, <1>4, <1>5, StepKinds, EntersRelayInv, ServesRelayInv

\* The relay loses, repeats and reorders nothing, with any number of clients.
THEOREM RelayStaysInOrder == SessionSpec => []RelayInOrder
<1>1. SessionInit => RelayInv
  BY DEF SessionInit, RelayInv, Started
<1>2. SessionInv /\ IdInv /\ RelayInv /\ [SessionNext]_vars => RelayInv'
  BY RelayInvStep
<1>3. RelayInv => RelayInOrder
  BY DEF RelayInv, RelayInOrder, Finds
<1>4. QED
  BY <1>1, <1>2, <1>3, SessionInvInvariant, IdInvInvariant, PTL DEF SessionSpec
=============================================================================
