--------------------------- MODULE SessionServer ----------------------------
(***************************************************************************)
(* The connection layer of the server: TcpMultiSessionServer (the map of   *)
(* sessions, Join, Leave, Bcast, Ucast, the accept loop) and Session (the  *)
(* read loop and the write queue of one connection).                       *)
(*                                                                         *)
(* All handlers run on one thread, inside io_service::run, so a handler is *)
(* one step; what interleaves is the order in which asynchronous           *)
(* operations complete.  An exception that leaves a handler leaves         *)
(* io_service::run and the thread function, which terminates the process:  *)
(* the variable server then holds the reason.                              *)
(*                                                                         *)
(* The virtual OnRecv is a parameter here: the operator of every handler   *)
(* that calls it takes its outcome, "running" or the exception it raises.  *)
(* GameServer gives the real one.                                          *)
(***************************************************************************)
EXTENDS Packet, FiniteSets

CONSTANTS
  Conn,           \* client connections; each is accepted into one Session
  Name,           \* Name[c]: the login the client behind c uses
  ClientTypes,    \* the types of packets clients send
  BodyLengths,    \* the lengths the body of a packet that has one may claim
  PeerId,         \* the session ids an MT_UCAST packet may be addressed to
  OuterException, \* the exceptions OnRecv and the other threads may raise
  AcceptMayFail,  \* whether an accept may complete with an error
  MaxSend,        \* bound: packets a client sends on one connection
  MaxStarts       \* bound: how often the server process is started

ASSUME SessionServerAssumption ==
  /\ Name \in [Conn -> Login]
  /\ ClientTypes \subseteq MsgType
  /\ BodyLengths \subseteq Nat
  /\ PeerId \subseteq Nat
  /\ OuterException \cap
       {"running", "quit", "UnexistingSession", "NoSuchSession"} = {}
  /\ AcceptMayFail \in BOOLEAN
  /\ MaxSend \in Nat
  /\ MaxStarts \in Nat \ {0}

VARIABLES
  server,     \* "running", "quit", or the exception that ended the process
  starts,     \* how many times the process has been started
  acceptor,   \* an async_accept is pending
  lastId,     \* TcpMultiSessionServer::lastId
  sessions,   \* TcpMultiSessionServer::sessions, from ids to connections
  id,         \* BaseSession::id of each session
  phase,      \* the read each session waits for: its header, its body, none
  msgQueue,   \* Session::msgQueue; the head is the packet being written
  writing,    \* an async_write of the session is pending
  conn,       \* the client's end: "unused", "open" or "closed"
  sent,       \* the packets the client has put on the connection, in order
  taken,      \* how many of those the session has read
  wire,       \* the packets the session has written to the socket
  clientId    \* Client::id, 0 until the client has read MT_SET_ID

sessionVars == <<acceptor, lastId, sessions, id, phase, msgQueue, writing>>
clientVars  == <<conn, sent, taken, wire, clientId>>
vars        == <<server, starts, sessionVars, clientVars>>

Exception == OuterException \cup {"UnexistingSession", "NoSuchSession"}
Outcome   == {"running"} \cup OuterException

Running  == server = "running"
Members  == {sessions[i] : i \in DOMAIN sessions}
Started  == {c \in Conn : phase[c] # "idle"}
Backlog  == {c \in Conn : conn[c] \in {"open", "closed"} /\ phase[c] = "idle"}
Unread(c)   == taken[c] < Len(sent[c])
Incoming(c) == sent[c][taken[c] + 1]
Outbox(c)   == wire[c] \o msgQueue[c]

\* The places, in what d has been given, of the packets relayed from c, and,
\* in what the server has read from c, of those d should be given.
Relayed(c, d) ==
  {k \in DOMAIN Outbox(d) : /\ Outbox(d)[k].type \in {"MT_BCAST", "MT_UCAST"}
                            /\ Outbox(d)[k].senderId = id[c]}
Addressed(c, d) ==
  {k \in 1..taken[c] : /\ sent[c][k].senderId = id[c]
                       /\ \/ sent[c][k].type = "MT_BCAST"
                          \/ /\ sent[c][k].type = "MT_UCAST"
                             /\ sent[c][k].reciverId = id[d]}

-----------------------------------------------------------------------------
(* A process that has just started: nobody is connected, ids start at 1.   *)

SessionInit ==
  /\ server   = "running"
  /\ starts   = 1
  /\ acceptor = TRUE
  /\ lastId   = 0
  /\ sessions = <<>>
  /\ id       = [c \in Conn |-> 0]
  /\ phase    = [c \in Conn |-> "idle"]
  /\ msgQueue = [c \in Conn |-> <<>>]
  /\ writing  = [c \in Conn |-> FALSE]
  /\ conn     = [c \in Conn |-> "unused"]
  /\ sent     = [c \in Conn |-> <<>>]
  /\ taken    = [c \in Conn |-> 0]
  /\ wire     = [c \in Conn |-> <<>>]
  /\ clientId = [c \in Conn |-> 0]

-----------------------------------------------------------------------------
(* The operations handlers are made of.  Those that may throw come with    *)
(* the outcome they have, given the outcome of what follows them.          *)

\* Mutants of Join: the id taken before it is incremented, the number of
\* sessions used as the id, the session not stored.
JoinBeforeIncrement(c) ==
  /\ lastId'   = lastId + 1
  /\ sessions' = [i \in DOMAIN sessions \cup {lastId} |->
                    IF i = lastId THEN c ELSE sessions[i]]
  /\ id'       = [id EXCEPT ![c] = lastId]

JoinCounting(c) ==
  /\ lastId'   = Cardinality(DOMAIN sessions) + 1
  /\ sessions' = [i \in DOMAIN sessions \cup {lastId'} |->
                    IF i = lastId' THEN c ELSE sessions[i]]
  /\ id'       = [id EXCEPT ![c] = lastId']

JoinUnstored(c) ==
  /\ lastId' = lastId + 1
  /\ id'     = [id EXCEPT ![c] = lastId']
  /\ UNCHANGED sessions

Join(c) ==
  /\ lastId'   = lastId + 1
  /\ sessions' = [i \in DOMAIN sessions \cup {lastId'} |->
                    IF i = lastId' THEN c ELSE sessions[i]]
  /\ id'       = [id EXCEPT ![c] = lastId']

Leave(c) == sessions' = [i \in DOMAIN sessions \ {id[c]} |-> sessions[i]]

LeaveOutcome(c, out) ==
  IF id[c] \in DOMAIN sessions THEN out ELSE "UnexistingSession"

\* Mutant of Deliver: a packet overtakes those that wait behind the one being
\* written.
DeliverUrgent(S, p) ==
  /\ msgQueue' = [c \in Conn |->
                    IF c \notin S THEN msgQueue[c]
                    ELSE IF msgQueue[c] = <<>> THEN <<p>>
                    ELSE <<Head(msgQueue[c]), p>> \o Tail(msgQueue[c])]
  /\ writing'  = [c \in Conn |-> writing[c] \/ c \in S]

\* A packet joins the queue of every session in S; a write is started only
\* where the queue was empty.
Deliver(S, p) ==
  /\ msgQueue' = [c \in Conn |-> IF c \in S THEN Append(msgQueue[c], p)
                                            ELSE msgQueue[c]]
  /\ writing'  = [c \in Conn |-> \/ writing[c]
                                 \/ c \in S /\ msgQueue[c] = <<>>]

\* Mutant of Bcast: the sender is not skipped.
BcastToAll(p) == Deliver(Members, p)

Bcast(p) == Deliver({c \in Members : id[c] # p.senderId}, p)

Ucast(p, r) == Deliver({sessions[i] : i \in DOMAIN sessions \cap {r}}, p)

UcastOutcome(r, out) == IF r \in DOMAIN sessions THEN out ELSE "NoSuchSession"

WaitFor(c, read) == phase' = [phase EXCEPT ![c] = read]

-----------------------------------------------------------------------------
(* TcpMultiSessionServer::HandleAccept.                                    *)

\* Mutants of HandleAccept: no further accept is started, the id is announced
\* before the session has joined.
HandleAcceptOnce(c) ==
  /\ Running /\ acceptor
  /\ c \in Backlog
  /\ Join(c)
  /\ Deliver({c}, SetId(lastId'))
  /\ WaitFor(c, "header")
  /\ acceptor' = FALSE
  /\ UNCHANGED <<server, starts, clientVars>>

HandleAcceptEarlyId(c) ==
  /\ Running /\ acceptor
  /\ c \in Backlog
  /\ Join(c)
  /\ Deliver({c}, SetId(id[c]))
  /\ WaitFor(c, "header")
  /\ UNCHANGED <<server, starts, acceptor, clientVars>>

HandleAccept(c) ==
  /\ Running /\ acceptor
  /\ c \in Backlog
  /\ Join(c)
  /\ Deliver({c}, SetId(lastId'))
  /\ WaitFor(c, "header")
  /\ UNCHANGED <<server, starts, acceptor, clientVars>>

\* After an error the handler starts no further accept.
HandleAcceptFails ==
  /\ Running /\ acceptor
  /\ AcceptMayFail
  /\ acceptor' = FALSE
  /\ UNCHANGED <<server, starts, lastId, sessions, id, phase, msgQueue,
                 writing, clientVars>>

-----------------------------------------------------------------------------
(* Session::HandleReadHeader.                                              *)

HandleReadHeader(c) ==
  /\ Running
  /\ phase[c] = "header" /\ Unread(c)
  /\ decode_header(Incoming(c))
  /\ WaitFor(c, "body")
  /\ UNCHANGED <<server, starts, acceptor, lastId, sessions, id, msgQueue,
                 writing, clientVars>>

\* Mutant of DropSession: the read loop ends without Leave.
EndReading(c) ==
  /\ WaitFor(c, "done")
  /\ UNCHANGED <<server, starts, acceptor, lastId, sessions, id, msgQueue,
                 writing, clientVars>>

\* The read loop of c ends and the session leaves the server.
DropSession(c) ==
  /\ Leave(c)
  /\ server' = LeaveOutcome(c, "running")
  /\ WaitFor(c, "done")
  /\ UNCHANGED <<starts, acceptor, lastId, id, msgQueue, writing, clientVars>>

\* Mutant of HandleReadHeaderFails: only a bad header counts as an error.
HandleBadHeader(c) ==
  /\ Running
  /\ phase[c] = "header"
  /\ Unread(c) /\ ~decode_header(Incoming(c))
  /\ DropSession(c)

HandleReadHeaderFails(c) ==
  /\ Running
  /\ phase[c] = "header"
  /\ \/ conn[c] = "closed"
     \/ Unread(c) /\ ~decode_header(Incoming(c))
  /\ DropSession(c)

-----------------------------------------------------------------------------
(* Session::HandleReadBody, one action per case of its switch.  out is the *)
(* outcome of the call of OnRecv that ends the handler.                    *)

\* A body of length 0 needs no bytes, so its read cannot fail.
HandleReadBodyFails(c) ==
  /\ Running
  /\ phase[c] = "body"
  /\ conn[c] = "closed" /\ Incoming(c).body_length # 0
  /\ DropSession(c)

BodyArrives(c, types) ==
  /\ Running
  /\ phase[c] = "body"
  /\ Incoming(c).type \in types

\* Unless an exception has ended it, the handler waits for the next header.
BodyHandled(c) ==
  /\ taken' = [taken EXCEPT ![c] = @ + 1]
  /\ WaitFor(c, IF server' = "running" THEN "header" ELSE "done")
  /\ UNCHANGED <<starts, acceptor, lastId, id, conn, sent, wire, clientId>>

RecvBcast(c, out) ==
  /\ BodyArrives(c, {"MT_BCAST"})
  /\ Bcast(Incoming(c))
  /\ server' = out
  /\ UNCHANGED sessions
  /\ BodyHandled(c)

RecvUcast(c, out) ==
  LET r == Incoming(c).reciverId IN
  /\ BodyArrives(c, {"MT_UCAST"})
  /\ Ucast(Incoming(c), r)
  /\ server' = UcastOutcome(r, out)
  /\ UNCHANGED sessions
  /\ BodyHandled(c)

RecvDisconnect(c, out) ==
  /\ BodyArrives(c, {"MT_DISCONNECT"})
  /\ Leave(c)
  /\ server' = LeaveOutcome(c, out)
  /\ UNCHANGED <<msgQueue, writing>>
  /\ BodyHandled(c)

\* Every other type is left to OnRecv, which may send nothing ...
RecvOther(c, types, out) ==
  /\ BodyArrives(c, types \ {"MT_BCAST", "MT_UCAST", "MT_DISCONNECT"})
  /\ server' = out
  /\ UNCHANGED <<sessions, msgQueue, writing>>
  /\ BodyHandled(c)

\* ... or answer, by Ucast, the session the packet names as its sender.
RecvQuery(c, types) ==
  LET p == Incoming(c) IN
  /\ BodyArrives(c, types \cap Query)
  /\ Ucast(Answer(p), p.senderId)
  /\ server' = UcastOutcome(p.senderId, "running")
  /\ UNCHANGED sessions
  /\ BodyHandled(c)

-----------------------------------------------------------------------------
(* Session::HandleWrite.                                                   *)

\* Mutant of HandleWrite: the next packet of the queue is not written.
HandleWriteOnce(c) ==
  /\ Running
  /\ writing[c]
  /\ wire'     = [wire EXCEPT ![c] = Append(@, Head(msgQueue[c]))]
  /\ msgQueue' = [msgQueue EXCEPT ![c] = Tail(@)]
  /\ writing'  = [writing EXCEPT ![c] = FALSE]
  /\ UNCHANGED <<server, starts, acceptor, lastId, sessions, id, phase, conn,
                 sent, taken, clientId>>

HandleWrite(c) ==
  /\ Running
  /\ writing[c]
  /\ wire'     = [wire EXCEPT ![c] = Append(@, Head(msgQueue[c]))]
  /\ msgQueue' = [msgQueue EXCEPT ![c] = Tail(@)]
  /\ writing'  = [writing EXCEPT ![c] = msgQueue'[c] # <<>>]
  /\ UNCHANGED <<server, starts, acceptor, lastId, sessions, id, phase, conn,
                 sent, taken, clientId>>

\* The packet that could not be written stays at the head of the queue.
HandleWriteFails(c) ==
  /\ Running
  /\ writing[c]
  /\ conn[c] = "closed"
  /\ writing' = [writing EXCEPT ![c] = FALSE]
  /\ Leave(c)
  /\ server' = LeaveOutcome(c, "running")
  /\ UNCHANGED <<starts, acceptor, lastId, id, phase, msgQueue, clientVars>>

-----------------------------------------------------------------------------
(* The rest of the process: the console's quit command, an exception in    *)
(* another thread, and the start of a new process, to which every client   *)
(* may connect anew.                                                       *)

Quit ==
  /\ Running
  /\ server' = "quit"
  /\ UNCHANGED <<starts, sessionVars, clientVars>>

OtherThreadThrows ==
  /\ Running
  /\ server' \in OuterException
  /\ UNCHANGED <<starts, sessionVars, clientVars>>

Restart ==
  /\ ~Running
  /\ starts < MaxStarts
  /\ server'   = "running"
  /\ starts'   = starts + 1
  /\ acceptor' = TRUE
  /\ lastId'   = 0
  /\ sessions' = <<>>
  /\ id'       = [c \in Conn |-> 0]
  /\ phase'    = [c \in Conn |-> "idle"]
  /\ msgQueue' = [c \in Conn |-> <<>>]
  /\ writing'  = [c \in Conn |-> FALSE]
  /\ conn'     = [c \in Conn |-> "unused"]
  /\ sent'     = [c \in Conn |-> <<>>]
  /\ taken'    = [c \in Conn |-> 0]
  /\ wire'     = [c \in Conn |-> <<>>]
  /\ clientId' = [c \in Conn |-> 0]

-----------------------------------------------------------------------------
(* The clients.  A client writes its own id into every packet, which is 0  *)
(* as long as it has not read the server's first packet.                   *)

Connect(c) ==
  /\ Running
  /\ conn[c] = "unused"
  /\ conn' = [conn EXCEPT ![c] = "open"]
  /\ UNCHANGED <<server, starts, sessionVars, sent, taken, wire, clientId>>

LearnId(c) ==
  /\ Running
  /\ conn[c] = "open"
  /\ clientId[c] = 0
  /\ \E k \in DOMAIN wire[c] :
        /\ wire[c][k].type = "MT_SET_ID"
        /\ clientId' = [clientId EXCEPT ![c] = wire[c][k].reciverId]
  /\ UNCHANGED <<server, starts, sessionVars, conn, sent, taken, wire>>

\* The packets client c can send: its id as sender and receiver (only an
\* MT_UCAST packet names another receiver), a body unless it is a query.
ClientPacket(c) ==
  {[type |-> t, senderId |-> clientId[c], reciverId |-> r,
    body_length |-> IF t \in Query THEN 0 ELSE n,
    body |-> Payload(t, Name[c], g)] :
     t \in ClientTypes, r \in PeerId \cup {clientId[c]},
     n \in BodyLengths, g \in GameIdx}

ClientSend(c, p) ==
  /\ Running
  /\ conn[c] = "open"
  /\ Len(sent[c]) < MaxSend
  /\ p.type # "MT_UCAST" => p.reciverId = clientId[c]
  /\ sent' = [sent EXCEPT ![c] = Append(@, p)]
  /\ UNCHANGED <<server, starts, sessionVars, conn, taken, wire, clientId>>

ClientClose(c) ==
  /\ Running
  /\ conn[c] = "open"
  /\ conn' = [conn EXCEPT ![c] = "closed"]
  /\ UNCHANGED <<server, starts, sessionVars, sent, taken, wire, clientId>>

-----------------------------------------------------------------------------
HandleReadBody(c) ==
  \/ \E out \in Outcome :
        \/ RecvBcast(c, out)
        \/ RecvUcast(c, out)
        \/ RecvDisconnect(c, out)
        \/ RecvOther(c, MsgType, out)
  \/ RecvQuery(c, Query)
  \/ HandleReadBodyFails(c)

Client(c) ==
  \/ Connect(c)
  \/ LearnId(c)
  \/ \E p \in ClientPacket(c) : ClientSend(c, p)
  \/ ClientClose(c)

SessionNext ==
  \/ \E c \in Conn :
        \/ HandleAccept(c)
        \/ HandleReadHeader(c)
        \/ HandleReadHeaderFails(c)
        \/ HandleReadBody(c)
        \/ HandleWrite(c)
        \/ HandleWriteFails(c)
        \/ Client(c)
  \/ HandleAcceptFails
  \/ Quit
  \/ OtherThreadThrows
  \/ Restart

SessionSpec == SessionInit /\ [][SessionNext]_vars

\* io_service::run serves every completed operation.  Nothing is assumed of
\* the clients or of the operator.
SessionFairness ==
  \A c \in Conn :
    /\ WF_vars(HandleAccept(c))
    /\ WF_vars(HandleReadHeader(c) \/ HandleReadHeaderFails(c))
    /\ WF_vars(HandleReadBody(c))
    /\ WF_vars(HandleWrite(c) \/ HandleWriteFails(c))

FairSessionSpec == SessionSpec /\ SessionFairness
-----------------------------------------------------------------------------
(* Properties.                                                             *)

\* Every variable has its type: the one type invariant of this module.
TypeOK ==
  /\ server \in {"running", "quit"} \cup Exception
  /\ starts \in 1..MaxStarts
  /\ acceptor \in BOOLEAN
  /\ lastId \in Nat
  /\ DOMAIN sessions \subseteq 1..lastId
  /\ sessions \in [DOMAIN sessions -> Conn]
  /\ id \in [Conn -> Nat]
  /\ phase \in [Conn -> {"idle", "header", "body", "done"}]
  /\ msgQueue \in [Conn -> Seq(Packet)]
  /\ writing \in [Conn -> BOOLEAN]
  /\ conn \in [Conn -> {"unused", "open", "closed"}]
  /\ sent \in [Conn -> Seq(Packet)]
  /\ taken \in [Conn -> Nat]
  /\ \A c \in Conn : taken[c] <= Len(sent[c])
  /\ wire \in [Conn -> Seq(Packet)]
  /\ clientId \in [Conn -> Nat]

\* The map and the sessions agree: a session is stored under its own id, no
\* two accepted sessions share an id, and a session in the map always has a
\* read pending, so that the end of its connection will be noticed.
MapConsistent ==
  /\ \A i \in DOMAIN sessions : id[sessions[i]] = i
  /\ \A c, d \in Started : id[c] = id[d] => c = d
  /\ Running => \A c \in Members : phase[c] \in {"header", "body"}

\* The write queue never stalls: as long as a session is in the map, it has
\* packets to send exactly if a write is pending, whose completion goes on.
MembersAreServed ==
  Running => \A c \in Members : writing[c] <=> msgQueue[c] # <<>>

\* A read of a body and a write have something to read and to write.
Pending ==
  \A c \in Conn : /\ phase[c] = "body" => Unread(c)
                  /\ writing[c] => msgQueue[c] # <<>>

\* Sessions that have started, and only these, have an id, a place in the map
\* and packets to send.
Seated ==
  /\ \A c \in Started : id[c] \in 1..lastId
  /\ Members \subseteq Started
  /\ \A c \in Conn \ Started : msgQueue[c] = <<>>

\* The inductive invariant behind MapConsistent and MembersAreServed.
SessionInv == TypeOK /\ Pending /\ Seated /\ MapConsistent /\ MembersAreServed

\* The server has read p from d.
ReadFrom(d, p) == \E i \in 1..taken[d] : sent[d][i] = p

\* No client gets a packet that is not meant for it, or that nobody has sent:
\* whatever Bcast, Ucast and Start put into a session's queue names this
\* session as its receiver, or is a broadcast the server has read from another
\* session.  Only a broadcast sent under the id 0 may be the client's own:
\* Bcast (TcpMultiSessionServer.cpp:52) knows the sender by that id alone.
OnlyAddressee ==
  \A c \in Conn : \A k \in DOMAIN Outbox(c) :
    LET p == Outbox(c)[k] IN
    IF p.type = "MT_BCAST"
    THEN \E d \in Conn : ReadFrom(d, p) /\ (d # c \/ p.senderId = 0)
    ELSE p.reciverId = id[c]

\* The relay from one client to another neither loses, repeats nor reorders
\* packets: what d has got from c (Bcast, Ucast through msgQueue) is a stretch
\* without gaps of what c has sent that d should get, and, while d is in the
\* map, a stretch that reaches to the last packet the server has read from c.
\* f says where in what c has sent each packet comes from.  A packet sent under
\* the id 0 has no sender a receiver could tell and is not followed here.
RelayInOrder ==
  \A c, d \in Started :
    c # d =>
      \E f \in [Relayed(c, d) -> Addressed(c, d)] :
        /\ \A k \in Relayed(c, d) : Outbox(d)[k] = sent[c][f[k]]
        /\ \A k, l \in Relayed(c, d) : k < l => f[k] < f[l]
        /\ \A k, l \in Relayed(c, d) : \A i \in Addressed(c, d) :
             f[k] <= i /\ i <= f[l] => \E m \in Relayed(c, d) : f[m] = i
        /\ d \in Members =>
             \A k \in Relayed(c, d) : \A i \in Addressed(c, d) :
               f[k] <= i => \E m \in Relayed(c, d) : f[m] = i

\* The first packet a client gets is MT_SET_ID with the id under which the
\* server knows it, and it gets no other: the id it then writes into its
\* packets is its own, or 0 before it has read that packet.
IdAnnounced ==
  \A c \in Conn :
    /\ c \in Started => /\ Outbox(c) # <<>>
                        /\ Outbox(c)[1] = SetId(id[c])
    /\ \A k \in DOMAIN Outbox(c) : Outbox(c)[k].type = "MT_SET_ID" => k = 1
    /\ clientId[c] \in {0, id[c]}

\* The connection layer implements Group: ids are given once and in order, who
\* has left is never in the map again and gets nothing more, every packet
\* Bcast, Ucast or Start gives out reaches exactly its addressees.
G == INSTANCE Group WITH
       up     <- Running,
       last   <- lastId,
       number <- id,
       status <- [c \in Conn |-> IF c \in Members THEN "member"
                                 ELSE IF c \in Started THEN "left" ELSE "outside"],
       inbox  <- [c \in Conn |-> Outbox(c)]

ImplementsGroup == G!GroupSpec

\* The server has read a packet of one of the types from c.
HasRead(c, types) == \E k \in 1..taken[c] : sent[c][k].type \in types

Departing(c) == conn[c] = "closed" \/ HasRead(c, {"MT_DISCONNECT"})

\* While clients stay connected and behave, they cannot end the server: Leave
\* throws (TcpMultiSessionServer.cpp:41) only if some client has closed its
\* connection or sent MT_DISCONNECT, Ucast (line 72) only then, or after an
\* MT_UCAST, or after a query sent under the id 0.
FailuresExplained ==
  /\ server = "UnexistingSession" => \E c \in Conn : Departing(c)
  /\ server = "NoSuchSession" =>
       \E c \in Conn :
         \/ Departing(c)
         \/ HasRead(c, {"MT_UCAST"})
         \/ \E k \in 1..taken[c] : /\ sent[c][k].type \in Query
                                   /\ sent[c][k].senderId = 0

\* A member whose client has closed the connection is removed from the map,
\* unless the process ends first.
DepartureNoticed ==
  \A c \in Conn :
    c \in Members /\ conn[c] = "closed" ~> c \notin Members \/ ~Running

\* Whatever is queued for a session in the map reaches the socket, unless the
\* connection or the process ends first.
QueueDrains ==
  \A c \in Conn :
    c \in Members /\ conn[c] = "open"
      ~> msgQueue[c] = <<>> \/ conn[c] # "open" \/ ~Running

\* TcpMultiSessionServer.h:61, "Handle new client connection and creates
\* session for it": an open connection gets a session.
ConnectionsAccepted ==
  \A c \in Conn :
    conn[c] = "open" ~> phase[c] # "idle" \/ conn[c] # "open" \/ ~Running
=============================================================================
